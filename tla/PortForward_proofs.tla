--------------------------- MODULE PortForward_proofs ---------------------------
(***************************************************************************)
(* Proofs about PortForward, for every bound.                              *)
(*                                                                         *)
(* Base ties calls, messages and forwards together: an answer finds its    *)
(* caller where it waits for it, a caller gets one answer at a time, and a *)
(* start that the core works on is one that some call in the store awaits. *)
(* On top of it, Releasing says what a forward holds in each state of its  *)
(* start and its stops, and Agreeing what the messages underway say of it: *)
(* unless somebody still owes an answer, the last one says what is so.     *)
(***************************************************************************)
EXTENDS PortForward, TLAPS

LOCAL INSTANCE SequencesExt

Call == [at : Places, rules : Seq(Rule), op : Op \cup {0}, owned : SUBSET Snap]

Of == [Op -> [rule : Rule \cup {""}, mode : {"", "auto", "manual"}]]

Messages(box) == {box[i] : i \in DOMAIN box}

(* An answer m: who has asked waits for it, and the core has done its part. *)
Expected(m, calls, forwards) ==
  /\ m.kind # "event" => m.to \in Process
  /\ m.kind \in {"started", "failed", "active", "list"} => m.to \in Starters
  /\ m.kind \in {"started", "failed"} =>
       /\ calls[m.to].at = "invoke" /\ calls[m.to].op = m.op
       /\ forwards[m.op].start = "over"
  /\ m.kind = "active" =>
       calls[m.to].at = "invoke" /\ forwards[calls[m.to].op].start = "none"
  /\ m.kind = "list" => calls[m.to].at = "hydrate"
  /\ m.kind \in {"stopped", "refused"} => calls[m.to].at = "stop"
  /\ m.kind \in {"event", "started", "failed", "stopped"} => forwards[m.op].start # "none"
  /\ m.kind = "list" => \A op \in Op : m.list[op] # "none" => forwards[op].start # "none"

(* Nobody gets two answers.                                                *)
Single(box) ==
  \A i, j \in DOMAIN box :
    i # j /\ box[i].kind # "event" /\ box[j].kind # "event" => box[i].to # box[j].to

(* A call c of p.                                                          *)
Placed(p, c, forwards, rs) ==
  /\ c.at \in {"find", "prepare", "invoke", "hydrate"} => p \in Starters
  /\ c.at = "leaving" => p \in Leavers
  /\ p \in Starters /\ c.at \notin {"new", "done"} => c.rules # <<>>
  /\ c.at \in {"invoke", "stop"} \cup InStopOne => c.op \in Op
  /\ c.at = "invoke" /\ forwards[c.op].start = "none" => rs[c.op].status = "starting"
  /\ c.at \in InStopOne => forwards[c.op].start \notin {"none", "connect"}

Working(forward) == forward.start \in {"connect", "listen", "emitted"}

(* A start that is refused has its answer underway; one that the core works on has its caller. *)
Awaited ==
  /\ \A p \in Starters : proc[p].at = "invoke" /\ core[proc[p].op].start = "none" =>
       \E m \in Messages(inbox) : m.kind = "active" /\ m.to = p
  /\ \A op \in Op : Working(core[op]) =>
       \E p \in Starters : proc[p].at = "invoke" /\ proc[p].op = op
  /\ \A p, q \in Starters : proc[p].at = "invoke" /\ proc[q].at = "invoke"
                              /\ proc[p].op = proc[q].op => p = q

Typed ==
  /\ of \in Of /\ rows \in [Op -> Row] /\ proc \in [Process -> Call]
  /\ core \in [Op -> Forward] /\ inbox \in Seq(Message)
  /\ \A op \in Op : core[op].listed => core[op].start \notin {"none", "connect"}

Base ==
  /\ Typed
  /\ \A m \in Messages(inbox) : Expected(m, proc, core)
  /\ Single(inbox)
  /\ \A p \in Process : Placed(p, proc[p], core, rows)
  /\ Awaited

At1(op, at) == \E p \in Process : proc[p].at = at /\ proc[p].op = op

(* What a forward holds: f in the core, while stops of it have emitted     *)
(* their first event (emitted) or are closing its connection (closing).    *)
Holds(f, emitted, closing) ==
  /\ f.start = "none" => f = Nothing
  /\ f.start = "connect" => f.status = "starting" /\ ~f.listed /\ ~f.server
  /\ f.start = "listen" => /\ f.listed /\ ~f.listening /\ ~f.server
                           /\ f.status \in {"starting", "stopping", "stopped"}
  /\ f.start = "emitted" => f.listed
  /\ f.start \in {"emitted", "over"} /\ f.listed =>
       f.server /\ f.status \in {"running", "stopping", "stopped"}
  /\ ~f.listed => ~f.connected /\ ~f.listening
  /\ f.listed /\ f.status = "stopping" => emitted
  /\ f.listed /\ f.status = "stopped" => ~f.listening /\ (f.connected => closing)

Releasing == \A op \in Op : Holds(core[op], At1(op, "emitted"), At1(op, "closing"))

(* The status s is as good as the one the forward f has.                   *)
Fits(s, f) ==
  /\ s \in Active => f.listed /\ s = f.status
  /\ f.listed /\ f.status \in Active => s = f.status

(* What message m says of op.                                              *)
Speaks(m, op) ==
  \/ m.kind \in {"event", "started", "failed", "stopped"} /\ m.op = op
  \/ m.kind = "list" /\ m.list[op] # "none"
Says(m, op) == IF m.kind = "list" THEN m.list[op]
               ELSE IF m.kind = "failed" THEN "failed" ELSE m.status

(* An answer about op is still to be sent. *)
Owed(op) ==
  \/ Working(core[op])
  \/ \E p \in Process : proc[p].op = op /\ proc[p].at \in InStopOne
  \/ \E p \in Starters : proc[p].op = op /\ proc[p].at = "invoke" /\ core[op].start = "none"

FitsFrom(box, k, op, f) ==
  \A i \in DOMAIN box : i >= k /\ Speaks(box[i], op) => Fits(Says(box[i], op), f)

(* What has been said of op last fits: by the last answer and what follows *)
(* it in the box, or by the status s in the row and all that is in the box. *)
Fitting(op, s, box, f) ==
  \/ \E k \in DOMAIN box : /\ box[k].kind \in {"started", "failed", "stopped"}
                          /\ box[k].op = op /\ FitsFrom(box, k, op, f)
  \/ Fits(s, f) /\ FitsFrom(box, 1, op, f)

Agrees(op) == Owed(op) \/ Fitting(op, rows[op].status, inbox, core[op])

Agreeing == \A op \in Op : Agrees(op)

-----------------------------------------------------------------------------
(* Boxes of messages.                                                      *)

(* t is s without its k-th element.                                        *)
Without(s, t, k) ==
  /\ k \in DOMAIN s /\ Len(t) = Len(s) - 1
  /\ \A i \in 1..Len(t) : t[i] = s[IF i < k THEN i ELSE i + 1]

LEMMA TailWithout ==
  ASSUME NEW s \in Seq(Message), s # <<>>
  PROVE  Tail(s) \in Seq(Message) /\ Without(s, Tail(s), 1) /\ Head(s) = s[1] /\ s[1] \in Messages(s)
<1>1. /\ Len(s) \in Nat \ {0} /\ DOMAIN s = 1..Len(s) /\ Head(s) = s[1]
      /\ Tail(s) \in Seq(Message) /\ Len(Tail(s)) = Len(s) - 1
      /\ \A i \in 1..(Len(s) - 1) : Tail(s)[i] = s[i + 1]
  OBVIOUS
<1>2. \A i \in 1..(Len(s) - 1) : (IF i < 1 THEN i ELSE i + 1) = i + 1 OBVIOUS
<1> QED BY <1>1, <1>2 DEF Without, Messages

LEMMA Joining ==
  ASSUME NEW S, NEW a \in Seq(S), NEW b \in Seq(S)
  PROVE  /\ a \o b \in Seq(S) /\ Len(a \o b) = Len(a) + Len(b)
         /\ \A i \in 1..(Len(a) + Len(b)) :
              (a \o b)[i] = IF i <= Len(a) THEN a[i] ELSE b[i - Len(a)]
OBVIOUS

LEMMA RemoveWithout ==
  ASSUME NEW s \in Seq(Message), NEW k \in DOMAIN s
  PROVE  /\ RemoveAt(s, k) \in Seq(Message) /\ Without(s, RemoveAt(s, k), k)
         /\ s[k] \in Messages(s)
<1> DEFINE a == SubSeq(s, 1, k - 1)
           b == SubSeq(s, k + 1, Len(s))
<1>1. Len(s) \in Nat /\ DOMAIN s = 1..Len(s) /\ k \in 1..Len(s) OBVIOUS
<1>2. a \in Seq(Message) /\ Len(a) = k - 1 /\ \A i \in 1..(k - 1) : a[i] = s[i]
  BY <1>1
<1>3. b \in Seq(Message) /\ Len(b) = Len(s) - k /\ \A i \in 1..(Len(s) - k) : b[i] = s[k + i]
  BY <1>1
<1>4. RemoveAt(s, k) = a \o b BY DEF RemoveAt
<1> HIDE DEF a, b, Message
<1>9. /\ a \o b \in Seq(Message) /\ Len(a \o b) = Len(a) + Len(b)
      /\ \A i \in 1..(Len(a) + Len(b)) :
           (a \o b)[i] = IF i <= Len(a) THEN a[i] ELSE b[i - Len(a)]
  BY <1>2, <1>3, Joining
<1>5. /\ a \o b \in Seq(Message) /\ Len(a \o b) = Len(s) - 1
      /\ \A i \in 1..(Len(s) - 1) : (a \o b)[i] = IF i < k THEN a[i] ELSE b[i - (k - 1)]
  <2>1. Len(a) + Len(b) = Len(s) - 1 BY <1>1, <1>2, <1>3
  <2>2. \A i \in 1..(Len(s) - 1) : i <= Len(a) <=> i < k BY <1>1, <1>2
  <2> QED BY <1>2, <1>9, <2>1, <2>2
<1>6. \A i \in 1..(Len(s) - 1) : i < k => i \in 1..(k - 1) BY <1>1
<1>7. \A i \in 1..(Len(s) - 1) : ~(i < k) =>
         i - (k - 1) \in 1..(Len(s) - k) /\ k + (i - (k - 1)) = i + 1
  BY <1>1
<1>8. \A i \in 1..(Len(s) - 1) : (a \o b)[i] = s[IF i < k THEN i ELSE i + 1]
  BY <1>2, <1>3, <1>5, <1>6, <1>7
<1> QED BY <1>1, <1>4, <1>5, <1>8 DEF Without, Messages

LEMMA WithoutMessages ==
  ASSUME NEW s \in Seq(Message), NEW t \in Seq(Message), NEW k, Without(s, t, k)
  PROVE  /\ Messages(t) \subseteq Messages(s)
         /\ Messages(s) \subseteq Messages(t) \cup {s[k]}
         /\ Single(s) => Single(t)
         /\ Single(s) /\ s[k].kind # "event" =>
              \A m \in Messages(t) : m.kind # "event" => m.to # s[k].to
<1>1. /\ Len(s) \in Nat /\ DOMAIN s = 1..Len(s) /\ k \in 1..Len(s)
      /\ Len(t) = Len(s) - 1 /\ DOMAIN t = 1..Len(t)
  BY DEF Without
<1> DEFINE f(i) == IF i < k THEN i ELSE i + 1
<1>2. \A i \in DOMAIN t : f(i) \in DOMAIN s /\ t[i] = s[f(i)] /\ f(i) # k BY <1>1 DEF Without
<1>3. \A i, j \in DOMAIN t : i # j => f(i) # f(j) BY <1>1
<1>4. \A i \in DOMAIN s : i # k => \E j \in DOMAIN t : f(j) = i
  <2> TAKE i \in DOMAIN s
  <2> HAVE i # k
  <2>1. CASE i < k BY <1>1, <2>1
  <2>2. CASE i > k
    <3>1. i - 1 \in DOMAIN t /\ f(i - 1) = i BY <1>1, <2>2
    <3> QED BY <3>1
  <2> QED BY <1>1, <2>1, <2>2
<1> HIDE DEF f
<1>5. Messages(t) \subseteq Messages(s) BY <1>2 DEF Messages
<1>6. Messages(s) \subseteq Messages(t) \cup {s[k]} BY <1>2, <1>4 DEF Messages
<1>7. Single(s) => Single(t) BY <1>2, <1>3 DEF Single
<1>8. Single(s) /\ s[k].kind # "event" =>
        \A m \in Messages(t) : m.kind # "event" => m.to # s[k].to
  BY <1>1, <1>2 DEF Single, Messages
<1> QED BY <1>5, <1>6, <1>7, <1>8

LEMMA Appending ==
  ASSUME NEW s \in Seq(Message), NEW m \in Message
  PROVE  /\ Append(s, m) \in Seq(Message)
         /\ Messages(Append(s, m)) = Messages(s) \cup {m}
         /\ Single(s) /\ (m.kind = "event" \/ \A x \in Messages(s) : x.kind # "event" => x.to # m.to)
              => Single(Append(s, m))
<1> DEFINE t == Append(s, m)
<1> HIDE DEF Message
<1>1. /\ Len(s) \in Nat /\ DOMAIN s = 1..Len(s) /\ t \in Seq(Message)
      /\ Len(t) = Len(s) + 1 /\ DOMAIN t = 1..(Len(s) + 1)
      /\ t[Len(s) + 1] = m /\ \A i \in 1..Len(s) : t[i] = s[i]
  OBVIOUS
<1> HIDE DEF t
<1>2. \A i \in DOMAIN t : (i \in DOMAIN s /\ t[i] = s[i]) \/ (i = Len(s) + 1 /\ t[i] = m) BY <1>1
<1>3. Messages(t) = Messages(s) \cup {m}
  <2>1. Messages(t) \subseteq Messages(s) \cup {m} BY <1>2 DEF Messages
  <2>2. Messages(s) \subseteq Messages(t)
    <3>1. \A i \in DOMAIN s : i \in DOMAIN t /\ t[i] = s[i] BY <1>1
    <3> QED BY <3>1 DEF Messages
  <2>3. m \in Messages(t)
    <3>1. Len(s) + 1 \in DOMAIN t BY <1>1
    <3> QED BY <1>1, <3>1 DEF Messages
  <2> QED BY <2>1, <2>2, <2>3
<1>4. ASSUME Single(s), m.kind = "event" \/ \A x \in Messages(s) : x.kind # "event" => x.to # m.to,
             NEW i \in DOMAIN t, NEW j \in DOMAIN t, i # j, t[i].kind # "event", t[j].kind # "event"
      PROVE  t[i].to # t[j].to
  <2>1. CASE i \in DOMAIN s /\ t[i] = s[i] /\ j \in DOMAIN s /\ t[j] = s[j]
    BY <1>4, <2>1 DEF Single
  <2>2. CASE i \in DOMAIN s /\ t[i] = s[i] /\ j = Len(s) + 1 /\ t[j] = m
    BY <1>4, <2>2 DEF Messages
  <2>3. CASE j \in DOMAIN s /\ t[j] = s[j] /\ i = Len(s) + 1 /\ t[i] = m
    BY <1>4, <2>3 DEF Messages
  <2> QED BY <1>2, <1>4, <2>1, <2>2, <2>3
<1>5. Single(s) /\ (m.kind = "event" \/ \A x \in Messages(s) : x.kind # "event" => x.to # m.to)
        => Single(t)
  BY <1>4 DEF Single
<1> QED BY <1>1, <1>3, <1>5 DEF t

-----------------------------------------------------------------------------
(* Calls.                                                                  *)

LEMMA Callers ==
  /\ Starters \subseteq Process /\ Leavers \subseteq Process /\ Button \in Process
  /\ \A p \in Starters : p \notin Leavers /\ p # Button /\ p[2] \in Owner \cup {User}
  /\ \A p \in Leavers : p # Button /\ p \notin Starters
  /\ \A o \in Owner \cup {User} : <<"start", o>> \in Starters /\ <<"start", o>>[2] = o
  /\ \A o \in Owner : <<"leave", o>> \in Leavers
  /\ \A p \in Process : p \in Starters \/ p \in Leavers \/ p = Button
  /\ User \notin Owner
BY ForwardAssumption DEF Starters, Leavers, Button, Process, Owner

LEMMA RulesTyped ==
  /\ Rules \in Seq(Rule) /\ Rules # <<>>
  /\ \A r \in Rule : <<r>> \in Seq(Rule) /\ <<r>> # <<>>
<1>1. Rules \in Seq(STRING) /\ Rules # <<>> BY ForwardAssumption
<1>2. Rule = {Rules[i] : i \in DOMAIN Rules} BY DEF Rule, ToSet
<1>3. Rules \in Seq({Rules[i] : i \in DOMAIN Rules}) BY <1>1
<1>4. \A r \in Rule : <<r>> \in Seq(Rule) /\ <<r>> # <<>>
  <2> HIDE DEF Rule
  <2> QED OBVIOUS
<1> QED BY <1>1, <1>2, <1>3, <1>4

(* Between old and new nobody but p moves.                                 *)
Moved(old, new, p) ==
  new \in [Process -> Call] /\ \A x \in Process : x # p => new[x] = old[x]

LEMMA Moving ==
  ASSUME NEW old \in [Process -> Call], NEW p \in Process, NEW c \in Call,
         NEW new, new = [old EXCEPT ![p] = c]
  PROVE  Moved(old, new, p) /\ new[p] = c
BY DEF Moved

(* p goes to another place, or takes up another operation there.           *)
To(old, p, at) == [old EXCEPT ![p].at = at]
ToOp(old, p, at, op) == [old EXCEPT ![p].at = at, ![p].op = op]

LEMMA MovingTo ==
  ASSUME NEW old \in [Process -> Call], NEW p \in Process, NEW at \in Places
  PROVE  /\ Moved(old, To(old, p, at), p) /\ To(old, p, at)[p].at = at
         /\ To(old, p, at)[p].rules = old[p].rules /\ To(old, p, at)[p].op = old[p].op
         /\ To(old, p, at)[p].owned = old[p].owned
<1> DEFINE c == [old[p] EXCEPT !.at = at]
           new == To(old, p, at)
<1>1. c \in Call /\ c.at = at /\ c.rules = old[p].rules /\ c.op = old[p].op /\ c.owned = old[p].owned
  BY DEF Call
<1>2. new = [old EXCEPT ![p] = c] BY DEF To
<1> HIDE DEF c, new
<1>3. Moved(old, new, p) /\ new[p] = c BY <1>1, <1>2, Moving
<1> QED BY <1>1, <1>3 DEF new

LEMMA MovingOp ==
  ASSUME NEW old \in [Process -> Call], NEW p \in Process, NEW at \in Places, NEW op \in Op \cup {0}
  PROVE  /\ Moved(old, ToOp(old, p, at, op), p) /\ ToOp(old, p, at, op)[p].at = at
         /\ ToOp(old, p, at, op)[p].op = op
         /\ ToOp(old, p, at, op)[p].rules = old[p].rules
         /\ ToOp(old, p, at, op)[p].owned = old[p].owned
<1> DEFINE c == [old[p] EXCEPT !.at = at, !.op = op]
           new == ToOp(old, p, at, op)
<1>1. c \in Call /\ c.at = at /\ c.rules = old[p].rules /\ c.op = op /\ c.owned = old[p].owned
  BY DEF Call
<1>2. new = [old EXCEPT ![p] = c] BY DEF Call, ToOp
<1> HIDE DEF c, new
<1>3. Moved(old, new, p) /\ new[p] = c BY <1>1, <1>2, Moving
<1> QED BY <1>1, <1>3 DEF new

(* A call that awaits nothing is in its place whatever else there is.      *)
Idle == {"new", "find", "prepare", "hydrate", "stop", "leaving", "done"}

LEMMA Returning ==
  ASSUME proc \in [Process -> Call], NEW p \in Starters, proc[p].rules # <<>>
  PROVE  /\ Moved(proc, Return(p), p) /\ Return(p)[p].at \in {"find", "done"}
         /\ Return(p)[p].at = "find" => Return(p)[p].rules # <<>>
         /\ Return(p)[p].op = 0
<1> DEFINE to == IF Len(proc[p].rules) = 1 THEN "done" ELSE "find"
           c == [proc[p] EXCEPT !.rules = Tail(@), !.op = 0, !.at = to]
<1>1. p \in Process /\ proc[p] \in Call /\ proc[p].rules \in Seq(Rule) BY Callers DEF Call
<1>2. /\ Tail(proc[p].rules) \in Seq(Rule)
      /\ to = "find" => Tail(proc[p].rules) # <<>>
  <2> DEFINE s == proc[p].rules
  <2>1. s \in Seq(Rule) /\ s # <<>> BY <1>1
  <2> HIDE DEF s
  <2>2. Len(s) \in Nat \ {0} /\ Tail(s) \in Seq(Rule) /\ Len(Tail(s)) = Len(s) - 1 BY <2>1
  <2>3. Len(s) # 1 => Tail(s) # <<>>
    <3> DEFINE t == Tail(s)
    <3>1. t \in Seq(Rule) /\ Len(t) = Len(s) - 1 BY <2>2
    <3> HIDE DEF t
    <3>2. t = <<>> => Len(t) = 0 OBVIOUS
    <3>3. Len(s) # 1 => t # <<>> BY <2>2, <3>1, <3>2
    <3> QED BY <3>3 DEF t
  <2> QED BY <2>2, <2>3 DEF s
<1>3. to \in Places /\ to \in {"find", "done"} BY DEF Places
<1> HIDE DEF to
<1>4. c \in Call /\ c.at = to /\ c.rules = Tail(proc[p].rules) /\ c.op = 0
  BY <1>1, <1>2, <1>3 DEF Call
<1>5. Return(p) = [proc EXCEPT ![p] = c] BY <1>1 DEF Return, to, Call
<1> HIDE DEF c
<1>6. Moved(proc, Return(p), p) /\ Return(p)[p] = c BY <1>1, <1>4, <1>5, Moving
<1> QED BY <1>2, <1>3, <1>4, <1>6

LEMMA PlacedIdle ==
  ASSUME NEW p, NEW c, c.at \in Idle, NEW f, NEW rs,
         c.at \in {"find", "prepare", "hydrate"} => p \in Starters,
         c.at = "leaving" => p \in Leavers,
         p \in Starters /\ c.at \notin {"new", "done"} => c.rules # <<>>,
         c.at = "stop" => c.op \in Op
  PROVE  Placed(p, c, f, rs)
BY DEF Placed, Idle, InStopOne

(* Whoever has stopped a forward goes on.                                  *)
LEMMA Continuing ==
  ASSUME Base, NEW p \in Process, proc[p].at = "stop"
  PROVE  /\ Moved(proc, Continue(p), p) /\ Continue(p)[p].at \in {"find", "done", "leaving"}
         /\ \A f, rs : Placed(p, Continue(p)[p], f, rs)
<1>1. proc \in [Process -> Call] /\ Placed(p, proc[p], core, rows) BY DEF Base, Typed
<1>2. CASE p \in Starters
  <2>0. p \notin Leavers /\ p # Button BY <1>2, Callers
  <2>1. Continue(p) = Return(p) BY <1>2, <2>0 DEF Continue
  <2>2. proc[p].rules # <<>> BY <1>1, <1>2 DEF Placed
  <2>3. /\ Moved(proc, Return(p), p) /\ Return(p)[p].at \in {"find", "done"}
        /\ Return(p)[p].at = "find" => Return(p)[p].rules # <<>>
    BY <1>1, <1>2, <2>2, Returning
  <2>4. \A f, rs : Placed(p, Return(p)[p], f, rs) BY <1>2, <2>3, PlacedIdle DEF Idle
  <2> QED BY <2>1, <2>3, <2>4
<1>3. CASE p \in Leavers
  <2>1. p \notin Starters /\ p # Button BY <1>3, Callers
  <2>2. Continue(p) = [At(p, "leaving") EXCEPT ![p].op = 0] BY <1>3, <2>1 DEF Continue
  <2>3. Continue(p) = ToOp(proc, p, "leaving", 0) BY <2>2 DEF At, ToOp
  <2>4. "leaving" \in Places /\ 0 \in Op \cup {0} BY DEF Places
  <2>5. Moved(proc, Continue(p), p) /\ Continue(p)[p].at = "leaving"
    BY <1>1, <2>3, <2>4, MovingOp
  <2>6. \A f, rs : Placed(p, Continue(p)[p], f, rs) BY <1>3, <2>1, <2>5, PlacedIdle DEF Idle
  <2> QED BY <2>5, <2>6
<1>4. CASE p = Button
  <2>1. p \notin Starters /\ p \notin Leavers BY <1>4, Callers
  <2>2. Continue(p) = [At(p, "done") EXCEPT ![p].op = 0] BY <1>4, <2>1 DEF Continue
  <2>3. Continue(p) = ToOp(proc, p, "done", 0) BY <2>2 DEF At, ToOp
  <2>4. "done" \in Places /\ 0 \in Op \cup {0} BY DEF Places
  <2>5. Moved(proc, Continue(p), p) /\ Continue(p)[p].at = "done"
    BY <1>1, <2>3, <2>4, MovingOp
  <2>6. \A f, rs : Placed(p, Continue(p)[p], f, rs) BY <2>1, <2>5, PlacedIdle DEF Idle
  <2> QED BY <2>5, <2>6
<1> QED BY <1>2, <1>3, <1>4, Callers

-----------------------------------------------------------------------------
(* What keeps Base.                                                        *)

LEMMA MessageTypes ==
  ASSUME NEW m \in Message
  PROVE  /\ m.kind \in {"event", "started", "failed", "stopped", "active", "refused", "list"}
         /\ m.kind \in {"event", "started", "failed", "stopped"} => m.op \in Op /\ m.status \in Status
         /\ m.kind = "list" => m.list \in [Op -> Status]
BY DEF Message

LEMMA InTheBox ==
  ASSUME NEW box \in Seq(Message)
  PROVE  Messages(box) \subseteq Message
<1> HIDE DEF Message
<1> QED BY DEF Messages

(* The starts go on from old to new; one that has a row and is not in the  *)
(* core does not.                                                          *)
Grows(old, new, rs) ==
  \A op \in Op :
    /\ old[op].start = "over" => new[op].start = "over"
    /\ old[op].start # "none" => new[op].start # "none"
    /\ old[op].start \notin {"none", "connect"} => new[op].start \notin {"none", "connect"}
    /\ old[op].start = "none" /\ rs[op].status = "starting" => new[op].start = "none"

LEMMA GrowsNot ==
  ASSUME NEW f, NEW rs
  PROVE  Grows(f, f, rs)
BY DEF Grows

(* Rows of starts that wait for their refusal stay, but for p's.           *)
RowsStay(p) ==
  \A op \in Op : core[op].start = "none" /\ rows[op].status = "starting" =>
    \/ rows'[op].status = "starting"
    \/ proc[p].at = "invoke" /\ proc[p].op = op /\ proc'[p] # proc[p]

LEMMA ExpectedKept ==
  ASSUME Base, NEW p \in Process, Moved(proc, proc', p), Grows(core, core', rows),
         NEW m \in Messages(inbox), m.kind = "event" \/ m.to # p \/ proc'[p] = proc[p]
  PROVE  Expected(m, proc', core')
<1>1. m \in Message BY InTheBox DEF Base, Typed
<1>2. Expected(m, proc, core) BY DEF Base
<1>3. m.kind # "event" => m.to \in Process /\ proc'[m.to] = proc[m.to]
  BY <1>2 DEF Expected, Moved
<1>4. m.kind \in {"event", "started", "failed", "stopped"} => core'[m.op].start # "none"
  BY <1>1, <1>2, MessageTypes DEF Expected, Grows
<1>5. m.kind \in {"started", "failed"} => core'[m.op].start = "over"
  BY <1>1, <1>2, MessageTypes DEF Expected, Grows
<1>6. m.kind = "list" => \A op \in Op : m.list[op] # "none" => core'[op].start # "none"
  BY <1>2 DEF Expected, Grows
<1>7. m.kind = "active" => core'[proc[m.to].op].start = "none"
  <2> SUFFICES ASSUME m.kind = "active" PROVE core'[proc[m.to].op].start = "none"
    OBVIOUS
  <2>1. /\ m.to \in Process /\ proc[m.to].at = "invoke" /\ core[proc[m.to].op].start = "none"
    BY <1>2 DEF Expected
  <2>2. Placed(m.to, proc[m.to], core, rows) BY <2>1 DEF Base
  <2>3. proc[m.to].op \in Op /\ rows[proc[m.to].op].status = "starting"
    BY <2>1, <2>2 DEF Placed
  <2> QED BY <2>1, <2>3 DEF Grows
<1>8. m.kind # "event" => m.to \in Process BY <1>3
<1>9. /\ m.kind \in {"started", "failed", "active", "list"} => m.to \in Starters
      /\ m.kind \in {"started", "failed"} => proc[m.to].at = "invoke" /\ proc[m.to].op = m.op
      /\ m.kind = "active" => proc[m.to].at = "invoke"
      /\ m.kind = "list" => proc[m.to].at = "hydrate"
      /\ m.kind \in {"stopped", "refused"} => proc[m.to].at = "stop"
  BY <1>2 DEF Expected
<1> QED BY <1>3, <1>4, <1>5, <1>6, <1>7, <1>9 DEF Expected

LEMMA PlacedKept ==
  ASSUME Base, NEW p \in Process, Moved(proc, proc', p), Grows(core, core', rows), RowsStay(p),
         NEW x \in Process, x # p \/ proc'[p] = proc[p]
  PROVE  Placed(x, proc'[x], core', rows')
<1>1. Placed(x, proc[x], core, rows) /\ proc'[x] = proc[x] BY DEF Base, Moved
<1>2. ASSUME proc[x].at = "invoke", core'[proc[x].op].start = "none"
      PROVE  rows'[proc[x].op].status = "starting"
  <2>1. x \in Starters /\ proc[x].op \in Op BY <1>1, <1>2 DEF Placed
  <2>2. core[proc[x].op].start = "none" BY <1>2, <2>1 DEF Grows
  <2>3. rows[proc[x].op].status = "starting" BY <1>1, <1>2, <2>2 DEF Placed
  <2>4. CASE proc[p].at = "invoke" /\ proc[p].op = proc[x].op /\ proc'[p] # proc[p]
    <3>1. p \in Starters
      <4>1. Placed(p, proc[p], core, rows) BY DEF Base
      <4> QED BY <2>4, <4>1 DEF Placed
    <3>2. p = x BY <1>2, <2>1, <2>4, <3>1 DEF Base, Awaited
    <3> QED BY <2>4, <3>2
  <2> QED BY <2>1, <2>2, <2>3, <2>4 DEF RowsStay
<1>3. proc[x].at \in InStopOne => core'[proc[x].op].start \notin {"none", "connect"}
  BY <1>1 DEF Placed, Grows
<1> QED BY <1>1, <1>2, <1>3 DEF Placed

LEMMA BaseStep ==
  ASSUME Base, NEW p \in Process, Typed', Moved(proc, proc', p), Grows(core, core', rows), RowsStay(p),
         proc'[p] = proc[p] \/ Placed(p, proc'[p], core', rows'),
         \A m \in Messages(inbox') :
           \/ m \in Messages(inbox) /\ (m.kind = "event" \/ m.to # p \/ proc'[p] = proc[p])
           \/ Expected(m, proc', core'),
         Single(inbox'), Awaited'
  PROVE  Base'
<1>1. \A m \in Messages(inbox') : Expected(m, proc', core') BY ExpectedKept
<1>2. \A x \in Process : Placed(x, proc'[x], core', rows')
  <2> TAKE x \in Process
  <2>1. CASE x # p \/ proc'[p] = proc[p] BY <2>1, PlacedKept
  <2>2. CASE x = p /\ Placed(p, proc'[p], core', rows') BY <2>2
  <2> QED BY <2>1, <2>2
<1> QED BY <1>1, <1>2 DEF Base

(* Refusals stay underway, but to p.                                       *)
RefusalsStay(p) ==
  \A m \in Messages(inbox) :
    m.kind = "active" /\ (m.to # p \/ proc'[p] = proc[p]) => m \in Messages(inbox')

(* The core takes on no other start.                                       *)
NoOtherStart ==
  \A op \in Op : /\ Working(core'[op]) => Working(core[op])
                 /\ core'[op].start = "none" => core[op].start = "none"

(* Awaited, when nobody comes to await a start.                            *)
LEMMA AwaitedKept ==
  ASSUME Base, NEW p \in Process, Moved(proc, proc', p),
         proc'[p].at # "invoke" \/ proc'[p] = proc[p],
         NoOtherStart, RefusalsStay(p),
         proc[p].at = "invoke" /\ proc'[p] # proc[p] => ~Working(core'[proc[p].op])
  PROVE  Awaited'
<1>1. ASSUME NEW x \in Starters, proc'[x].at = "invoke"
      PROVE  /\ proc'[x] = proc[x] /\ (x # p \/ proc'[p] = proc[p])
             /\ proc[x].op \in Op
  <2>1. x \in Process BY Callers
  <2>2. x # p \/ proc'[p] = proc[p] BY <1>1
  <2>3. proc'[x] = proc[x] BY <2>1, <2>2 DEF Moved
  <2>4. Placed(x, proc[x], core, rows) BY <2>1 DEF Base
  <2> QED BY <1>1, <2>2, <2>3, <2>4 DEF Placed
<1>2. ASSUME NEW x \in Starters, proc'[x].at = "invoke", core'[proc'[x].op].start = "none"
      PROVE  \E m \in Messages(inbox') : m.kind = "active" /\ m.to = x
  <2>1. proc[x].at = "invoke" /\ core[proc[x].op].start = "none"
    BY <1>1, <1>2 DEF NoOtherStart
  <2>2. PICK m \in Messages(inbox) : m.kind = "active" /\ m.to = x
    BY <2>1 DEF Base, Awaited
  <2>3. m \in Messages(inbox') BY <1>1, <1>2, <2>2 DEF RefusalsStay
  <2> QED BY <2>2, <2>3
<1>3. ASSUME NEW op \in Op, Working(core'[op])
      PROVE  \E x \in Starters : proc'[x].at = "invoke" /\ proc'[x].op = op
  <2>1. Working(core[op]) BY <1>3 DEF NoOtherStart
  <2>2. PICK x \in Starters : proc[x].at = "invoke" /\ proc[x].op = op
    BY <2>1 DEF Base, Awaited
  <2>3. x # p \/ proc'[p] = proc[p] BY <1>3, <2>2
  <2>4. proc'[x] = proc[x] BY <2>3, Callers DEF Moved
  <2> QED BY <2>2, <2>4
<1>4. ASSUME NEW x \in Starters, NEW y \in Starters, proc'[x].at = "invoke", proc'[y].at = "invoke",
             proc'[x].op = proc'[y].op
      PROVE  x = y
  <2>1. proc'[x] = proc[x] /\ proc'[y] = proc[y] BY <1>1, <1>4
  <2> QED BY <1>4, <2>1 DEF Base, Awaited
<1> QED BY <1>2, <1>3, <1>4 DEF Awaited

(* Answers are underway only to those who wait for them.                   *)
LEMMA NoAnswers ==
  ASSUME Base, NEW p \in Process,
         \/ proc[p].at \notin {"invoke", "hydrate", "stop"}
         \/ proc[p].at = "invoke" /\ Working(core[proc[p].op])
  PROVE  \A m \in Messages(inbox) : m.kind # "event" => m.to # p
<1> SUFFICES ASSUME NEW m \in Messages(inbox), m.kind # "event", m.to = p PROVE FALSE
  OBVIOUS
<1>1. Expected(m, proc, core) /\ m \in Message BY InTheBox DEF Base, Typed
<1>2. m.kind \in {"started", "failed", "stopped", "active", "refused", "list"}
  BY <1>1, MessageTypes
<1> QED BY <1>1, <1>2 DEF Expected, Working

(* A step of p keeps the box in order.                                     *)
BoxKept(p) ==
  /\ inbox' \in Seq(Message) /\ Single(inbox')
  /\ \A m \in Messages(inbox') :
       \/ m \in Messages(inbox) /\ (m.kind = "event" \/ m.to # p \/ proc'[p] = proc[p])
       \/ Expected(m, proc', core')
  /\ RefusalsStay(p)

LEMMA BoxSame ==
  ASSUME Base, NEW p \in Process, inbox' = inbox,
         \/ proc'[p] = proc[p]
         \/ \A m \in Messages(inbox) : m.kind # "event" => m.to # p
  PROVE  BoxKept(p)
BY DEF BoxKept, RefusalsStay, Base, Typed

LEMMA BoxPost ==
  ASSUME Base, NEW p \in Process, NEW m \in Message, inbox' = Append(inbox, m),
         \A x \in Messages(inbox) : x.kind # "event" => x.to # p,
         m.kind = "event" \/ m.to = p, Expected(m, proc', core')
  PROVE  BoxKept(p)
<1>1. inbox \in Seq(Message) /\ Single(inbox) BY DEF Base, Typed
<1>2. /\ inbox' \in Seq(Message) /\ Messages(inbox') = Messages(inbox) \cup {m}
      /\ Single(inbox) /\ (m.kind = "event" \/ \A x \in Messages(inbox) : x.kind # "event" => x.to # m.to)
           => Single(inbox')
  BY <1>1, Appending
<1> QED BY <1>1, <1>2 DEF BoxKept, RefusalsStay

LEMMA BoxTake ==
  ASSUME Base, inbox # <<>>, Head(inbox).kind # "event",
         proc'[Head(inbox).to] # proc[Head(inbox).to],
         \/ inbox' = Tail(inbox)
         \/ \E m \in Message : /\ inbox' = Append(Tail(inbox), m)
                               /\ m.kind = "event" \/ m.to = Head(inbox).to
                               /\ Expected(m, proc', core')
  PROVE  BoxKept(Head(inbox).to)
<1> DEFINE t == Tail(inbox)
           h == Head(inbox)
<1>1. inbox \in Seq(Message) /\ Single(inbox) BY DEF Base, Typed
<1>2. t \in Seq(Message) /\ Without(inbox, t, 1) /\ h = inbox[1] BY <1>1, TailWithout
<1> HIDE DEF t, h
<1>3. /\ Messages(t) \subseteq Messages(inbox) /\ Messages(inbox) \subseteq Messages(t) \cup {h}
      /\ Single(t) /\ \A m \in Messages(t) : m.kind # "event" => m.to # h.to
  <2>1. h.kind # "event" BY DEF h
  <2> QED BY <1>1, <1>2, <2>1, WithoutMessages
<1>4. \A m \in Messages(inbox) : m.kind = "active" /\ m.to # h.to => m \in Messages(t)
  BY <1>3
<1>5. proc'[h.to] # proc[h.to] BY DEF h
<1>6. CASE inbox' = t
  <2>1. \A m \in Messages(t) : m \in Messages(inbox) /\ (m.kind = "event" \/ m.to # h.to)
    BY <1>3
  <2>2. BoxKept(h.to) BY <1>2, <1>3, <1>4, <1>5, <1>6, <2>1 DEF BoxKept, RefusalsStay
  <2> QED BY <2>2 DEF h
<1>7. ASSUME NEW m \in Message, inbox' = Append(t, m), m.kind = "event" \/ m.to = h.to,
             Expected(m, proc', core')
      PROVE  BoxKept(h.to)
  <2>1. /\ inbox' \in Seq(Message) /\ Messages(inbox') = Messages(t) \cup {m}
        /\ Single(inbox')
    BY <1>2, <1>3, <1>7, Appending
  <2>2. \A x \in Messages(t) : x \in Messages(inbox) /\ (x.kind = "event" \/ x.to # h.to)
    BY <1>3
  <2> QED BY <1>4, <1>5, <1>7, <2>1, <2>2 DEF BoxKept, RefusalsStay
<1> QED BY <1>6, <1>7 DEF t, h

LEMMA BoxEvent ==
  ASSUME Base, NEW p \in Process, NEW k \in DOMAIN inbox, inbox[k].kind = "event",
         inbox' = RemoveAt(inbox, k), proc'[p] = proc[p]
  PROVE  BoxKept(p)
<1>1. inbox \in Seq(Message) /\ Single(inbox) BY DEF Base, Typed
<1>2. inbox' \in Seq(Message) /\ Without(inbox, inbox', k) BY <1>1, RemoveWithout
<1>3. /\ Messages(inbox') \subseteq Messages(inbox)
      /\ Messages(inbox) \subseteq Messages(inbox') \cup {inbox[k]}
      /\ Single(inbox')
  BY <1>1, <1>2, WithoutMessages
<1> QED BY <1>2, <1>3 DEF BoxKept, RefusalsStay

(* A step of p, while the core's starts stay where they are.               *)
SameStarts ==
  \A op \in Op : core'[op].start = core[op].start /\ core'[op].listed = core[op].listed

LEMMA BaseQuiet ==
  ASSUME Base, NEW p \in Process,
         of' \in Of, rows' \in [Op -> Row], core' \in [Op -> Forward],
         Moved(proc, proc', p), SameStarts, RowsStay(p), BoxKept(p),
         \/ proc'[p] = proc[p]
         \/ /\ Placed(p, proc'[p], core', rows') /\ proc'[p].at # "invoke"
            /\ proc[p].at = "invoke" => ~Working(core[proc[p].op])
  PROVE  Base'
<1>1. Grows(core, core', rows) BY DEF SameStarts, Grows
<1>2. Typed' BY DEF Base, Typed, Moved, BoxKept, SameStarts
<1>3. Awaited'
  <2>1. NoOtherStart BY DEF SameStarts, Working, NoOtherStart
  <2>2. proc[p].at = "invoke" => proc[p].op \in Op BY DEF Base, Placed
  <2>3. proc[p].at = "invoke" /\ proc'[p] # proc[p] => ~Working(core'[proc[p].op])
    BY <2>2 DEF SameStarts, Working
  <2>4. proc'[p].at # "invoke" \/ proc'[p] = proc[p] OBVIOUS
  <2>5. RefusalsStay(p) BY DEF BoxKept
  <2> QED BY <2>1, <2>3, <2>4, <2>5, AwaitedKept
<1> QED BY <1>1, <1>2, <1>3, BaseStep DEF BoxKept, RefusalsStay

-----------------------------------------------------------------------------
(* What the core does.                                                     *)

(* Of the forwards only that of op changes.                                *)
CoreOnly(op) ==
  core' \in [Op -> Forward] /\ \A x \in Op : x # op => core'[x] = core[x]

LEMMA Forwarding ==
  ASSUME Base, NEW op \in Op, NEW f \in Forward, core' = [core EXCEPT ![op] = f]
  PROVE  CoreOnly(op) /\ core'[op] = f
BY DEF CoreOnly, Base, Typed

LEMMA StarterOf ==
  ASSUME Base, NEW op \in Op, Working(core[op])
  PROVE  /\ Starter(op) \in Starters /\ Starter(op) \in Process
         /\ proc[Starter(op)].at = "invoke" /\ proc[Starter(op)].op = op
         /\ \A m \in Messages(inbox) : m.kind # "event" => m.to # Starter(op)
<1>1. \E p \in Starters : proc[p].op = op /\ proc[p].at = "invoke" BY DEF Base, Awaited
<1>2. Starter(op) \in Starters /\ proc[Starter(op)].at = "invoke" /\ proc[Starter(op)].op = op
  BY <1>1 DEF Starter
<1>3. Starter(op) \in Process BY <1>2, Callers
<1> HIDE DEF Starter
<1> QED BY <1>2, <1>3, NoAnswers

LEMMA ConnectDoes ==
  ASSUME Base, NEW op \in Op, Connect(op)
  PROVE  /\ CoreOnly(op) /\ UNCHANGED <<of, rows, proc, inbox>>
         /\ core[op].start = "connect" /\ core'[op].start = "listen"
         /\ core'[op] = [core[op] EXCEPT !.start = "listen", !.listed = TRUE, !.connected = TRUE]
<1> DEFINE f == [core[op] EXCEPT !.start = "listen", !.listed = TRUE, !.connected = TRUE]
<1>1. core \in [Op -> Forward] BY DEF Base, Typed
<1>2. f \in Forward /\ f.start = "listen" BY <1>1 DEF Forward
<1>3. core' = [core EXCEPT ![op] = f] BY <1>1 DEF Connect, Forward
<1> HIDE DEF f
<1>4. CoreOnly(op) /\ core'[op] = f BY <1>2, <1>3, Forwarding
<1> QED BY <1>2, <1>4 DEF Connect, f

LEMMA StartFailsDoes ==
  ASSUME Base, NEW op \in Op, StartFails(op)
  PROVE  /\ CoreOnly(op) /\ UNCHANGED <<of, rows, proc>>
         /\ core[op].start \in {"connect", "listen"} /\ core'[op].start = "over"
         /\ core'[op] = [core[op] EXCEPT !.start = "over", !.listed = FALSE, !.connected = FALSE]
         /\ inbox' = Append(inbox, Answer(Starter(op), "failed", op, "failed"))
<1> DEFINE f == [core[op] EXCEPT !.start = "over", !.listed = FALSE, !.connected = FALSE]
<1>1. core \in [Op -> Forward] BY DEF Base, Typed
<1>2. f \in Forward /\ f.start = "over" BY <1>1 DEF Forward
<1>3. core' = [core EXCEPT ![op] = f] BY <1>1 DEF StartFails, Dropped, Forward
<1> HIDE DEF f
<1>4. CoreOnly(op) /\ core'[op] = f BY <1>2, <1>3, Forwarding
<1> QED BY <1>2, <1>4 DEF StartFails, f

LEMMA ListenDoes ==
  ASSUME Base, NEW op \in Op, Listen(op)
  PROVE  /\ CoreOnly(op) /\ UNCHANGED <<of, rows, proc>>
         /\ core[op].start = "listen" /\ core'[op].start = "emitted"
         /\ core'[op] = [core[op] EXCEPT !.start = "emitted", !.server = TRUE,
                                        !.listening = TRUE, !.status = "running"]
         /\ inbox' = Append(inbox, Event(op, "running"))
<1> DEFINE f == [core[op] EXCEPT !.start = "emitted", !.server = TRUE,
                                 !.listening = TRUE, !.status = "running"]
<1>1. core \in [Op -> Forward] BY DEF Base, Typed
<1>2. f \in Forward /\ f.start = "emitted" BY <1>1 DEF Forward, Status
<1>3. core' = [core EXCEPT ![op] = f] BY <1>1 DEF Listen, Forward
<1> HIDE DEF f
<1>4. CoreOnly(op) /\ core'[op] = f BY <1>2, <1>3, Forwarding
<1> QED BY <1>2, <1>4 DEF Listen, f

LEMMA StartedDoes ==
  ASSUME Base, NEW op \in Op, Started(op)
  PROVE  /\ CoreOnly(op) /\ UNCHANGED <<of, rows, proc>>
         /\ core[op].start = "emitted" /\ core'[op].start = "over"
         /\ core'[op] = [core[op] EXCEPT !.start = "over"]
         /\ inbox' = Append(inbox, Answer(Starter(op), "started", op, core[op].status))
<1> DEFINE f == [core[op] EXCEPT !.start = "over"]
<1>1. core \in [Op -> Forward] BY DEF Base, Typed
<1>2. f \in Forward /\ f.start = "over" BY <1>1 DEF Forward
<1>3. core' = [core EXCEPT ![op] = f] BY <1>1 DEF Started, Forward
<1> HIDE DEF f
<1>4. CoreOnly(op) /\ core'[op] = f BY <1>2, <1>3, Forwarding
<1> QED BY <1>2, <1>4 DEF Started, f

LEMMA AnswersTyped ==
  ASSUME NEW p \in Process, NEW op \in Op, NEW s \in Status, NEW kind \in {"started", "failed", "stopped"}
  PROVE  /\ Answer(p, kind, op, s) \in Message /\ Event(op, s) \in Message
         /\ Answer(p, kind, op, s).kind = kind /\ Answer(p, kind, op, s).to = p
         /\ Answer(p, kind, op, s).op = op /\ Answer(p, kind, op, s).status = s
         /\ Event(op, s).kind = "event" /\ Event(op, s).op = op /\ Event(op, s).status = s
BY DEF Answer, Event, Message

LEMMA BaseStart ==
  ASSUME Base, NEW op \in Op, Connect(op) \/ StartFails(op) \/ Listen(op) \/ Started(op)
  PROVE  Base'
<1> DEFINE p == Starter(op)
<1>1. /\ CoreOnly(op) /\ UNCHANGED <<of, rows, proc>> /\ Working(core[op])
      /\ core'[op].start \in {"listen", "emitted", "over"}
      /\ core[op].start # "connect" => core'[op].start # "connect"
      /\ core[op].start # "over"
  BY ConnectDoes, StartFailsDoes, ListenDoes, StartedDoes DEF Working
<1>2. /\ p \in Starters /\ p \in Process /\ proc[p].at = "invoke" /\ proc[p].op = op
      /\ \A m \in Messages(inbox) : m.kind # "event" => m.to # p
  BY <1>1, StarterOf
<1> HIDE DEF p
<1>3. Moved(proc, proc', p) /\ RowsStay(p) /\ proc'[p] = proc[p]
  BY <1>1 DEF Base, Typed, Moved, RowsStay
<1>4. Grows(core, core', rows) BY <1>1 DEF CoreOnly, Working, Grows
<1>5. core[op].status \in Status BY DEF Base, Typed, Forward
<1>6. BoxKept(p)
  <2>1. CASE Connect(op)
    <3>1. inbox' = inbox BY <2>1, ConnectDoes
    <3> QED BY <1>2, <1>3, <3>1, BoxSame
  <2>2. CASE StartFails(op)
    <3> DEFINE m == Answer(p, "failed", op, "failed")
    <3>1. inbox' = Append(inbox, m) /\ core'[op].start = "over" BY <2>2, StartFailsDoes DEF p
    <3>2. m \in Message /\ m.kind = "failed" /\ m.to = p /\ m.op = op
      BY <1>2, AnswersTyped DEF Status
    <3> HIDE DEF m
    <3>3. Expected(m, proc', core') BY <1>1, <1>2, <3>1, <3>2 DEF Expected
    <3> QED BY <1>2, <3>1, <3>2, <3>3, BoxPost
  <2>3. CASE Listen(op)
    <3> DEFINE m == Event(op, "running")
    <3>1. inbox' = Append(inbox, m) /\ core'[op].start = "emitted" BY <2>3, ListenDoes
    <3>2. m \in Message /\ m.kind = "event" /\ m.op = op
      BY <1>2, AnswersTyped DEF Status
    <3> HIDE DEF m
    <3>3. Expected(m, proc', core') BY <3>1, <3>2 DEF Expected
    <3> QED BY <1>2, <3>1, <3>2, <3>3, BoxPost
  <2>4. CASE Started(op)
    <3> DEFINE m == Answer(p, "started", op, core[op].status)
    <3>1. inbox' = Append(inbox, m) /\ core'[op].start = "over" BY <2>4, StartedDoes DEF p
    <3>2. m \in Message /\ m.kind = "started" /\ m.to = p /\ m.op = op
      BY <1>2, <1>5, AnswersTyped
    <3> HIDE DEF m
    <3>3. Expected(m, proc', core') BY <1>1, <1>2, <3>1, <3>2 DEF Expected
    <3> QED BY <1>2, <3>1, <3>2, <3>3, BoxPost
  <2> QED BY <2>1, <2>2, <2>3, <2>4
<1>7. Awaited'
  <2>1. NoOtherStart BY <1>1 DEF NoOtherStart, CoreOnly, Working
  <2>2. RefusalsStay(p) BY <1>6 DEF BoxKept
  <2> QED BY <1>2, <1>3, <2>1, <2>2, AwaitedKept
<1>8. Typed' BY <1>1, <1>6 DEF Base, Typed, CoreOnly, BoxKept
<1> QED BY <1>2, <1>3, <1>4, <1>6, <1>7, <1>8, BaseStep DEF BoxKept

(* A stop in the core: p goes on to another place in stopOne, or answers.  *)
StopGoes(p, op, at) ==
  /\ UNCHANGED <<of, rows>> /\ CoreOnly(op) /\ SameStarts
  /\ Moved(proc, proc', p) /\ proc'[p].at = at /\ proc'[p].op = op
  /\ proc'[p].rules = proc[p].rules

LEMMA Stopping ==
  ASSUME Base, NEW p \in Process, proc[p].at \in InStopOne
  PROVE  /\ proc[p].op \in Op /\ core[proc[p].op].start \notin {"none", "connect"}
         /\ p \in Starters => proc[p].rules # <<>>
         /\ \A m \in Messages(inbox) : m.kind # "event" => m.to # p
<1>1. Placed(p, proc[p], core, rows) BY DEF Base
<1>2. \A m \in Messages(inbox) : m.kind # "event" => m.to # p BY NoAnswers DEF InStopOne
<1> QED BY <1>1, <1>2 DEF Placed, InStopOne

LEMMA StopReleasesDoes ==
  ASSUME Base, NEW p \in Process, StopReleases(p), NEW op, op = proc[p].op
  PROVE  /\ op \in Op /\ proc[p].at = "emitted" /\ core'[op].status = "stopped"
         /\ \/ /\ core[op].server /\ StopGoes(p, op, "closing") /\ inbox' = inbox
               /\ core'[op] = [core[op] EXCEPT !.status = "stopped", !.listening = FALSE]
            \/ /\ ~core[op].server /\ StopGoes(p, op, "closed")
               /\ inbox' = Append(inbox, Event(op, "stopped"))
               /\ core'[op] = [core[op] EXCEPT !.status = "stopped", !.connected = FALSE]
<1>1. /\ proc[p].at = "emitted" /\ op \in Op /\ proc \in [Process -> Call] /\ core \in [Op -> Forward]
      /\ UNCHANGED <<of, rows>>
  BY Stopping DEF StopReleases, InStopOne, Base, Typed
<1>9. core[op] \in Forward /\ "stopped" \in Status BY <1>1 DEF Status
<1>2. CASE core[op].server
  <2> DEFINE f == [core[op] EXCEPT !.status = "stopped", !.listening = FALSE]
  <2>1. f \in Forward /\ f.status = "stopped" /\ f.start = core[op].start /\ f.listed = core[op].listed
    BY <1>1, <1>9 DEF Forward
  <2>2. core' = [core EXCEPT ![op] = f] BY <1>1, <1>2 DEF StopReleases, Forward
  <2>3. proc' = To(proc, p, "closing") /\ inbox' = inbox BY <1>2 DEF StopReleases, At, To
  <2> HIDE DEF f
  <2>4. CoreOnly(op) /\ core'[op] = f BY <1>1, <2>1, <2>2, Forwarding
  <2>5. "closing" \in Places BY DEF Places, InStopOne
  <2>6. Moved(proc, proc', p) /\ proc'[p].at = "closing" /\ proc'[p].op = op
        /\ proc'[p].rules = proc[p].rules
    BY <1>1, <2>3, <2>5, MovingTo
  <2>7. SameStarts BY <1>1, <2>1, <2>4 DEF CoreOnly, SameStarts
  <2> QED BY <1>1, <1>2, <2>1, <2>3, <2>4, <2>6, <2>7 DEF StopGoes, f
<1>3. CASE ~core[op].server
  <2> DEFINE f == [core[op] EXCEPT !.status = "stopped", !.connected = FALSE]
  <2>1. f \in Forward /\ f.status = "stopped" /\ f.start = core[op].start /\ f.listed = core[op].listed
    BY <1>1, <1>9 DEF Forward
  <2>2. core' = [core EXCEPT ![op] = f] BY <1>1, <1>3 DEF StopReleases, Forward
  <2>3. proc' = To(proc, p, "closed") /\ inbox' = Append(inbox, Event(op, "stopped"))
    BY <1>3 DEF StopReleases, At, To
  <2> HIDE DEF f
  <2>4. CoreOnly(op) /\ core'[op] = f BY <1>1, <2>1, <2>2, Forwarding
  <2>5. "closed" \in Places BY DEF Places, InStopOne
  <2>6. Moved(proc, proc', p) /\ proc'[p].at = "closed" /\ proc'[p].op = op
        /\ proc'[p].rules = proc[p].rules
    BY <1>1, <2>3, <2>5, MovingTo
  <2>7. SameStarts BY <1>1, <2>1, <2>4 DEF CoreOnly, SameStarts
  <2> QED BY <1>1, <1>3, <2>1, <2>3, <2>4, <2>6, <2>7 DEF StopGoes, f
<1> QED BY <1>2, <1>3

LEMMA StopClosesDoes ==
  ASSUME Base, NEW p \in Process, StopCloses(p), NEW op, op = proc[p].op
  PROVE  /\ op \in Op /\ proc[p].at = "closing" /\ StopGoes(p, op, "closed")
         /\ inbox' = Append(inbox, Event(op, core[op].status))
         /\ core'[op] = [core[op] EXCEPT !.connected = FALSE]
         /\ core'[op].status = core[op].status
<1>1. /\ proc[p].at = "closing" /\ op \in Op /\ proc \in [Process -> Call] /\ core \in [Op -> Forward]
      /\ UNCHANGED <<of, rows>>
  BY Stopping DEF StopCloses, InStopOne, Base, Typed
<1> DEFINE f == [core[op] EXCEPT !.connected = FALSE]
<1>2. f \in Forward /\ f.start = core[op].start /\ f.status = core[op].status /\ f.listed = core[op].listed
  <2>1. core[op] \in Forward BY <1>1
  <2> HIDE DEF Status
  <2> QED BY <2>1 DEF Forward
<1>3. core' = [core EXCEPT ![op] = f] BY <1>1 DEF StopCloses, Forward
<1>4. proc' = To(proc, p, "closed") /\ inbox' = Append(inbox, Event(op, core[op].status))
  BY DEF StopCloses, At, To
<1> HIDE DEF f
<1>5. CoreOnly(op) /\ core'[op] = f BY <1>1, <1>2, <1>3, Forwarding
<1>6. "closed" \in Places BY DEF Places, InStopOne
<1>7. Moved(proc, proc', p) /\ proc'[p].at = "closed" /\ proc'[p].op = op
      /\ proc'[p].rules = proc[p].rules
  BY <1>1, <1>4, <1>6, MovingTo
<1>8. SameStarts BY <1>1, <1>2, <1>5 DEF CoreOnly, SameStarts
<1> QED BY <1>1, <1>2, <1>4, <1>5, <1>7, <1>8 DEF StopGoes, f

LEMMA StopAnswersDoes ==
  ASSUME Base, NEW p \in Process, StopAnswers(p), NEW op, op = proc[p].op
  PROVE  /\ op \in Op /\ proc[p].at = "closed" /\ StopGoes(p, op, "stop") /\ core' = core
         /\ inbox' = Append(inbox, Answer(p, "stopped", op, core[op].status))
<1>1. /\ proc[p].at = "closed" /\ op \in Op /\ proc \in [Process -> Call] /\ core \in [Op -> Forward]
      /\ UNCHANGED <<of, rows, core>>
  BY Stopping DEF StopAnswers, InStopOne, Base, Typed
<1>2. /\ proc' = To(proc, p, "stop")
      /\ inbox' = Append(inbox, Answer(p, "stopped", op, core[op].status))
  BY DEF StopAnswers, At, To
<1>3. "stop" \in Places BY DEF Places
<1>4. Moved(proc, proc', p) /\ proc'[p].at = "stop" /\ proc'[p].op = op
      /\ proc'[p].rules = proc[p].rules
  BY <1>1, <1>2, <1>3, MovingTo
<1> QED BY <1>1, <1>2, <1>4 DEF StopGoes, CoreOnly, SameStarts

LEMMA BaseStop ==
  ASSUME Base, NEW p \in Process, StopReleases(p) \/ StopCloses(p) \/ StopAnswers(p)
  PROVE  Base'
<1> DEFINE op == proc[p].op
<1>1. /\ proc[p].at \in InStopOne /\ op \in Op
      /\ \E at \in InStopOne \cup {"stop"} : StopGoes(p, op, at)
  BY StopReleasesDoes, StopClosesDoes, StopAnswersDoes DEF InStopOne
<1>2. PICK at \in InStopOne \cup {"stop"} : StopGoes(p, op, at) BY <1>1
<1>3. /\ core[op].start \notin {"none", "connect"} /\ (p \in Starters => proc[p].rules # <<>>)
      /\ \A m \in Messages(inbox) : m.kind # "event" => m.to # p
  BY <1>1, Stopping
<1>4. core[op].status \in Status BY <1>1 DEF Base, Typed, Forward
<1> HIDE DEF op
<1>5. core'[op].start = core[op].start BY <1>1, <1>2 DEF StopGoes, SameStarts
<1>6. BoxKept(p)
  <2>1. CASE inbox' = inbox BY <1>3, <2>1, BoxSame
  <2>2. ASSUME NEW s \in Status, inbox' = Append(inbox, Event(op, s)) PROVE BoxKept(p)
    <3> DEFINE m == Event(op, s)
    <3>1. m \in Message /\ m.kind = "event" /\ m.op = op BY <1>1, AnswersTyped
    <3> HIDE DEF m
    <3>2. Expected(m, proc', core') BY <1>3, <1>5, <3>1 DEF Expected
    <3>3. inbox' = Append(inbox, m) BY <2>2 DEF m
    <3> QED BY <1>3, <3>1, <3>2, <3>3, BoxPost
  <2>3. CASE inbox' = Append(inbox, Answer(p, "stopped", op, core[op].status)) /\ proc'[p].at = "stop"
    <3> DEFINE m == Answer(p, "stopped", op, core[op].status)
    <3>1. m \in Message /\ m.kind = "stopped" /\ m.op = op /\ m.to = p
      BY <1>1, <1>4, AnswersTyped
    <3> HIDE DEF m
    <3>2. Expected(m, proc', core') BY <1>3, <1>5, <2>3, <3>1 DEF Expected
    <3>3. inbox' = Append(inbox, m) BY <2>3 DEF m
    <3> QED BY <1>3, <3>1, <3>2, <3>3, BoxPost
  <2>4. CASE StopReleases(p)
    <3>1. "stopped" \in Status BY DEF Status
    <3> QED BY <2>1, <2>2, <2>4, <3>1, StopReleasesDoes DEF op
  <2>5. CASE StopCloses(p) BY <1>4, <2>2, <2>5, StopClosesDoes DEF op
  <2>6. CASE StopAnswers(p) BY <2>3, <2>6, StopAnswersDoes DEF op, StopGoes
  <2> QED BY <2>4, <2>5, <2>6
<1>7. Placed(p, proc'[p], core', rows') /\ proc'[p].at # "invoke"
  BY <1>1, <1>2, <1>3, <1>5 DEF StopGoes, Placed, InStopOne
<1>8. of' \in Of /\ rows' \in [Op -> Row] /\ core' \in [Op -> Forward] /\ RowsStay(p)
  BY <1>2 DEF Base, Typed, StopGoes, CoreOnly, RowsStay
<1>9. proc[p].at # "invoke" BY <1>1 DEF InStopOne
<1>10. Moved(proc, proc', p) /\ SameStarts BY <1>2 DEF StopGoes
<1> QED BY <1>6, <1>7, <1>8, <1>9, <1>10, BaseQuiet

-----------------------------------------------------------------------------
(* What the store does.                                                    *)

(* stopOne is called: it refuses, answers or begins.                       *)
StopCalled(p, op, m) ==
  \/ /\ proc'[p].at = "stop" /\ core' = core
     /\ m.kind = "refused" /\ m.to = p
  \/ /\ proc'[p].at = "stop" /\ core' = core /\ core[op].listed /\ core[op].status = "stopped"
     /\ m.kind = "stopped" /\ m.to = p /\ m.op = op /\ m.status = "stopped"
  \/ /\ proc'[p].at = "emitted" /\ core[op].listed /\ core[op].status # "stopped"
     /\ core'[op] = [core[op] EXCEPT !.status = "stopping"] /\ core'[op].status = "stopping"
     /\ m.kind = "event" /\ m.op = op /\ m.status = "stopping"

LEMMA CallingStop ==
  ASSUME Base, NEW p \in Process, NEW op \in Op, NEW procs, Moved(proc, procs, p),
         NEW box, CallStop(procs, p, op, box)
  PROVE  /\ Moved(proc, proc', p) /\ proc'[p].op = op /\ proc'[p].rules = procs[p].rules
         /\ CoreOnly(op) /\ SameStarts
         /\ \E m \in Message : inbox' = Append(box, m) /\ StopCalled(p, op, m)
<1>1. procs \in [Process -> Call] /\ op \in Op \cup {0} /\ core \in [Op -> Forward] BY DEF Moved, Base, Typed
<1>2. "stop" \in Places /\ "emitted" \in Places BY DEF Places, InStopOne
<1>3. ASSUME NEW at \in {"stop", "emitted"}, proc' = ToOp(procs, p, at, op)
      PROVE  /\ Moved(proc, proc', p) /\ proc'[p].op = op /\ proc'[p].rules = procs[p].rules
             /\ proc'[p].at = at
  <2>1. /\ Moved(procs, proc', p) /\ proc'[p].op = op /\ proc'[p].rules = procs[p].rules
        /\ proc'[p].at = at
    BY <1>1, <1>2, <1>3, MovingOp
  <2> QED BY <2>1 DEF Moved
<1>4. ASSUME core' = core PROVE CoreOnly(op) /\ SameStarts
  BY <1>1, <1>4 DEF CoreOnly, SameStarts
<1>5. CASE ~core[op].listed
  <2> DEFINE m == [kind |-> "refused", to |-> p]
  <2>1. m \in Message /\ m.kind = "refused" /\ m.to = p BY DEF Message
  <2>2. inbox' = Append(box, m) /\ core' = core /\ proc' = ToOp(procs, p, "stop", op)
    BY <1>5 DEF CallStop, ToOp
  <2> HIDE DEF m
  <2>3. proc'[p].at = "stop" BY <1>3, <2>2
  <2>4. StopCalled(p, op, m) BY <2>1, <2>2, <2>3 DEF StopCalled
  <2> QED BY <1>3, <1>4, <2>1, <2>2, <2>4
<1>6. CASE core[op].listed /\ core[op].status = "stopped"
  <2> DEFINE m == Answer(p, "stopped", op, "stopped")
  <2>1. m \in Message /\ m.kind = "stopped" /\ m.to = p /\ m.op = op /\ m.status = "stopped"
    BY AnswersTyped DEF Status
  <2>2. inbox' = Append(box, m) /\ core' = core /\ proc' = ToOp(procs, p, "stop", op)
    BY <1>6 DEF CallStop, ToOp
  <2> HIDE DEF m
  <2>3. proc'[p].at = "stop" BY <1>3, <2>2
  <2>4. StopCalled(p, op, m) BY <1>6, <2>1, <2>2, <2>3 DEF StopCalled
  <2> QED BY <1>3, <1>4, <2>1, <2>2, <2>4
<1>7. CASE core[op].listed /\ core[op].status # "stopped"
  <2> DEFINE m == Event(op, "stopping")
             f == [core[op] EXCEPT !.status = "stopping"]
  <2>1. m \in Message /\ m.kind = "event" /\ m.op = op /\ m.status = "stopping"
    BY AnswersTyped DEF Status
  <2>2. /\ inbox' = Append(box, m) /\ core' = [core EXCEPT ![op] = f]
        /\ proc' = ToOp(procs, p, "emitted", op)
    BY <1>7 DEF CallStop, ToOp
  <2>3. /\ f \in Forward /\ f.start = core[op].start /\ f.listed = core[op].listed
        /\ f.status = "stopping"
    <3>1. core[op] \in Forward /\ "stopping" \in Status BY <1>1 DEF Status
    <3> QED BY <3>1 DEF Forward
  <2> HIDE DEF m, f
  <2>4. CoreOnly(op) /\ core'[op] = f BY <2>2, <2>3, Forwarding
  <2>5. SameStarts BY <2>3, <2>4 DEF CoreOnly, SameStarts
  <2>6. proc'[p].at = "emitted" BY <1>3, <2>2
  <2>7. StopCalled(p, op, m) BY <1>7, <2>1, <2>3, <2>4, <2>6 DEF StopCalled, f
  <2> QED BY <1>3, <2>1, <2>2, <2>4, <2>5, <2>7
<1> QED BY <1>5, <1>6, <1>7

LEMMA StopCalledPlaced ==
  ASSUME Base, NEW p \in Process, NEW op \in Op, NEW m, StopCalled(p, op, m), SameStarts,
         proc'[p].op = op, p \in Starters => proc'[p].rules # <<>>
  PROVE  /\ Placed(p, proc'[p], core', rows') /\ proc'[p].at # "invoke"
         /\ Expected(m, proc', core') /\ (m.kind = "event" \/ m.to = p)
<1>1. core[op].listed => core'[op].start \notin {"none", "connect"}
  BY DEF Base, Typed, SameStarts
<1>2. proc'[p].at = "stop" \/ (proc'[p].at = "emitted" /\ core[op].listed) BY DEF StopCalled
<1>3. Placed(p, proc'[p], core', rows') BY <1>1, <1>2 DEF Placed, InStopOne
<1>4. Expected(m, proc', core') BY <1>1 DEF StopCalled, Expected
<1>5. m.kind = "event" \/ m.to = p BY DEF StopCalled
<1> QED BY <1>2, <1>3, <1>4, <1>5

(* The rows after a message about op.                                      *)
LEMMA Merging ==
  ASSUME Base, NEW op \in Op, NEW s \in Status, rows' = Merge(op, s)
  PROVE  /\ rows' \in [Op -> Row] /\ rows'[op].status = s /\ rows'[op].owners = rows[op].owners
         /\ \A x \in Op : x # op => rows'[x] = rows[x]
BY DEF Base, Typed, Merge, Row

(* The head of the box is taken.                                           *)
LEMMA Taking ==
  ASSUME Base, NEW kind, Take(kind, 1), kind # "event"
  PROVE  /\ inbox # <<>> /\ Head(inbox).kind = kind /\ Head(inbox) \in Message
         /\ Head(inbox).to \in Process /\ Expected(Head(inbox), proc, core)
         /\ Head(inbox) \in Messages(inbox)
<1>1. inbox \in Seq(Message) BY DEF Base, Typed
<1>2. 1 \in DOMAIN inbox /\ inbox[1].kind = kind BY DEF Take
<1>3. inbox # <<>> BY <1>1, <1>2
<1>4. Head(inbox) = inbox[1] /\ inbox[1] \in Messages(inbox) BY <1>1, <1>3, TailWithout
<1>5. Expected(inbox[1], proc, core) /\ inbox[1] \in Message
  BY <1>1, <1>4, InTheBox DEF Base
<1>6. inbox[1].to \in Process BY <1>2, <1>5 DEF Expected
<1> QED BY <1>2, <1>3, <1>4, <1>5, <1>6

LEMMA BaseOnEvent ==
  ASSUME Base, OnEvent
  PROVE  Base'
<1>1. PICK i \in DOMAIN inbox : /\ Take("event", i) /\ rows' = Merge(inbox[i].op, inbox[i].status)
                                /\ inbox' = RemoveAt(inbox, i) /\ UNCHANGED <<of, proc, core>>
  BY DEF OnEvent
<1>2. inbox[i].kind = "event" /\ inbox[i] \in Messages(inbox) BY <1>1 DEF Take, Messages
<1>3. inbox[i].op \in Op /\ inbox[i].status \in Status /\ core[inbox[i].op].start # "none"
  <2>1. inbox[i] \in Message /\ Expected(inbox[i], proc, core)
    BY <1>2, InTheBox DEF Base, Typed
  <2> QED BY <1>2, <2>1, MessageTypes DEF Expected
<1>4. rows' \in [Op -> Row] /\ \A x \in Op : x # inbox[i].op => rows'[x] = rows[x]
  BY <1>1, <1>3, Merging
<1>5. Button \in Process /\ proc'[Button] = proc[Button] BY <1>1, Callers
<1>6. BoxKept(Button) BY <1>1, <1>2, <1>5, BoxEvent
<1>7. RowsStay(Button) BY <1>3, <1>4 DEF RowsStay
<1>8. /\ of' \in Of /\ core' \in [Op -> Forward] /\ SameStarts /\ Moved(proc, proc', Button)
  BY <1>1 DEF Base, Typed, SameStarts, Moved
<1> QED BY <1>4, <1>5, <1>6, <1>7, <1>8, BaseQuiet

LEMMA Owning ==
  ASSUME NEW rs \in [Op -> Row], NEW p \in Starters, NEW op \in Op
  PROVE  /\ Own(rs, p, op) \in [Op -> Row]
         /\ \A x \in Op : Own(rs, p, op)[x].status = rs[x].status
<1>1. CASE p[2] = User BY <1>1 DEF Own
<1>2. CASE p[2] # User
  <2>1. p[2] \in Owner BY <1>2, Callers
  <2> DEFINE r == [rs[op] EXCEPT !.owners = @ \cup {p[2]}]
  <2>2. r \in Row /\ r.status = rs[op].status BY <2>1 DEF Row
  <2>3. Own(rs, p, op) = [rs EXCEPT ![op] = r] BY <1>2 DEF Own
  <2> HIDE DEF r
  <2> QED BY <2>2, <2>3
<1> QED BY <1>1, <1>2

(* The answer h is taken by p, who goes on.                                *)
LEMMA BaseAnswered ==
  ASSUME Base, NEW h, NEW p \in Process, inbox # <<>>, h = Head(inbox), h.to = p, h.kind # "event",
         of' \in Of, rows' \in [Op -> Row], core' \in [Op -> Forward],
         Moved(proc, proc', p), proc'[p].at # proc[p].at, SameStarts, RowsStay(p),
         Placed(p, proc'[p], core', rows'), proc'[p].at # "invoke",
         proc[p].at = "invoke" => ~Working(core[proc[p].op]),
         \/ inbox' = Tail(inbox)
         \/ \E m \in Message : /\ inbox' = Append(Tail(inbox), m)
                               /\ m.kind = "event" \/ m.to = p
                               /\ Expected(m, proc', core')
  PROVE  Base'
<1>1. proc'[p] # proc[p] OBVIOUS
<1>2. BoxKept(p) BY <1>1, BoxTake
<1> QED BY <1>2, BaseQuiet

LEMMA OnStartedDoes ==
  ASSUME Base, OnStarted, NEW m, m = Head(inbox), NEW p, p = m.to, NEW op, op = m.op
  PROVE  /\ Take("started", 1) /\ m.kind = "started" /\ m \in Message /\ inbox # <<>>
         /\ p \in Starters /\ p \in Process /\ op \in Op /\ m.status \in Status
         /\ proc[p].at = "invoke" /\ proc[p].op = op /\ core[op].start = "over"
         /\ of' = of /\ rows' = Merge(op, m.status)
         /\ Moved(proc, proc', p) /\ SameStarts /\ CoreOnly(op)
         /\ Placed(p, proc'[p], core', rows') /\ proc'[p].at # "invoke"
         /\ \/ core' = core /\ inbox' = Tail(inbox) /\ proc'[p].at \in {"find", "done"}
            \/ \E a \in Message : /\ inbox' = Append(Tail(inbox), a) /\ StopCalled(p, op, a)
                                  /\ (a.kind = "event" \/ a.to = p) /\ Expected(a, proc', core')
                                  /\ proc'[p].op = op
<1>1. /\ Take("started", 1) /\ of' = of /\ rows' = Merge(op, m.status)
      /\ \/ CallStop(proc, p, op, Tail(inbox))
         \/ proc' = Return(p) /\ inbox' = Tail(inbox) /\ UNCHANGED core
  BY DEF OnStarted
<1>2. m.kind = "started" /\ m \in Message /\ inbox # <<>> /\ p \in Process /\ Expected(m, proc, core)
  BY <1>1, Taking
<1>3. /\ p \in Starters /\ op \in Op /\ m.status \in Status
      /\ proc[p].at = "invoke" /\ proc[p].op = op /\ core[op].start = "over"
  BY <1>2, MessageTypes DEF Expected
<1>4. proc \in [Process -> Call] /\ proc[p].rules # <<>> /\ core \in [Op -> Forward]
  BY <1>2, <1>3 DEF Base, Typed, Placed
<1>5. CASE proc' = Return(p) /\ inbox' = Tail(inbox) /\ UNCHANGED core
  <2>1. /\ Moved(proc, proc', p) /\ proc'[p].at \in {"find", "done"}
        /\ proc'[p].at = "find" => proc'[p].rules # <<>>
    BY <1>3, <1>4, <1>5, Returning
  <2>2. Placed(p, proc'[p], core', rows') BY <1>3, <2>1, PlacedIdle DEF Idle
  <2>3. SameStarts /\ CoreOnly(op) BY <1>4, <1>5 DEF SameStarts, CoreOnly
  <2> QED BY <1>1, <1>2, <1>3, <1>5, <2>1, <2>2, <2>3
<1>6. CASE CallStop(proc, p, op, Tail(inbox))
  <2>1. Moved(proc, proc, p) BY <1>4 DEF Moved
  <2>2. /\ Moved(proc, proc', p) /\ proc'[p].op = op /\ proc'[p].rules = proc[p].rules
        /\ CoreOnly(op) /\ SameStarts
        /\ \E a \in Message : inbox' = Append(Tail(inbox), a) /\ StopCalled(p, op, a)
    <3> DEFINE t == Tail(inbox)
    <3>1. p \in Process /\ op \in Op /\ CallStop(proc, p, op, t) BY <1>2, <1>3, <1>6
    <3> HIDE DEF t
    <3>2. /\ Moved(proc, proc', p) /\ proc'[p].op = op /\ proc'[p].rules = proc[p].rules
          /\ CoreOnly(op) /\ SameStarts
          /\ \E a \in Message : inbox' = Append(t, a) /\ StopCalled(p, op, a)
      BY <2>1, <3>1, CallingStop
    <3> QED BY <3>2 DEF t
  <2>3. PICK a \in Message : inbox' = Append(Tail(inbox), a) /\ StopCalled(p, op, a) BY <2>2
  <2>4. /\ Placed(p, proc'[p], core', rows') /\ proc'[p].at # "invoke"
        /\ Expected(a, proc', core') /\ (a.kind = "event" \/ a.to = p)
    BY <1>2, <1>3, <1>4, <2>2, <2>3, StopCalledPlaced
  <2> QED BY <1>1, <1>2, <1>3, <2>2, <2>3, <2>4
<1> QED BY <1>1, <1>5, <1>6

LEMMA BaseOnStarted ==
  ASSUME Base, OnStarted
  PROVE  Base'
<1> DEFINE m == Head(inbox)
           p == m.to
           op == m.op
<1>1. /\ m.kind = "started" /\ inbox # <<>>
      /\ p \in Process /\ op \in Op /\ m.status \in Status
      /\ proc[p].at = "invoke" /\ proc[p].op = op /\ core[op].start = "over"
      /\ of' = of /\ rows' = Merge(op, m.status)
      /\ Moved(proc, proc', p) /\ SameStarts /\ CoreOnly(op)
      /\ Placed(p, proc'[p], core', rows') /\ proc'[p].at # "invoke"
      /\ \/ inbox' = Tail(inbox)
         \/ \E a \in Message : /\ inbox' = Append(Tail(inbox), a)
                               /\ (a.kind = "event" \/ a.to = p) /\ Expected(a, proc', core')
  BY OnStartedDoes
<1> HIDE DEF m
<1>2. rows' \in [Op -> Row] /\ \A x \in Op : x # op => rows'[x] = rows[x] BY <1>1, Merging
<1>3. RowsStay(p) BY <1>1, <1>2 DEF RowsStay
<1>4. of' \in Of /\ core' \in [Op -> Forward] BY <1>1 DEF CoreOnly, Base, Typed
<1>5. proc[p].at = "invoke" => ~Working(core[proc[p].op]) BY <1>1 DEF Working
<1>6. m = Head(inbox) BY DEF m
<1> QED BY <1>1, <1>2, <1>3, <1>4, <1>5, <1>6, BaseAnswered

LEMMA OnFailedDoes ==
  ASSUME Base, OnFailed, NEW m, m = Head(inbox), NEW p, p = m.to, NEW op, op = m.op
  PROVE  /\ Take("failed", 1) /\ m.kind = "failed" /\ m \in Message /\ inbox # <<>>
         /\ p \in Starters /\ p \in Process /\ op \in Op
         /\ proc[p].at = "invoke" /\ proc[p].op = op /\ core[op].start = "over"
         /\ UNCHANGED <<of, core>> /\ rows' = Merge(op, "failed") /\ inbox' = Tail(inbox)
         /\ Moved(proc, proc', p) /\ SameStarts
         /\ Placed(p, proc'[p], core', rows') /\ proc'[p].at \in {"find", "done"}
<1>1. /\ Take("failed", 1) /\ UNCHANGED <<of, core>> /\ rows' = Merge(op, "failed")
      /\ proc' = Return(p) /\ inbox' = Tail(inbox)
  BY DEF OnFailed
<1>2. m.kind = "failed" /\ m \in Message /\ inbox # <<>> /\ p \in Process /\ Expected(m, proc, core)
  BY <1>1, Taking
<1>3. /\ p \in Starters /\ op \in Op
      /\ proc[p].at = "invoke" /\ proc[p].op = op /\ core[op].start = "over"
  BY <1>2, MessageTypes DEF Expected
<1>4. proc \in [Process -> Call] /\ proc[p].rules # <<>> BY <1>2, <1>3 DEF Base, Typed, Placed
<1>5. /\ Moved(proc, proc', p) /\ proc'[p].at \in {"find", "done"}
      /\ proc'[p].at = "find" => proc'[p].rules # <<>>
  BY <1>1, <1>3, <1>4, Returning
<1>6. Placed(p, proc'[p], core', rows') BY <1>3, <1>5, PlacedIdle DEF Idle
<1>7. SameStarts BY <1>1 DEF SameStarts
<1> QED BY <1>1, <1>2, <1>3, <1>5, <1>6, <1>7

LEMMA BaseOnFailed ==
  ASSUME Base, OnFailed
  PROVE  Base'
<1> DEFINE m == Head(inbox)
           p == m.to
           op == m.op
<1>1. /\ m.kind = "failed" /\ inbox # <<>>
      /\ p \in Process /\ op \in Op
      /\ proc[p].at = "invoke" /\ proc[p].op = op /\ core[op].start = "over"
      /\ UNCHANGED <<of, core>> /\ rows' = Merge(op, "failed") /\ inbox' = Tail(inbox)
      /\ Moved(proc, proc', p) /\ SameStarts
      /\ Placed(p, proc'[p], core', rows') /\ proc'[p].at \in {"find", "done"}
  BY OnFailedDoes
<1> HIDE DEF m
<1>2. rows' \in [Op -> Row] /\ \A x \in Op : x # op => rows'[x] = rows[x]
  <2>1. "failed" \in Status BY DEF Status
  <2> QED BY <1>1, <2>1, Merging
<1>3. RowsStay(p) BY <1>1, <1>2 DEF RowsStay
<1>4. of' \in Of /\ core' \in [Op -> Forward] BY <1>1 DEF Base, Typed
<1>5. proc[p].at = "invoke" => ~Working(core[proc[p].op]) BY <1>1 DEF Working
<1>6. m = Head(inbox) BY DEF m
<1> QED BY <1>1, <1>2, <1>3, <1>4, <1>5, <1>6, BaseAnswered

LEMMA OnActiveDoes ==
  ASSUME Base, OnActive, NEW m, m = Head(inbox), NEW p, p = m.to, NEW op, op = proc[p].op
  PROVE  /\ Take("active", 1) /\ m.kind = "active" /\ m \in Message /\ inbox # <<>>
         /\ p \in Starters /\ p \in Process /\ op \in Op
         /\ proc[p].at = "invoke" /\ core[op].start = "none" /\ core' = core
         /\ rows' = Removed(op) /\ of' = [of EXCEPT ![op] = Unused]
         /\ Moved(proc, proc', p) /\ proc'[p].at = "hydrate"
         /\ Placed(p, proc'[p], core', rows')
         /\ \E a \in Message : /\ inbox' = Append(Tail(inbox), a) /\ a.kind = "list" /\ a.to = p
                               /\ \A x \in Op : a.list[x] = IF core[x].listed THEN core[x].status
                                                            ELSE "none"
<1> DEFINE list == [x \in Op |-> IF core[x].listed THEN core[x].status ELSE "none"]
           a == [kind |-> "list", to |-> p, list |-> list]
<1>1. /\ Take("active", 1) /\ core' = core
      /\ rows' = Removed(op) /\ of' = [of EXCEPT ![op] = Unused]
      /\ proc' = [At(p, "hydrate") EXCEPT ![p].op = 0]
      /\ inbox' = Append(Tail(inbox), a)
  BY DEF OnActive
<1>2. m.kind = "active" /\ m \in Message /\ inbox # <<>> /\ p \in Process /\ Expected(m, proc, core)
  BY <1>1, Taking
<1>3. p \in Starters /\ proc[p].at = "invoke" /\ core[op].start = "none" BY <1>2 DEF Expected
<1>4. /\ proc \in [Process -> Call] /\ proc[p].rules # <<>> /\ op \in Op
      /\ core \in [Op -> Forward]
  BY <1>2, <1>3 DEF Base, Typed, Placed
<1>5. "hydrate" \in Places /\ 0 \in Op \cup {0} /\ "none" \in Status BY DEF Places, Status
<1>6. proc' = ToOp(proc, p, "hydrate", 0) BY <1>1 DEF At, ToOp
<1>7. Moved(proc, proc', p) /\ proc'[p].at = "hydrate" /\ proc'[p].rules = proc[p].rules
  BY <1>2, <1>4, <1>5, <1>6, MovingOp
<1>8. Placed(p, proc'[p], core', rows') BY <1>3, <1>4, <1>7, PlacedIdle DEF Idle
<1>9. a \in Message /\ a.kind = "list" /\ a.to = p
      /\ \A x \in Op : a.list[x] = IF core[x].listed THEN core[x].status ELSE "none"
  <2>1. list \in [Op -> Status]
    <3>1. \A x \in Op : core[x].status \in Status BY <1>4 DEF Forward
    <3> QED BY <1>5, <3>1
  <2> HIDE DEF list
  <2>2. a \in Message /\ a.kind = "list" /\ a.to = p /\ a.list = list BY <1>2, <2>1 DEF Message
  <2> QED BY <2>2 DEF list
<1> HIDE DEF a
<1> QED BY <1>1, <1>2, <1>3, <1>4, <1>7, <1>8, <1>9

LEMMA BaseOnActive ==
  ASSUME Base, OnActive
  PROVE  Base'
<1> DEFINE m == Head(inbox)
           p == m.to
           op == proc[p].op
<1>1. /\ m.kind = "active" /\ inbox # <<>> /\ p \in Starters /\ p \in Process /\ op \in Op
      /\ proc[p].at = "invoke" /\ core[op].start = "none" /\ core' = core
      /\ rows' = Removed(op) /\ of' = [of EXCEPT ![op] = Unused]
      /\ Moved(proc, proc', p) /\ proc'[p].at = "hydrate"
      /\ Placed(p, proc'[p], core', rows')
  BY OnActiveDoes
<1>2. PICK a \in Message : /\ inbox' = Append(Tail(inbox), a) /\ a.kind = "list" /\ a.to = p
                           /\ \A x \in Op : a.list[x] = IF core[x].listed THEN core[x].status
                                                        ELSE "none"
  BY OnActiveDoes
<1> HIDE DEF m
<1>3. rows' \in [Op -> Row] /\ \A x \in Op : x # op => rows'[x] = rows[x]
  <2>1. NoRow \in Row BY DEF NoRow, Row, Status
  <2> QED BY <1>1, <2>1 DEF Removed, Base, Typed
<1>4. of' \in Of
  <2>1. Unused \in [rule : Rule \cup {""}, mode : {"", "auto", "manual"}] BY DEF Unused
  <2> QED BY <1>1, <2>1 DEF Base, Typed, Of
<1>5. core' \in [Op -> Forward] /\ SameStarts BY <1>1 DEF Base, Typed, SameStarts
<1>6. RowsStay(p) BY <1>1, <1>3 DEF RowsStay
<1>7. Expected(a, proc', core')
  <2>1. \A x \in Op : a.list[x] # "none" => core'[x].start # "none"
    BY <1>1, <1>2 DEF Base, Typed
  <2> QED BY <1>1, <1>2, <2>1 DEF Expected
<1>8. proc[p].at = "invoke" => ~Working(core[proc[p].op]) BY <1>1 DEF Working
<1>9. m = Head(inbox) BY DEF m
<1> QED BY <1>1, <1>2, <1>3, <1>4, <1>5, <1>6, <1>7, <1>8, <1>9, BaseAnswered

(* The rows, when a list has come.                                         *)
LEMMA OnListDoes ==
  ASSUME Base, OnList, NEW m, m = Head(inbox), NEW p, p = m.to
  PROVE  /\ Take("list", 1) /\ m.kind = "list" /\ m \in Message /\ inbox # <<>>
         /\ p \in Starters /\ p \in Process /\ proc[p].at = "hydrate"
         /\ m.list \in [Op -> Status] /\ \A x \in Op : m.list[x] # "none" => core[x].start # "none"
         /\ UNCHANGED <<of, core>> /\ inbox' = Tail(inbox)
         /\ rows' \in [Op -> Row]
         /\ \A x \in Op : rows'[x].status = IF m.list[x] = "none" THEN rows[x].status
                                            ELSE m.list[x]
         /\ Moved(proc, proc', p) /\ proc'[p].at \in {"find", "done"}
         /\ Placed(p, proc'[p], core', rows')
<1> DEFINE merged == [op \in Op |-> IF m.list[op] = "none" THEN rows[op]
                                    ELSE [rows[op] EXCEPT !.status = m.list[op]]]
<1>1. /\ Take("list", 1) /\ UNCHANGED <<of, core>> /\ inbox' = Tail(inbox)
      /\ rows' = merged \/ \E op \in Op : rows' = Own(merged, p, op)
      /\ proc' = Return(p) \/ proc' = At(p, "find")
  BY DEF OnList
<1>2. m.kind = "list" /\ m \in Message /\ inbox # <<>> /\ p \in Process /\ Expected(m, proc, core)
  BY <1>1, Taking
<1>3. p \in Starters /\ proc[p].at = "hydrate"
      /\ \A x \in Op : m.list[x] # "none" => core[x].start # "none"
  BY <1>2 DEF Expected
<1>4. /\ proc \in [Process -> Call] /\ proc[p].rules # <<>> /\ rows \in [Op -> Row]
      /\ m.list \in [Op -> Status]
  BY <1>2, <1>3, MessageTypes DEF Base, Typed, Placed
<1>5. merged \in [Op -> Row]
      /\ \A x \in Op : merged[x].status = IF m.list[x] = "none" THEN rows[x].status
                                          ELSE m.list[x]
  <2>1. ASSUME NEW x \in Op
        PROVE  /\ [rows[x] EXCEPT !.status = m.list[x]] \in Row
               /\ [rows[x] EXCEPT !.status = m.list[x]].status = m.list[x]
    <3>1. rows[x] \in Row /\ m.list[x] \in Status BY <1>4
    <3> QED BY <3>1 DEF Row
  <2> QED BY <1>4, <2>1
<1> HIDE DEF merged
<1>6. rows' \in [Op -> Row] /\ \A x \in Op : rows'[x].status = merged[x].status
  BY <1>1, <1>3, <1>5, Owning
<1>7. /\ Moved(proc, proc', p) /\ proc'[p].at \in {"find", "done"}
      /\ proc'[p].at = "find" => proc'[p].rules # <<>>
  <2>1. CASE proc' = Return(p) BY <1>3, <1>4, <2>1, Returning
  <2>2. CASE proc' = At(p, "find")
    <3>1. proc' = To(proc, p, "find") /\ "find" \in Places BY <2>2 DEF To, At, Places
    <3> QED BY <1>2, <1>4, <3>1, MovingTo
  <2> QED BY <1>1, <2>1, <2>2
<1>8. Placed(p, proc'[p], core', rows') BY <1>3, <1>7, PlacedIdle DEF Idle
<1> QED BY <1>1, <1>2, <1>3, <1>4, <1>5, <1>6, <1>7, <1>8

LEMMA BaseOnList ==
  ASSUME Base, OnList
  PROVE  Base'
<1> DEFINE m == Head(inbox)
           p == m.to
<1>1. /\ m.kind = "list" /\ inbox # <<>> /\ p \in Process /\ proc[p].at = "hydrate"
      /\ \A x \in Op : m.list[x] # "none" => core[x].start # "none"
      /\ UNCHANGED <<of, core>> /\ inbox' = Tail(inbox)
      /\ rows' \in [Op -> Row]
      /\ \A x \in Op : rows'[x].status = IF m.list[x] = "none" THEN rows[x].status ELSE m.list[x]
      /\ Moved(proc, proc', p) /\ proc'[p].at \in {"find", "done"}
      /\ Placed(p, proc'[p], core', rows')
  BY OnListDoes
<1>2. m = Head(inbox) OBVIOUS
<1> HIDE DEF m
<1>3. RowsStay(p) BY <1>1 DEF RowsStay
<1>4. of' \in Of /\ core' \in [Op -> Forward] /\ SameStarts
  BY <1>1 DEF Base, Typed, SameStarts
<1> QED BY <1>1, <1>2, <1>3, <1>4, BaseAnswered

LEMMA OnStoppedDoes ==
  ASSUME Base, OnStopped \/ OnRefused, NEW m, m = Head(inbox), NEW p, p = m.to
  PROVE  /\ m.kind \in {"stopped", "refused"} /\ m \in Message /\ inbox # <<>>
         /\ Take(m.kind, 1)
         /\ p \in Process /\ proc[p].at = "stop" /\ UNCHANGED <<of, core>> /\ inbox' = Tail(inbox)
         /\ \/ OnStopped /\ m.kind = "stopped" /\ m.op \in Op /\ m.status \in Status
               /\ rows' = Merge(m.op, m.status) /\ core[m.op].start # "none"
            \/ m.kind = "refused" /\ rows' = rows
         /\ Moved(proc, proc', p) /\ proc'[p].at \in {"find", "done", "leaving"}
         /\ Placed(p, proc'[p], core', rows')
<1>1. /\ UNCHANGED <<of, core>> /\ proc' = Continue(p) /\ inbox' = Tail(inbox)
      /\ \/ OnStopped /\ Take("stopped", 1) /\ rows' = Merge(m.op, m.status)
         \/ Take("refused", 1) /\ rows' = rows
  BY DEF OnStopped, OnRefused
<1>2. /\ m.kind \in {"stopped", "refused"} /\ m \in Message /\ inbox # <<>> /\ p \in Process
      /\ Expected(m, proc, core) /\ Take(m.kind, 1)
      /\ \/ OnStopped /\ m.kind = "stopped" /\ rows' = Merge(m.op, m.status)
         \/ m.kind = "refused" /\ rows' = rows
  <2>1. CASE Take("stopped", 1) /\ OnStopped /\ rows' = Merge(m.op, m.status) BY <2>1, Taking
  <2>2. CASE Take("refused", 1) /\ rows' = rows BY <2>2, Taking
  <2> QED BY <1>1, <2>1, <2>2
<1>3. proc[p].at = "stop" BY <1>2 DEF Expected
<1>4. m.kind = "stopped" => m.op \in Op /\ m.status \in Status /\ core[m.op].start # "none"
  BY <1>2, MessageTypes DEF Expected
<1>5. /\ Moved(proc, proc', p) /\ proc'[p].at \in {"find", "done", "leaving"}
      /\ Placed(p, proc'[p], core', rows')
  BY <1>1, <1>2, <1>3, Continuing
<1> QED BY <1>1, <1>2, <1>3, <1>4, <1>5

LEMMA BaseOnStopped ==
  ASSUME Base, OnStopped \/ OnRefused
  PROVE  Base'
<1> DEFINE m == Head(inbox)
           p == m.to
<1>1. /\ m.kind \in {"stopped", "refused"} /\ inbox # <<>>
      /\ p \in Process /\ proc[p].at = "stop" /\ UNCHANGED <<of, core>> /\ inbox' = Tail(inbox)
      /\ \/ m.kind = "stopped" /\ m.op \in Op /\ m.status \in Status
            /\ rows' = Merge(m.op, m.status) /\ core[m.op].start # "none"
         \/ m.kind = "refused" /\ rows' = rows
      /\ Moved(proc, proc', p) /\ proc'[p].at \in {"find", "done", "leaving"}
      /\ Placed(p, proc'[p], core', rows')
  BY OnStoppedDoes
<1>2. m = Head(inbox) OBVIOUS
<1> HIDE DEF m
<1>3. rows' \in [Op -> Row] /\ RowsStay(p)
  <2>1. CASE rows' = rows BY <2>1 DEF Base, Typed, RowsStay
  <2>2. CASE m.op \in Op /\ m.status \in Status /\ rows' = Merge(m.op, m.status)
             /\ core[m.op].start # "none"
    <3>1. rows' \in [Op -> Row] /\ \A x \in Op : x # m.op => rows'[x] = rows[x]
      BY <2>2, Merging
    <3> QED BY <2>2, <3>1 DEF RowsStay
  <2> QED BY <1>1, <2>1, <2>2
<1>4. of' \in Of /\ core' \in [Op -> Forward] /\ SameStarts
  BY <1>1 DEF Base, Typed, SameStarts
<1> QED BY <1>1, <1>2, <1>3, <1>4, BaseAnswered

(* A start is begun: op is new, and the core takes it on or refuses it.    *)
LEMMA BeginDoes ==
  ASSUME Base, NEW p \in Starters, Begin(p), proc[p].at \in {"find", "prepare"}
  PROVE  \E op \in Op :
           /\ rows[op].status = "none" /\ core[op].start = "none" /\ ~core[op].listed
           /\ of' \in Of /\ rows' \in [Op -> Row] /\ CoreOnly(op)
           /\ rows'[op].status = "starting" /\ \A x \in Op : x # op => rows'[x] = rows[x]
           /\ Moved(proc, proc', p) /\ proc'[p].at = "invoke" /\ proc'[p].op = op
           /\ proc'[p].rules # <<>>
           /\ \/ /\ core' = core
                 /\ \E m \in Message : /\ inbox' = Append(inbox, m)
                                       /\ m.kind = "active" /\ m.to = p
              \/ /\ inbox' = inbox
                 /\ core'[op] = [core[op] EXCEPT !.start = "connect", !.status = "starting"]
                 /\ core'[op].start = "connect"
<1> DEFINE r == Current(p)
           mode == IF p[2] = User THEN "manual" ELSE "auto"
<1>1. PICK op \in Op :
        /\ rows[op].status = "none" /\ core[op].start = "none"
        /\ of' = [of EXCEPT ![op] = [rule |-> r, mode |-> mode]]
        /\ rows' = [rows EXCEPT ![op] = [status |-> "starting", owners |-> {p[2]} \cap Owner]]
        /\ proc' = [At(p, "invoke") EXCEPT ![p].op = op]
        /\ CallStart(p, op, r)
  BY DEF Begin
<1>2. /\ p \in Process /\ proc \in [Process -> Call] /\ core \in [Op -> Forward]
      /\ rows \in [Op -> Row] /\ of \in Of /\ proc[p].rules # <<>> /\ proc[p].rules \in Seq(Rule)
      /\ ~core[op].listed
  <2>1. Placed(p, proc[p], core, rows) /\ p \in Process BY Callers DEF Base
  <2> QED BY <1>1, <2>1 DEF Base, Typed, Placed, Call
<1>3. r \in Rule
  <2> HIDE DEF Rule
  <2>1. Head(proc[p].rules) \in Rule BY <1>2
  <2> QED BY <2>1 DEF Current
<1>4. of' \in Of
  <2> HIDE DEF r
  <2>1. [rule |-> r, mode |-> mode] \in [rule : Rule \cup {""}, mode : {"", "auto", "manual"}]
    BY <1>3
  <2> HIDE DEF mode
  <2> QED BY <1>1, <1>2, <2>1 DEF Of
<1>5. /\ rows' \in [Op -> Row] /\ rows'[op].status = "starting"
      /\ \A x \in Op : x # op => rows'[x] = rows[x]
  <2> DEFINE row == [status |-> "starting", owners |-> {p[2]} \cap Owner]
  <2>1. row \in Row /\ row.status = "starting" BY DEF Row, Status
  <2>2. rows' = [rows EXCEPT ![op] = row] BY <1>1
  <2> HIDE DEF row
  <2> QED BY <1>2, <2>1, <2>2
<1>6. /\ Moved(proc, proc', p) /\ proc'[p].at = "invoke" /\ proc'[p].op = op
      /\ proc'[p].rules = proc[p].rules
  <2>1. proc' = ToOp(proc, p, "invoke", op) BY <1>1 DEF At, ToOp
  <2>2. "invoke" \in Places /\ op \in Op \cup {0} BY DEF Places
  <2> QED BY <1>2, <2>1, <2>2, MovingOp
<1>7. CASE inbox' = Append(inbox, [kind |-> "active", to |-> p]) /\ core' = core
  <2> DEFINE m == [kind |-> "active", to |-> p]
  <2>1. m \in Message /\ m.kind = "active" /\ m.to = p BY <1>2 DEF Message
  <2>2. CoreOnly(op) BY <1>2, <1>7 DEF CoreOnly
  <2>3. inbox' = Append(inbox, m) BY <1>7
  <2> HIDE DEF m
  <2>4. \E x \in Message : inbox' = Append(inbox, x) /\ x.kind = "active" /\ x.to = p
    BY <2>1, <2>3
  <2> QED BY <1>1, <1>2, <1>4, <1>5, <1>6, <1>7, <2>2, <2>4
<1>8. CASE core' = [core EXCEPT ![op].start = "connect", ![op].status = "starting"] /\ inbox' = inbox
  <2> DEFINE f == [core[op] EXCEPT !.start = "connect", !.status = "starting"]
  <2>1. f \in Forward /\ f.start = "connect"
    <3>1. core[op] \in Forward /\ "starting" \in Status BY <1>2 DEF Status
    <3> QED BY <3>1 DEF Forward
  <2>2. core' = [core EXCEPT ![op] = f] BY <1>2, <1>8 DEF Forward
  <2> HIDE DEF f
  <2>3. CoreOnly(op) /\ core'[op] = f BY <2>1, <2>2, Forwarding
  <2> QED BY <1>1, <1>2, <1>4, <1>5, <1>6, <1>8, <2>1, <2>3 DEF f
<1> QED BY <1>1, <1>7, <1>8 DEF CallStart

LEMMA BaseBegin ==
  ASSUME Base, NEW p \in Starters, Begin(p), proc[p].at \in {"find", "prepare"}
  PROVE  Base'
<1>1. PICK op \in Op :
        /\ rows[op].status = "none" /\ core[op].start = "none" /\ ~core[op].listed
        /\ of' \in Of /\ rows' \in [Op -> Row] /\ CoreOnly(op)
        /\ rows'[op].status = "starting" /\ \A x \in Op : x # op => rows'[x] = rows[x]
        /\ Moved(proc, proc', p) /\ proc'[p].at = "invoke" /\ proc'[p].op = op
        /\ proc'[p].rules # <<>>
        /\ \/ /\ core' = core
              /\ \E m \in Message : /\ inbox' = Append(inbox, m)
                                    /\ m.kind = "active" /\ m.to = p
           \/ /\ inbox' = inbox
              /\ core'[op] = [core[op] EXCEPT !.start = "connect", !.status = "starting"]
              /\ core'[op].start = "connect"
  BY BeginDoes
<1>2. p \in Process /\ core \in [Op -> Forward] BY Callers DEF Base, Typed
<1>3. \A m \in Messages(inbox) : m.kind # "event" => m.to # p BY <1>2, NoAnswers
<1>4. core'[op].start \in {"none", "connect"} /\ ~core'[op].listed
  <2>1. CASE core' = core BY <1>1, <2>1
  <2>2. CASE core'[op] = [core[op] EXCEPT !.start = "connect", !.status = "starting"]
    BY <1>1, <1>2, <2>2 DEF Forward
  <2> QED BY <1>1, <2>1, <2>2
<1>5. Grows(core, core', rows) BY <1>1 DEF Grows, CoreOnly
<1>6. RowsStay(p) BY <1>1 DEF RowsStay
<1>7. Placed(p, proc'[p], core', rows') BY <1>1, <1>4 DEF Placed, InStopOne
<1>8. BoxKept(p) /\ (core'[op].start = "none" => \E m \in Messages(inbox') : m.kind = "active" /\ m.to = p)
      /\ Messages(inbox) \subseteq Messages(inbox')
  <2>1. CASE inbox' = inbox /\ core'[op].start = "connect"
    BY <1>2, <1>3, <2>1, BoxSame
  <2>2. ASSUME NEW m \in Message, core' = core, inbox' = Append(inbox, m), m.kind = "active", m.to = p
        PROVE  BoxKept(p) /\ m \in Messages(inbox') /\ Messages(inbox) \subseteq Messages(inbox')
    <3>1. Expected(m, proc', core') BY <1>1, <1>2, <2>2 DEF Expected
    <3>2. BoxKept(p) BY <1>2, <1>3, <2>2, <3>1, BoxPost
    <3>3. Messages(inbox') = Messages(inbox) \cup {m} BY <2>2, Appending DEF Base, Typed
    <3> QED BY <3>2, <3>3
  <2> QED BY <1>1, <2>1, <2>2
<1>9. Awaited'
  <2>1. ASSUME NEW x \in Starters, x # p PROVE proc'[x] = proc[x] /\ Placed(x, proc[x], core, rows)
    BY <1>1, <2>1, Callers DEF Moved, Base
  <2>2. ASSUME NEW x \in Starters, proc'[x].at = "invoke", x # p
        PROVE  proc[x].op # op /\ proc[x].op \in Op /\ core'[proc[x].op] = core[proc[x].op]
    <3>1. proc[x].at = "invoke" /\ Placed(x, proc[x], core, rows) BY <2>1, <2>2
    <3>2. proc[x].op # op BY <1>1, <3>1 DEF Placed
    <3> QED BY <1>1, <3>1, <3>2 DEF Placed, CoreOnly
  <2>3. ASSUME NEW x \in Starters, proc'[x].at = "invoke", core'[proc'[x].op].start = "none"
        PROVE  \E m \in Messages(inbox') : m.kind = "active" /\ m.to = x
    <3>1. CASE x = p BY <1>1, <1>8, <2>3, <3>1
    <3>2. CASE x # p
      <4>1. proc[x].at = "invoke" /\ core[proc[x].op].start = "none" BY <2>1, <2>2, <2>3, <3>2
      <4>2. PICK m \in Messages(inbox) : m.kind = "active" /\ m.to = x
        BY <4>1 DEF Base, Awaited
      <4> QED BY <1>8, <4>2
    <3> QED BY <3>1, <3>2
  <2>4. ASSUME NEW y \in Op, Working(core'[y])
        PROVE  \E x \in Starters : proc'[x].at = "invoke" /\ proc'[x].op = y
    <3>1. CASE y = op BY <1>1, <3>1
    <3>2. CASE y # op
      <4>1. Working(core[y]) BY <1>1, <2>4, <3>2 DEF CoreOnly
      <4>2. PICK x \in Starters : proc[x].at = "invoke" /\ proc[x].op = y
        BY <4>1 DEF Base, Awaited
      <4> QED BY <2>1, <4>2
    <3> QED BY <3>1, <3>2
  <2>5. ASSUME NEW x \in Starters, NEW y \in Starters, proc'[x].at = "invoke", proc'[y].at = "invoke",
               proc'[x].op = proc'[y].op
        PROVE  x = y
    <3>1. CASE x # p /\ y # p
      <4>1. proc'[x] = proc[x] /\ proc'[y] = proc[y] BY <2>1, <3>1
      <4> QED BY <2>5, <4>1 DEF Base, Awaited
    <3>2. CASE x = p /\ y # p BY <1>1, <2>1, <2>2, <2>5, <3>2
    <3>3. CASE x # p /\ y = p BY <1>1, <2>1, <2>2, <2>5, <3>3
    <3> QED BY <3>1, <3>2, <3>3
  <2> QED BY <2>3, <2>4, <2>5 DEF Awaited
<1>10. Typed'
  <2>1. \A x \in Op : core'[x].listed => core'[x].start \notin {"none", "connect"}
    BY <1>1, <1>4 DEF CoreOnly, Base, Typed
  <2> QED BY <1>1, <1>8, <2>1 DEF Typed, Moved, CoreOnly, BoxKept
<1>11. Moved(proc, proc', p) BY <1>1
<1> QED BY <1>2, <1>5, <1>6, <1>7, <1>8, <1>9, <1>10, <1>11, BaseStep DEF BoxKept

(* Whoever does not wait for an answer goes on, as far as the store.       *)
Free == {"new", "find", "prepare", "leaving"}

SameStatuses == rows' \in [Op -> Row] /\ \A x \in Op : rows'[x].status = rows[x].status

Walks(p) ==
  /\ UNCHANGED <<of, core, inbox>> /\ SameStatuses
  /\ Moved(proc, proc', p) /\ proc[p].at \in Free
  /\ proc'[p].at \in {"find", "prepare", "leaving", "done"} /\ Placed(p, proc'[p], core', rows')

(* Or calls stop in the core.                                              *)
Stops(p, op) ==
  /\ of' = of /\ SameStatuses /\ CoreOnly(op) /\ SameStarts
  /\ Moved(proc, proc', p) /\ proc[p].at \in Free /\ proc'[p].op = op
  /\ Placed(p, proc'[p], core', rows') /\ proc'[p].at # "invoke"
  /\ \E m \in Message : /\ inbox' = Append(inbox, m) /\ StopCalled(p, op, m)
                        /\ Expected(m, proc', core') /\ (m.kind = "event" \/ m.to = p)

LEMMA BaseWalks ==
  ASSUME Base, NEW p \in Process, Walks(p)
  PROVE  Base'
<1>1. \A m \in Messages(inbox) : m.kind # "event" => m.to # p BY NoAnswers DEF Walks, Free
<1>2. BoxKept(p) BY <1>1, BoxSame DEF Walks
<1>3. RowsStay(p) BY DEF Walks, SameStatuses, RowsStay
<1>4. of' \in Of /\ core' \in [Op -> Forward] /\ SameStarts
  BY DEF Walks, Base, Typed, SameStarts
<1>5. proc[p].at # "invoke" /\ proc'[p].at # "invoke" BY DEF Walks, Free
<1> QED BY <1>2, <1>3, <1>4, <1>5, BaseQuiet DEF Walks, SameStatuses

LEMMA BaseStops ==
  ASSUME Base, NEW p \in Process, NEW op \in Op, Stops(p, op)
  PROVE  Base'
<1>1. \A m \in Messages(inbox) : m.kind # "event" => m.to # p BY NoAnswers DEF Stops, Free
<1>2. BoxKept(p) BY <1>1, BoxPost DEF Stops
<1>3. RowsStay(p) BY DEF Stops, SameStatuses, RowsStay
<1>4. of' \in Of /\ core' \in [Op -> Forward] BY DEF Stops, Base, Typed, CoreOnly
<1>5. proc[p].at # "invoke" BY DEF Stops, Free
<1> QED BY <1>2, <1>3, <1>4, <1>5, BaseQuiet DEF Stops, SameStatuses

LEMMA SameRows ==
  ASSUME Base, rows' = rows
  PROVE  SameStatuses
BY DEF SameStatuses, Base, Typed

(* Begins is one of the ways in which a call goes on.                      *)
LEMMA ReturnWalks ==
  ASSUME Base, NEW p \in Starters, proc[p].at \in {"find", "prepare"}, proc' = Return(p),
         UNCHANGED <<of, core, inbox>>, SameStatuses
  PROVE  Walks(p)
<1>1. p \in Process /\ proc \in [Process -> Call] /\ Placed(p, proc[p], core, rows)
  BY Callers DEF Base, Typed
<1>2. proc[p].rules # <<>> BY <1>1 DEF Placed
<1>3. /\ Moved(proc, proc', p) /\ proc'[p].at \in {"find", "done"}
      /\ proc'[p].at = "find" => proc'[p].rules # <<>>
  BY <1>1, <1>2, Returning
<1>4. Placed(p, proc'[p], core', rows') BY <1>3, PlacedIdle DEF Idle
<1> QED BY <1>3, <1>4 DEF Walks, Free

LEMMA LookWalks ==
  ASSUME Base, NEW p \in Starters, proc[p].at = "find", proc[p].rules # <<>>,
         NEW at \in {"find", "prepare"}, NEW op \in Op \cup {0},
         proc' = [proc EXCEPT ![p].at = at, ![p].op = op],
         UNCHANGED <<of, rows, core, inbox>>
  PROVE  Walks(p)
<1> DEFINE c == [proc[p] EXCEPT !.at = at, !.op = op]
<1>1. p \in Process /\ proc \in [Process -> Call] BY Callers DEF Base, Typed
<1>2. c \in Call /\ c.at = at /\ c.rules # <<>>
  <2>1. proc[p] \in Call BY <1>1
  <2> QED BY <2>1 DEF Call, Places
<1>3. proc' = [proc EXCEPT ![p] = c] BY <1>1 DEF Call
<1> HIDE DEF c
<1>4. Moved(proc, proc', p) /\ proc'[p] = c BY <1>1, <1>2, <1>3, Moving
<1>5. Placed(p, proc'[p], core', rows') BY <1>2, <1>4, PlacedIdle DEF Idle
<1> QED BY <1>2, <1>4, <1>5, SameRows DEF Walks, Free

LEMMA FindDoes ==
  ASSUME Base, NEW p \in Starters, Find(p)
  PROVE  proc[p].at = "find" /\ (Begin(p) \/ Walks(p))
<1>1. /\ proc[p].at = "find" /\ p \in Process /\ proc \in [Process -> Call] /\ rows \in [Op -> Row]
      /\ proc[p].rules # <<>>
  <2>1. proc[p].at = "find" BY DEF Find, Looks
  <2>2. Placed(p, proc[p], core, rows) /\ p \in Process BY Callers DEF Base
  <2> QED BY <2>1, <2>2 DEF Base, Typed, Placed
<1>2. CASE \E op \in RowsOf(Current(p)) :
             /\ rows' = Own(rows, p, op) /\ proc' = Return(p) /\ UNCHANGED <<of, core, inbox>>
  <2>1. PICK op \in RowsOf(Current(p)) :
          /\ rows' = Own(rows, p, op) /\ proc' = Return(p) /\ UNCHANGED <<of, core, inbox>>
    BY <1>2
  <2>2. op \in Op BY <2>1 DEF RowsOf
  <2>3. SameStatuses BY <1>1, <2>1, <2>2, Owning DEF SameStatuses
  <2> QED BY <1>1, <2>1, <2>3, ReturnWalks
<1>3. CASE proc' = [At(p, "prepare") EXCEPT ![p].op = 0] /\ UNCHANGED <<of, rows, core, inbox>>
  <2>1. proc' = [proc EXCEPT ![p].at = "prepare", ![p].op = 0] BY <1>1, <1>3 DEF At, Call
  <2>2. "prepare" \in {"find", "prepare"} /\ 0 \in Op \cup {0} BY DEF Op
  <2>3. Walks(p) BY <1>1, <1>3, <2>1, <2>2, LookWalks
  <2> QED BY <1>1, <2>3
<1>4. ASSUME NEW op \in RowsOf(Current(p)), proc' = [proc EXCEPT ![p].op = op],
             UNCHANGED <<of, rows, core, inbox>>
      PROVE  Walks(p)
  <2>1. op \in Op BY <1>4 DEF RowsOf
  <2>2. proc' = [proc EXCEPT ![p].at = "find", ![p].op = op] BY <1>1, <1>4 DEF Call
  <2> QED BY <1>1, <1>4, <2>1, <2>2, LookWalks
<1> QED BY <1>1, <1>2, <1>3, <1>4 DEF Find

LEMMA PreparedDoes ==
  ASSUME Base, Prepared(<<"start", User>>)
  PROVE  \E p \in Starters : proc[p].at = "prepare" /\ (Begin(p) \/ Walks(p))
<1> DEFINE p == <<"start", User>>
<1>1. p \in Starters BY Callers
<1> HIDE DEF p
<1>2. proc[p].at = "prepare"
      /\ (Begin(p) \/ (proc' = Return(p) /\ UNCHANGED <<of, rows, core, inbox>>))
  BY DEF Prepared, p
<1>3. CASE proc' = Return(p) /\ UNCHANGED <<of, rows, core, inbox>>
  <2>1. Walks(p) BY <1>1, <1>2, <1>3, SameRows, ReturnWalks
  <2> QED BY <1>1, <1>2, <2>1
<1> QED BY <1>1, <1>2, <1>3

LEMMA StartWalks ==
  ASSUME Base, NEW p \in Starters, proc[p].at = "new",
         NEW rules \in Seq(Rule), rules # <<>>,
         proc' = [proc EXCEPT ![p].at = "find", ![p].rules = rules],
         UNCHANGED <<of, rows, core, inbox>>
  PROVE  Walks(p)
<1> DEFINE c == [proc[p] EXCEPT !.at = "find", !.rules = rules]
<1>1. p \in Process /\ proc \in [Process -> Call] BY Callers DEF Base, Typed
<1>2. c \in Call /\ c.at = "find" /\ c.rules = rules
  <2>1. proc[p] \in Call BY <1>1
  <2> QED BY <2>1 DEF Call, Places
<1>3. proc' = [proc EXCEPT ![p] = c] BY <1>1 DEF Call
<1> HIDE DEF c
<1>4. Moved(proc, proc', p) /\ proc'[p] = c BY <1>1, <1>2, <1>3, Moving
<1>5. Placed(p, proc'[p], core', rows') BY <1>2, <1>4, PlacedIdle DEF Idle
<1> QED BY <1>2, <1>4, <1>5, SameRows DEF Walks, Free

LEMMA OpenDoes ==
  ASSUME Base, NEW o \in Owner, Open(o)
  PROVE  \E p \in Starters : Walks(p)
<1> DEFINE p == <<"start", o>>
<1>1. p \in Starters BY Callers
<1> HIDE DEF p
<1>2. /\ proc[p].at = "new" /\ UNCHANGED <<of, rows, core, inbox>>
      /\ proc' = [proc EXCEPT ![p].at = "find", ![p].rules = Rules]
  BY DEF Open, p
<1> QED BY <1>1, <1>2, RulesTyped, StartWalks

LEMMA UserStartsDoes ==
  ASSUME Base, NEW r \in Rule, UserStarts(r)
  PROVE  \E p \in Starters : Walks(p)
<1> DEFINE p == <<"start", User>>
           rules == <<r>>
<1>1. p \in Starters BY Callers
<1>2. rules \in Seq(Rule) /\ rules # <<>> BY RulesTyped
<1> HIDE DEF p, rules
<1>3. /\ proc[p].at = "new" /\ UNCHANGED <<of, rows, core, inbox>>
      /\ proc' = [proc EXCEPT ![p].at = "find", ![p].rules = rules]
  BY DEF UserStarts, p, rules
<1> QED BY <1>1, <1>2, <1>3, StartWalks

LEMMA LeaveDoes ==
  ASSUME Base, NEW o \in Owner, Leave(o)
  PROVE  \E p \in Leavers : Walks(p)
<1> DEFINE p == <<"leave", o>>
           snaps == {[op |-> op, owners |-> rows[op].owners, active |-> rows[op].status \in Active] :
                       op \in {x \in Op : o \in rows[x].owners}}
           c == [proc[p] EXCEPT !.at = "leaving", !.owned = snaps]
<1>1. p \in Leavers /\ p \in Process /\ p \notin Starters /\ proc \in [Process -> Call] /\ rows \in [Op -> Row]
  BY Callers DEF Base, Typed
<1>2. snaps \subseteq Snap
  <2>1. ASSUME NEW op \in Op
        PROVE  [op |-> op, owners |-> rows[op].owners, active |-> rows[op].status \in Active] \in Snap
    <3>1. rows[op].owners \in SUBSET Owner BY <1>1 DEF Row
    <3>2. (rows[op].status \in Active) \in BOOLEAN OBVIOUS
    <3> DEFINE b == rows[op].status \in Active
    <3> HIDE DEF b
    <3>3. b \in BOOLEAN BY <3>2 DEF b
    <3>4. [op |-> op, owners |-> rows[op].owners, active |-> b] \in Snap BY <3>1, <3>3 DEF Snap
    <3> QED BY <3>4 DEF b
  <2> QED BY <2>1
<1>3. proc[p].at = "new" /\ UNCHANGED <<of, rows, core, inbox>>
      /\ proc' = [proc EXCEPT ![p].at = "leaving", ![p].owned = snaps]
  BY DEF Leave, At
<1> HIDE DEF p, snaps
<1>4. c \in Call /\ c.at = "leaving"
  <2>1. proc[p] \in Call BY <1>1
  <2> QED BY <1>2, <2>1 DEF Call, Places
<1>5. proc' = [proc EXCEPT ![p] = c] BY <1>1, <1>3 DEF Call
<1> HIDE DEF c
<1>6. Moved(proc, proc', p) /\ proc'[p] = c BY <1>1, <1>4, <1>5, Moving
<1>7. Placed(p, proc'[p], core', rows') BY <1>1, <1>4, <1>6, PlacedIdle DEF Idle
<1> QED BY <1>1, <1>3, <1>4, <1>6, <1>7, SameRows DEF Walks, Free

LEMMA StopsDoes ==
  ASSUME Base, NEW p \in Process, p \notin Starters, NEW op \in Op, NEW procs,
         Moved(proc, procs, p), proc[p].at \in Free,
         of' = of, SameStatuses, CallStop(procs, p, op, inbox)
  PROVE  Stops(p, op)
<1>1. /\ Moved(proc, proc', p) /\ proc'[p].op = op
      /\ CoreOnly(op) /\ SameStarts
      /\ \E m \in Message : inbox' = Append(inbox, m) /\ StopCalled(p, op, m)
  BY CallingStop
<1>2. PICK m \in Message : inbox' = Append(inbox, m) /\ StopCalled(p, op, m) BY <1>1
<1>3. /\ Placed(p, proc'[p], core', rows') /\ proc'[p].at # "invoke"
      /\ Expected(m, proc', core') /\ (m.kind = "event" \/ m.to = p)
  BY <1>1, <1>2, StopCalledPlaced
<1> QED BY <1>1, <1>2, <1>3 DEF Stops

LEMMA LeaveNextDoes ==
  ASSUME Base, NEW o \in Owner, LeaveNext(o)
  PROVE  \E p \in Leavers : Walks(p) \/ \E op \in Op : Stops(p, op)
<1> DEFINE p == <<"leave", o>>
<1>1. p \in Leavers /\ p \in Process /\ p \notin Starters
      /\ proc \in [Process -> Call] /\ rows \in [Op -> Row]
  BY Callers DEF Base, Typed
<1>2. of' = of /\ proc[p].at = "leaving" BY DEF LeaveNext
<1>3. CASE proc' = At(p, "done") /\ UNCHANGED <<rows, core, inbox>>
  <2> HIDE DEF p
  <2>1. proc' = To(proc, p, "done") /\ "done" \in Places BY <1>3 DEF At, To, Places
  <2>2. Moved(proc, proc', p) /\ proc'[p].at = "done" BY <1>1, <2>1, MovingTo
  <2>3. Placed(p, proc'[p], core', rows') BY <1>1, <2>2, PlacedIdle DEF Idle
  <2>4. Walks(p) BY <1>2, <1>3, <2>2, <2>3, SameRows DEF Walks, Free
  <2> QED BY <1>1, <2>4
<1>4. ASSUME NEW snap \in proc[p].owned,
             rows' = IF rows[snap.op].status = "none" THEN rows
                     ELSE [rows EXCEPT ![snap.op].owners = snap.owners \ {o}],
             \/ CallStop([proc EXCEPT ![p].owned = @ \ {snap}], p, snap.op, inbox)
             \/ proc' = [proc EXCEPT ![p].owned = @ \ {snap}] /\ UNCHANGED <<core, inbox>>
      PROVE  \E x \in Leavers : Walks(x) \/ \E op \in Op : Stops(x, op)
  <2> DEFINE op == snap.op
             left == snap.owners \ {o}
             c == [proc[p] EXCEPT !.owned = @ \ {snap}]
             next == [proc EXCEPT ![p].owned = @ \ {snap}]
  <2> HIDE DEF p
  <2>0. proc[p] \in Call /\ proc[p].owned \subseteq Snap BY <1>1 DEF Call
  <2>1. op \in Op /\ left \subseteq Owner BY <2>0, <1>4 DEF Snap
  <2>2. c \in Call /\ c.at = "leaving" BY <1>2, <2>0 DEF Call
  <2>3. next = [proc EXCEPT ![p] = c] OBVIOUS
  <2>4. rows' = rows \/ rows' = [rows EXCEPT ![op].owners = left] BY <1>4
  <2> HIDE DEF c, left
  <2>5. Moved(proc, next, p) /\ next[p] = c BY <1>1, <2>2, <2>3, Moving
  <2>6. SameStatuses
    <3>1. CASE rows' = rows BY <3>1, SameRows
    <3>2. CASE rows' = [rows EXCEPT ![op].owners = left]
      <4> DEFINE r == [rows[op] EXCEPT !.owners = left]
      <4> HIDE DEF op
      <4>1. rows[op] \in Row BY <1>1, <2>1
      <4>2. r \in Row /\ r.status = rows[op].status BY <2>1, <4>1 DEF Row
      <4>3. rows' = [rows EXCEPT ![op] = r] BY <3>2
      <4> HIDE DEF r
      <4> QED BY <1>1, <2>1, <4>2, <4>3 DEF SameStatuses
    <3> QED BY <2>4, <3>1, <3>2
  <2>7. proc[p].at \in Free BY <1>2 DEF Free
  <2> HIDE DEF next, op
  <2>8. CASE CallStop(next, p, op, inbox)
    <3>1. Stops(p, op) BY <1>1, <1>2, <2>1, <2>5, <2>6, <2>7, <2>8, StopsDoes
    <3> QED BY <1>1, <2>1, <3>1
  <2>9. CASE proc' = next /\ UNCHANGED <<core, inbox>>
    <3>1. Placed(p, proc'[p], core', rows') BY <1>1, <2>2, <2>5, <2>9, PlacedIdle DEF Idle
    <3>2. Walks(p) BY <1>2, <2>2, <2>5, <2>6, <2>7, <2>9, <3>1 DEF Walks
    <3> QED BY <1>1, <3>2
  <2> QED BY <1>4, <2>8, <2>9 DEF next, op
<1>5. \/ proc' = At(p, "done") /\ UNCHANGED <<rows, core, inbox>>
      \/ \E snap \in proc[p].owned :
           /\ rows' = IF rows[snap.op].status = "none" THEN rows
                      ELSE [rows EXCEPT ![snap.op].owners = snap.owners \ {o}]
           /\ \/ CallStop([proc EXCEPT ![p].owned = @ \ {snap}], p, snap.op, inbox)
              \/ proc' = [proc EXCEPT ![p].owned = @ \ {snap}] /\ UNCHANGED <<core, inbox>>
  BY DEF LeaveNext
<1> QED BY <1>3, <1>4, <1>5

LEMMA UserStopsDoes ==
  ASSUME Base, NEW op \in Op, UserStops(op)
  PROVE  Stops(Button, op)
<1>1. Button \in Process /\ Button \notin Starters BY Callers
<1>2. proc[Button].at \in Free /\ of' = of /\ rows' = rows /\ CallStop(proc, Button, op, inbox)
  BY DEF UserStops, Free
<1> HIDE DEF Button
<1>3. Moved(proc, proc, Button) BY DEF Base, Typed, Moved
<1> QED BY <1>1, <1>2, <1>3, SameRows, StopsDoes

LEMMA ClearDoes ==
  ASSUME Base, ClearFinished
  PROVE  /\ UNCHANGED <<of, proc, core, inbox>> /\ rows' \in [Op -> Row]
         /\ \A x \in Op : rows[x].status \in Active => rows'[x] = rows[x]
         /\ \A x \in Op : rows[x].status \notin Active => rows'[x].status = "none"
<1>1. NoRow \in Row /\ NoRow.status = "none" BY DEF NoRow, Row, Status
<1>2. rows' = [op \in Op |-> IF rows[op].status \in Active THEN rows[op] ELSE NoRow]
      /\ UNCHANGED <<of, proc, core, inbox>>
  BY DEF ClearFinished
<1> QED BY <1>1, <1>2 DEF Base, Typed

LEMMA BaseClear ==
  ASSUME Base, ClearFinished
  PROVE  Base'
<1>1. /\ UNCHANGED <<of, proc, core, inbox>> /\ rows' \in [Op -> Row]
      /\ \A x \in Op : rows[x].status \in Active => rows'[x] = rows[x]
  BY ClearDoes
<1>2. Button \in Process BY Callers
<1>3. proc'[Button] = proc[Button] /\ Moved(proc, proc', Button)
  BY <1>1 DEF Base, Typed, Moved
<1>4. BoxKept(Button) BY <1>1, <1>2, <1>3, BoxSame
<1>5. RowsStay(Button) BY <1>1 DEF RowsStay, Active
<1>6. of' \in Of /\ core' \in [Op -> Forward] /\ SameStarts
  BY <1>1 DEF Base, Typed, SameStarts
<1> QED BY <1>1, <1>2, <1>3, <1>4, <1>5, <1>6, BaseQuiet

LEMMA BaseSame ==
  ASSUME Base, UNCHANGED vars
  PROVE  Base'
BY DEF Base, Typed, Awaited, vars, Messages, Working, Single

LEMMA BaseInit == Init => Base
<1> SUFFICES ASSUME Init PROVE Base
  OBVIOUS
<1>1. of \in Of
  <2>1. Unused \in [rule : Rule \cup {""}, mode : {"", "auto", "manual"}] BY DEF Unused
  <2> QED BY <2>1 DEF Init, Of
<1>2. rows \in [Op -> Row]
  <2>1. NoRow \in Row BY DEF NoRow, Row, Status
  <2> QED BY <2>1 DEF Init
<1>3. proc \in [Process -> Call] /\ \A p \in Process : proc[p].at = "new"
  <2> DEFINE c == [at |-> "new", rules |-> <<>>, op |-> 0, owned |-> {}]
  <2>1. c.at = "new" /\ c \in Call BY DEF Call, Places
  <2>2. proc = [p \in Process |-> c] BY DEF Init
  <2> HIDE DEF c
  <2> QED BY <2>1, <2>2
<1>4. core \in [Op -> Forward] /\ \A op \in Op : ~core[op].listed /\ core[op].start = "none"
  <2>1. Nothing \in Forward /\ ~Nothing.listed /\ Nothing.start = "none"
    BY DEF Nothing, Forward, Status
  <2> QED BY <2>1 DEF Init
<1>5. inbox = <<>> BY DEF Init
<1>6. inbox \in Seq(Message) /\ Messages(inbox) = {} /\ Single(inbox)
  BY <1>5 DEF Messages, Single
<1>7. \A p \in Process : Placed(p, proc[p], core, rows) BY <1>3 DEF Placed, InStopOne
<1>8. Awaited
  <2>1. \A p \in Starters : proc[p].at # "invoke" BY <1>3, Callers
  <2>2. \A op \in Op : ~Working(core[op]) BY <1>4 DEF Working
  <2> QED BY <2>1, <2>2 DEF Awaited
<1> QED BY <1>1, <1>2, <1>3, <1>4, <1>6, <1>7, <1>8 DEF Base, Typed

(* The ways in which a step goes.                                          *)
LEMMA Steps ==
  ASSUME Base, [Next]_vars
  PROVE  \/ \E op \in Op : Connect(op) \/ StartFails(op) \/ Listen(op) \/ Started(op)
         \/ \E p \in Process : StopReleases(p) \/ StopCloses(p) \/ StopAnswers(p)
         \/ OnEvent \/ OnStarted \/ OnFailed \/ OnActive \/ OnList \/ OnStopped \/ OnRefused
         \/ \E p \in Starters : proc[p].at \in {"find", "prepare"} /\ Begin(p)
         \/ \E p \in Process : Walks(p) \/ \E op \in Op : Stops(p, op)
         \/ ClearFinished
         \/ UNCHANGED vars
<1>1. Starters \subseteq Process /\ Leavers \subseteq Process /\ Button \in Process BY Callers
<1>2. ASSUME NEW p \in Starters, Find(p)
      PROVE  (proc[p].at \in {"find", "prepare"} /\ Begin(p)) \/ Walks(p)
  BY <1>2, FindDoes
<1>3. ASSUME NEW o \in Owner, LeaveNext(o)
      PROVE  \E p \in Process : Walks(p) \/ \E op \in Op : Stops(p, op)
  BY <1>1, <1>3, LeaveNextDoes
<1>4. ASSUME NEW o \in Owner, Open(o) \/ Leave(o)
      PROVE  \E p \in Process : Walks(p)
  BY <1>1, <1>4, OpenDoes, LeaveDoes
<1>5. ASSUME NEW r \in Rule, UserStarts(r) PROVE \E p \in Process : Walks(p)
  BY <1>1, <1>5, UserStartsDoes
<1>6. ASSUME Prepared(<<"start", User>>)
      PROVE  \E p \in Starters : (proc[p].at \in {"find", "prepare"} /\ Begin(p)) \/ Walks(p)
  BY <1>6, PreparedDoes
<1>7. ASSUME NEW op \in Op, UserStops(op) PROVE \E p \in Process : Stops(p, op)
  BY <1>1, <1>7, UserStopsDoes
<1>8. CASE Core BY <1>8 DEF Core
<1>9. CASE Store BY <1>1, <1>2, <1>3, <1>9 DEF Store, Answers
<1>10. CASE Use BY <1>1, <1>4, <1>5, <1>6, <1>7, <1>10 DEF Use
<1> QED BY <1>8, <1>9, <1>10 DEF Next

LEMMA BaseNext == Base /\ [Next]_vars => Base'
<1> SUFFICES ASSUME Base, [Next]_vars PROVE Base'
  OBVIOUS
<1>1. ASSUME NEW p \in Process, Walks(p) \/ \E op \in Op : Stops(p, op) PROVE Base'
  BY <1>1, BaseWalks, BaseStops
<1> QED BY <1>1, Steps, BaseStart, BaseStop, BaseOnEvent, BaseOnStarted, BaseOnFailed, BaseOnActive,
           BaseOnList, BaseOnStopped, BaseBegin, BaseClear, BaseSame

LEMMA BaseHolds == Spec => []Base
<1> QED BY BaseInit, BaseNext, PTL DEF Spec

(* Every variable keeps its type, in every interleaving of calls, events,  *)
(* answers and the steps of the core.                                      *)
THEOREM TypeCorrect == Spec => []TypeOK
<1>1. Base => TypeOK
  <2> SUFFICES ASSUME Base PROVE TypeOK
    OBVIOUS
  <2>1. \A p \in Process : proc[p] \in Call BY DEF Base, Typed
  <2>2. \A p \in Process : /\ proc[p].at \in Places /\ proc[p].rules \in Seq(Rule)
                           /\ proc[p].op \in Op \cup {0} /\ proc[p].owned \subseteq Snap
    BY <2>1 DEF Call
  <2> QED BY <2>2 DEF Base, Typed, TypeOK, Of
<1> QED BY <1>1, BaseHolds, PTL

-----------------------------------------------------------------------------
(* What a forward holds.                                                   *)

LEMMA HoldsKept ==
  ASSUME NEW f, NEW e, NEW c, NEW e1, NEW c1, Holds(f, e, c), e => e1, c => c1
  PROVE  Holds(f, e1, c1)
BY DEF Holds

(* Whoever does not move stays where it is, and so does what moves elsewhere. *)
LEMMA At1Kept ==
  ASSUME NEW p \in Process, Moved(proc, proc', p), NEW op, NEW at,
         proc[p].at # at \/ proc[p].op # op \/ proc'[p] = proc[p], At1(op, at)
  PROVE  At1(op, at)'
BY DEF At1, Moved

LEMMA ReleasingStep ==
  ASSUME Base, Releasing, NEW p \in Process, NEW op \in Op, Moved(proc, proc', p), CoreOnly(op),
         proc[p].at \in {"emitted", "closing"} => proc[p].op = op,
         Holds(core'[op], At1(op, "emitted")', At1(op, "closing")')
  PROVE  Releasing'
<1>1. ASSUME NEW x \in Op, x # op
      PROVE  Holds(core'[x], At1(x, "emitted")', At1(x, "closing")')
  <2>1. Holds(core[x], At1(x, "emitted"), At1(x, "closing")) /\ core'[x] = core[x]
    BY <1>1 DEF Releasing, CoreOnly
  <2>2. proc[p].at # "emitted" \/ proc[p].op # x BY <1>1
  <2>3. proc[p].at # "closing" \/ proc[p].op # x BY <1>1
  <2>4. At1(x, "emitted") => At1(x, "emitted")' BY <2>2, At1Kept
  <2>5. At1(x, "closing") => At1(x, "closing")' BY <2>3, At1Kept
  <2> QED BY <2>1, <2>4, <2>5, HoldsKept
<1> QED BY <1>1 DEF Releasing

LEMMA ReleasingSame ==
  ASSUME Base, Releasing, NEW p \in Process, Moved(proc, proc', p), core' = core,
         proc[p].at \notin {"emitted", "closing"} \/ proc'[p] = proc[p]
  PROVE  Releasing'
<1>1. ASSUME NEW x \in Op
      PROVE  Holds(core'[x], At1(x, "emitted")', At1(x, "closing")')
  <2>1. Holds(core[x], At1(x, "emitted"), At1(x, "closing")) /\ core'[x] = core[x]
    BY DEF Releasing
  <2>4. At1(x, "emitted") => At1(x, "emitted")' BY At1Kept
  <2>5. At1(x, "closing") => At1(x, "closing")' BY At1Kept
  <2> QED BY <2>1, <2>4, <2>5, HoldsKept
<1> QED BY <1>1 DEF Releasing

(* The first event of a stop that p has called is underway.                *)
LEMMA ReleasingCalled ==
  ASSUME Base, Releasing, NEW p \in Process, NEW op \in Op, NEW m, Moved(proc, proc', p),
         proc[p].at \notin {"emitted", "closing"}, proc'[p].op = op, CoreOnly(op),
         StopCalled(p, op, m)
  PROVE  Releasing'
<1>1. CASE core' = core BY <1>1, ReleasingSame
<1>2. CASE /\ proc'[p].at = "emitted" /\ core[op].listed
           /\ core'[op] = [core[op] EXCEPT !.status = "stopping"]
  <2>1. Holds(core[op], At1(op, "emitted"), At1(op, "closing")) /\ core[op] \in Forward
    BY DEF Releasing, Base, Typed
  <2>2. At1(op, "emitted")' BY <1>2 DEF At1
  <2>3. At1(op, "closing") => At1(op, "closing")' BY At1Kept
  <2> DEFINE f == core[op]
             g == [f EXCEPT !.status = "stopping"]
  <2>4. /\ g.status = "stopping" /\ g.start = f.start /\ g.listed = f.listed /\ g.server = f.server
        /\ g.listening = f.listening /\ g.connected = f.connected
    BY <2>1 DEF Forward
  <2>5. f.start \notin {"none", "connect"} BY <1>2 DEF Base, Typed
  <2> HIDE DEF f, g
  <2>6. f.listed /\ Holds(f, At1(op, "emitted"), At1(op, "closing")) BY <1>2, <2>1 DEF f
  <2>7. Holds(g, At1(op, "emitted")', At1(op, "closing")')
    BY <2>2, <2>4, <2>5, <2>6 DEF Holds
  <2>8. core'[op] = g BY <1>2 DEF f, g
  <2> QED BY <2>7, <2>8, ReleasingStep
<1> QED BY <1>1, <1>2 DEF StopCalled

LEMMA ReleasingStart ==
  ASSUME Base, Releasing, NEW op \in Op, Connect(op) \/ StartFails(op) \/ Listen(op) \/ Started(op)
  PROVE  Releasing'
<1> DEFINE f == core[op]
           g == core'[op]
<1>1. CoreOnly(op) /\ proc' = proc
  BY ConnectDoes, StartFailsDoes, ListenDoes, StartedDoes
<1>2. Moved(proc, proc', Button) /\ Button \in Process /\ proc'[Button] = proc[Button]
  BY <1>1, Callers DEF Base, Typed, Moved
<1>3. At1(op, "emitted")' = At1(op, "emitted") /\ At1(op, "closing")' = At1(op, "closing")
  BY <1>1 DEF At1
<1>4. Holds(f, At1(op, "emitted"), At1(op, "closing")) /\ f \in Forward
  BY DEF Releasing, Base, Typed
<1> SUFFICES Holds(g, At1(op, "emitted"), At1(op, "closing"))
  <2>1. Holds(core'[op], At1(op, "emitted")', At1(op, "closing")')
        => Releasing'
    <3> SUFFICES ASSUME Holds(core'[op], At1(op, "emitted")', At1(op, "closing")')
                 PROVE  Releasing'
      OBVIOUS
    <3>1. ASSUME NEW x \in Op, x # op
          PROVE  Holds(core'[x], At1(x, "emitted")', At1(x, "closing")')
      <4>1. Holds(core[x], At1(x, "emitted"), At1(x, "closing")) /\ core'[x] = core[x]
        BY <1>1, <3>1 DEF Releasing, CoreOnly
      <4>2. At1(x, "emitted") => At1(x, "emitted")' BY <1>2, At1Kept
      <4>3. At1(x, "closing") => At1(x, "closing")' BY <1>2, At1Kept
      <4> QED BY <4>1, <4>2, <4>3, HoldsKept
    <3> QED BY <3>1 DEF Releasing
  <2> QED BY <1>3, <2>1
<1>5. CASE Connect(op)
  <2>1. f.start = "connect" /\ g = [f EXCEPT !.start = "listen", !.listed = TRUE, !.connected = TRUE]
    BY <1>5, ConnectDoes
  <2> HIDE DEF f, g
  <2>2. /\ g.start = "listen" /\ g.listed /\ g.status = f.status /\ g.server = f.server
        /\ g.listening = f.listening
    BY <1>4, <2>1 DEF Forward
  <2> QED BY <1>4, <2>1, <2>2 DEF Holds
<1>6. CASE StartFails(op)
  <2>1. /\ f.start \in {"connect", "listen"}
        /\ g = [f EXCEPT !.start = "over", !.listed = FALSE, !.connected = FALSE]
    BY <1>6, StartFailsDoes
  <2> HIDE DEF f, g
  <2>2. g.start = "over" /\ ~g.listed /\ ~g.connected /\ g.listening = f.listening
    BY <1>4, <2>1 DEF Forward
  <2> QED BY <1>4, <2>1, <2>2 DEF Holds
<1>7. CASE Listen(op)
  <2>1. /\ f.start = "listen"
        /\ g = [f EXCEPT !.start = "emitted", !.server = TRUE, !.listening = TRUE, !.status = "running"]
    BY <1>7, ListenDoes
  <2> HIDE DEF f, g
  <2>2. g.start = "emitted" /\ g.server /\ g.status = "running" /\ g.listed = f.listed
    BY <1>4, <2>1 DEF Forward
  <2> QED BY <1>4, <2>1, <2>2 DEF Holds
<1>8. CASE Started(op)
  <2>1. f.start = "emitted" /\ g = [f EXCEPT !.start = "over"] BY <1>8, StartedDoes
  <2> HIDE DEF f, g
  <2>2. /\ g.start = "over" /\ g.listed = f.listed /\ g.server = f.server /\ g.status = f.status
        /\ g.listening = f.listening /\ g.connected = f.connected
    BY <1>4, <2>1 DEF Forward
  <2> QED BY <1>4, <2>1, <2>2 DEF Holds
<1> QED BY <1>5, <1>6, <1>7, <1>8

LEMMA ReleasingStop ==
  ASSUME Base, Releasing, NEW p \in Process, StopReleases(p) \/ StopCloses(p) \/ StopAnswers(p)
  PROVE  Releasing'
<1> DEFINE op == proc[p].op
           f == core[op]
           g == core'[op]
<1>1. /\ op \in Op /\ CoreOnly(op) /\ Moved(proc, proc', p) /\ proc'[p].op = op
      /\ f.start \notin {"none", "connect"} /\ f \in Forward
      /\ Holds(f, At1(op, "emitted"), At1(op, "closing"))
  <2>1. op \in Op /\ \E at \in InStopOne \cup {"stop"} : StopGoes(p, op, at) /\ proc[p].at \in InStopOne
    BY StopReleasesDoes, StopClosesDoes, StopAnswersDoes DEF InStopOne
  <2>2. f.start \notin {"none", "connect"} BY <2>1, Stopping
  <2> QED BY <2>1, <2>2 DEF StopGoes, Releasing, Base, Typed
<1>2. CASE StopReleases(p) /\ core[op].server
  <2>0. /\ proc[p].at = "emitted" /\ StopGoes(p, op, "closing")
        /\ core'[op] = [core[op] EXCEPT !.status = "stopped", !.listening = FALSE]
    BY <1>2, StopReleasesDoes
  <2>1. proc[p].at = "emitted" /\ proc'[p].at = "closing" /\ core[op].server
        /\ g = [f EXCEPT !.status = "stopped", !.listening = FALSE]
    BY <1>2, <2>0 DEF StopGoes
  <2>2. At1(op, "closing")' BY <1>1, <2>1 DEF At1
  <2> HIDE DEF op, f, g
  <2>3. /\ g.status = "stopped" /\ ~g.listening /\ g.start = f.start /\ g.listed = f.listed
        /\ g.server = f.server /\ g.connected = f.connected
    BY <1>1, <2>1 DEF Forward
  <2>4. f.server BY <2>1 DEF f
  <2>5. Holds(g, At1(op, "emitted")', At1(op, "closing")') BY <1>1, <2>2, <2>3, <2>4 DEF Holds
  <2> QED BY <1>1, <2>5, ReleasingStep DEF g, op
<1>3. CASE StopReleases(p) /\ ~core[op].server
  <2>1. ~core[op].server /\ g = [f EXCEPT !.status = "stopped", !.connected = FALSE]
    BY <1>3, StopReleasesDoes
  <2> HIDE DEF op, f, g
  <2>3. /\ g.status = "stopped" /\ ~g.connected /\ g.start = f.start /\ g.listed = f.listed
        /\ g.server = f.server /\ g.listening = f.listening
    BY <1>1, <2>1 DEF Forward
  <2>4. ~f.server BY <2>1 DEF f
  <2>9. f.start \in {"listen", "emitted", "over"} BY <1>1 DEF Forward
  <2>10. f.listed => f.start = "listen" BY <1>1, <2>4, <2>9 DEF Holds
  <2>5. Holds(g, At1(op, "emitted")', At1(op, "closing")') BY <1>1, <2>3, <2>4, <2>10 DEF Holds
  <2> QED BY <1>1, <2>5, ReleasingStep DEF g, op
<1>4. CASE StopCloses(p)
  <2>1. proc[p].at = "closing" /\ g = [f EXCEPT !.connected = FALSE] BY <1>4, StopClosesDoes
  <2>2. At1(op, "emitted") => At1(op, "emitted")' BY <1>1, <2>1, At1Kept
  <2> HIDE DEF op, f, g
  <2>3. /\ ~g.connected /\ g.status = f.status /\ g.start = f.start /\ g.listed = f.listed
        /\ g.server = f.server /\ g.listening = f.listening
    BY <1>1, <2>1 DEF Forward
  <2>5. Holds(g, At1(op, "emitted")', At1(op, "closing")') BY <1>1, <2>2, <2>3 DEF Holds
  <2> QED BY <1>1, <2>5, ReleasingStep DEF g, op
<1>5. CASE StopAnswers(p)
  <2>1. proc[p].at = "closed" /\ core' = core BY <1>5, StopAnswersDoes
  <2> QED BY <1>1, <2>1, ReleasingSame
<1> QED BY <1>2, <1>3, <1>4, <1>5

LEMMA ReleasingBegin ==
  ASSUME Base, Releasing, NEW p \in Starters, Begin(p), proc[p].at \in {"find", "prepare"}
  PROVE  Releasing'
<1>1. PICK op \in Op :
        /\ core[op].start = "none" /\ CoreOnly(op) /\ Moved(proc, proc', p)
        /\ \/ core' = core
           \/ /\ core'[op] = [core[op] EXCEPT !.start = "connect", !.status = "starting"]
              /\ core'[op].start = "connect"
  BY BeginDoes
<1>2. p \in Process BY Callers
<1>3. CASE core' = core BY <1>1, <1>2, <1>3, ReleasingSame
<1>4. CASE core'[op] = [core[op] EXCEPT !.start = "connect", !.status = "starting"]
  <2>1. core[op] = Nothing BY <1>1 DEF Releasing, Holds
  <2> DEFINE g == core'[op]
  <2>2. g.start = "connect" /\ g.status = "starting" /\ ~g.listed /\ ~g.server /\ ~g.connected /\ ~g.listening
    BY <1>4, <2>1 DEF Nothing
  <2> HIDE DEF g
  <2>3. Holds(g, At1(op, "emitted")', At1(op, "closing")') BY <2>2 DEF Holds
  <2> QED BY <1>1, <1>2, <2>3, ReleasingStep DEF g
<1> QED BY <1>1, <1>3, <1>4

LEMMA ReleasingAnswers ==
  ASSUME Base, Releasing, OnEvent \/ OnStarted \/ OnFailed \/ OnActive \/ OnList \/ OnStopped \/ OnRefused
  PROVE  Releasing'
<1>1. CASE OnEvent
  <2>1. UNCHANGED <<proc, core>> BY <1>1 DEF OnEvent
  <2>2. Moved(proc, proc', Button) /\ Button \in Process BY <2>1, Callers DEF Base, Typed, Moved
  <2> QED BY <2>1, <2>2, ReleasingSame
<1>2. CASE OnStarted
  <2> DEFINE p == Head(inbox).to
             op == Head(inbox).op
  <2>1. /\ p \in Process /\ op \in Op /\ proc[p].at = "invoke" /\ Moved(proc, proc', p) /\ CoreOnly(op)
        /\ \/ core' = core
           \/ \E a \in Message : StopCalled(p, op, a) /\ proc'[p].op = op
    <3> DEFINE m == Head(inbox)
    <3>1. m = Head(inbox) /\ p = m.to /\ op = m.op OBVIOUS
    <3> HIDE DEF m, p, op
    <3> QED BY <1>2, <3>1, OnStartedDoes
  <2> HIDE DEF p, op
  <2>2. CASE core' = core BY <2>1, <2>2, ReleasingSame
  <2>3. ASSUME NEW a \in Message, StopCalled(p, op, a), proc'[p].op = op PROVE Releasing'
    BY <2>1, <2>3, ReleasingCalled
  <2> QED BY <2>1, <2>2, <2>3
<1>3. ASSUME OnFailed \/ OnActive \/ OnList \/ OnStopped \/ OnRefused PROVE Releasing'
  <2> DEFINE p == Head(inbox).to
  <2>1. /\ p \in Process /\ proc[p].at \in {"invoke", "hydrate", "stop"}
        /\ Moved(proc, proc', p) /\ core' = core
    BY <1>3, OnFailedDoes, OnActiveDoes, OnListDoes, OnStoppedDoes
  <2> QED BY <2>1, ReleasingSame
<1> QED BY <1>1, <1>2, <1>3

LEMMA ReleasingInit == Init => Releasing
<1> SUFFICES ASSUME Init PROVE Releasing
  OBVIOUS
<1>1. \A op \in Op : core[op] = Nothing BY DEF Init
<1>2. ASSUME NEW e, NEW c PROVE Holds(Nothing, e, c) BY DEF Holds, Nothing
<1> QED BY <1>1, <1>2 DEF Releasing

LEMMA ReleasingNext == Base /\ Releasing /\ [Next]_vars => Releasing'
<1> SUFFICES ASSUME Base, Releasing, [Next]_vars PROVE Releasing'
  OBVIOUS
<1>1. ASSUME NEW p \in Process, Walks(p) PROVE Releasing'
  <2>1. Moved(proc, proc', p) /\ core' = core /\ proc[p].at \in Free BY <1>1 DEF Walks
  <2> QED BY <2>1, ReleasingSame DEF Free
<1>2. ASSUME NEW p \in Process, NEW op \in Op, Stops(p, op) PROVE Releasing'
  <2>1. /\ Moved(proc, proc', p) /\ CoreOnly(op) /\ proc[p].at \in Free /\ proc'[p].op = op
        /\ \E m \in Message : StopCalled(p, op, m)
    BY <1>2 DEF Stops
  <2> QED BY <2>1, ReleasingCalled DEF Free
<1>3. ASSUME UNCHANGED <<proc, core>> PROVE Releasing'
  <2>1. Moved(proc, proc', Button) /\ Button \in Process BY <1>3, Callers DEF Base, Typed, Moved
  <2> QED BY <1>3, <2>1, ReleasingSame
<1>4. CASE ClearFinished BY <1>3, <1>4, ClearDoes
<1>5. CASE UNCHANGED vars BY <1>3, <1>5 DEF vars
<1> QED BY <1>1, <1>2, <1>4, <1>5, Steps, ReleasingStart, ReleasingStop, ReleasingAnswers, ReleasingBegin

LEMMA ReleasingHolds == Spec => [](Base /\ Releasing)
<1> QED BY BaseInit, BaseNext, ReleasingInit, ReleasingNext, PTL DEF Spec

(* A forward on which no call is at work holds a port or a connection only *)
(* if it is in the map and running: whichever way start and the stops that *)
(* overtake it interleave, one of them releases both.                      *)
THEOREM ReleasesAll == Spec => []NothingLeftBehind
<1>1. Base /\ Releasing => NothingLeftBehind
  <2> SUFFICES ASSUME Base, Releasing, NEW op \in Op, core[op].start \in {"none", "over"},
                      \A p \in Process : proc[p].at \in InStopOne => proc[p].op # op,
                      core[op].listening \/ core[op].connected
               PROVE  core[op].listed /\ core[op].status = "running"
    BY DEF NothingLeftBehind
  <2>1. Holds(core[op], At1(op, "emitted"), At1(op, "closing")) BY DEF Releasing
  <2>2. ~At1(op, "emitted") /\ ~At1(op, "closing") BY DEF At1, InStopOne
  <2> QED BY <2>1, <2>2 DEF Holds, Nothing
<1> QED BY <1>1, ReleasingHolds, PTL

-----------------------------------------------------------------------------
(* What a stop answers: once it has released what the forward f held, f is *)
(* stopped, or a start that went on has it running in the map.             *)
Halt(f) == f.status = "stopped" \/ (f.listed /\ f.start \in {"emitted", "over"})

Halting == \A p \in Process : proc[p].at \in {"closing", "closed"} => Halt(core[proc[p].op])

LEMMA HaltingStep ==
  ASSUME Base, Halting, NEW p \in Process, Moved(proc, proc', p),
         \A x \in Op : Halt(core[x]) /\ core[x].start \notin {"none", "connect"} => Halt(core'[x]),
         proc'[p].at \in {"closing", "closed"} =>
           \/ proc[p].at \in {"closing", "closed"} /\ proc'[p].op = proc[p].op
           \/ Halt(core'[proc'[p].op])
  PROVE  Halting'
<1> SUFFICES ASSUME NEW q \in Process, proc'[q].at \in {"closing", "closed"}
             PROVE  Halt(core'[proc'[q].op])
  BY DEF Halting
<1>1. ASSUME proc[q].at \in {"closing", "closed"}, proc'[q].op = proc[q].op
      PROVE  Halt(core'[proc'[q].op])
  <2>1. proc[q].op \in Op /\ core[proc[q].op].start \notin {"none", "connect"}
    BY <1>1, Stopping DEF InStopOne
  <2> QED BY <1>1, <2>1 DEF Halting
<1>2. CASE q # p
  <2>1. proc'[q] = proc[q] BY <1>2 DEF Moved
  <2> QED BY <1>1, <2>1
<1>3. CASE q = p BY <1>1, <1>3
<1> QED BY <1>2, <1>3

LEMMA HaltingSame ==
  ASSUME Base, Halting, NEW p \in Process, Moved(proc, proc', p), core' = core,
         proc'[p].at \notin {"closing", "closed"} \/ proc'[p] = proc[p]
  PROVE  Halting'
BY HaltingStep

LEMMA HaltingCalled ==
  ASSUME Base, Halting, NEW p \in Process, NEW op \in Op, NEW m, Moved(proc, proc', p),
         CoreOnly(op), StopCalled(p, op, m)
  PROVE  Halting'
<1>1. proc'[p].at \notin {"closing", "closed"} BY DEF StopCalled
<1>2. CASE core' = core BY <1>1, <1>2, HaltingSame
<1>3. CASE /\ core[op].listed /\ core[op].status # "stopped"
           /\ core'[op] = [core[op] EXCEPT !.status = "stopping"]
  <2>1. core[op] \in Forward BY DEF Base, Typed
  <2>2. core'[op].listed = core[op].listed /\ core'[op].start = core[op].start
    BY <1>3, <2>1 DEF Forward
  <2>3. Halt(core[op]) => Halt(core'[op]) BY <1>3, <2>2 DEF Halt
  <2>4. \A x \in Op : Halt(core[x]) => Halt(core'[x]) BY <2>3 DEF CoreOnly
  <2> QED BY <1>1, <2>4, HaltingStep
<1> QED BY <1>2, <1>3 DEF StopCalled

LEMMA HaltingStart ==
  ASSUME Base, Releasing, Halting, NEW op \in Op,
         Connect(op) \/ StartFails(op) \/ Listen(op) \/ Started(op)
  PROVE  Halting'
<1> DEFINE f == core[op]
           g == core'[op]
<1>1. CoreOnly(op) /\ proc' = proc
  BY ConnectDoes, StartFailsDoes, ListenDoes, StartedDoes
<1>2. Moved(proc, proc', Button) /\ Button \in Process /\ proc'[Button] = proc[Button]
  BY <1>1, Callers DEF Base, Typed, Moved
<1>3. f \in Forward /\ (f.start = "listen" => f.listed) BY DEF Base, Typed, Releasing, Holds
<1>4. CASE Connect(op) BY <1>1, <1>2, <1>4, ConnectDoes, HaltingStep DEF CoreOnly
<1>5. Halt(f) /\ f.start # "connect" => Halt(g)
  <2> SUFFICES ASSUME Halt(f), f.start # "connect", ~Connect(op) PROVE Halt(g)
    BY ConnectDoes
  <2>1. CASE StartFails(op)
    <3>1. /\ f.start = "listen"
          /\ g = [f EXCEPT !.start = "over", !.listed = FALSE, !.connected = FALSE]
      BY <2>1, StartFailsDoes
    <3> HIDE DEF f, g
    <3> QED BY <1>3, <3>1 DEF Halt, Forward
  <2>2. CASE Listen(op)
    <3>1. /\ f.start = "listen"
          /\ g = [f EXCEPT !.start = "emitted", !.server = TRUE, !.listening = TRUE, !.status = "running"]
      BY <2>2, ListenDoes
    <3> HIDE DEF f, g
    <3> QED BY <1>3, <3>1 DEF Halt, Forward
  <2>3. CASE Started(op)
    <3>1. f.start = "emitted" /\ g = [f EXCEPT !.start = "over"] BY <2>3, StartedDoes
    <3> HIDE DEF f, g
    <3> QED BY <1>3, <3>1 DEF Halt, Forward
  <2> QED BY <2>1, <2>2, <2>3
<1>6. \A x \in Op : Halt(core[x]) /\ core[x].start \notin {"none", "connect"} => Halt(core'[x])
  BY <1>1, <1>5 DEF CoreOnly
<1> QED BY <1>2, <1>6, HaltingStep

LEMMA HaltingStop ==
  ASSUME Base, Halting, NEW p \in Process, StopReleases(p) \/ StopCloses(p) \/ StopAnswers(p)
  PROVE  Halting'
<1> DEFINE op == proc[p].op
           g  == core'[op]
<1>1. /\ op \in Op /\ CoreOnly(op) /\ Moved(proc, proc', p) /\ proc'[p].op = op
      /\ core[op] \in Forward
  <2>1. /\ op \in Op
        /\ StopGoes(p, op, "closing") \/ StopGoes(p, op, "closed") \/ StopGoes(p, op, "stop")
    <3>1. op = proc[p].op OBVIOUS
    <3> HIDE DEF op
    <3>2. CASE StopReleases(p) BY <3>1, <3>2, StopReleasesDoes
    <3>3. CASE StopCloses(p) BY <3>1, <3>3, StopClosesDoes
    <3>4. CASE StopAnswers(p) BY <3>1, <3>4, StopAnswersDoes
    <3> QED BY <3>2, <3>3, <3>4
  <2> HIDE DEF op
  <2> QED BY <2>1 DEF StopGoes, Base, Typed
<1>2. CASE StopReleases(p)
  <2>1. g.status = "stopped" BY <1>2, StopReleasesDoes
  <2> HIDE DEF g
  <2>2. Halt(g) BY <2>1 DEF Halt
  <2>3. \A x \in Op : Halt(core[x]) => Halt(core'[x]) BY <1>1, <2>2 DEF CoreOnly, g
  <2> QED BY <1>1, <2>2, <2>3, HaltingStep DEF g
<1>3. CASE StopCloses(p)
  <2>1. proc[p].at = "closing" /\ g = [core[op] EXCEPT !.connected = FALSE]
    BY <1>3, StopClosesDoes
  <2>2. g.status = core[op].status /\ g.listed = core[op].listed /\ g.start = core[op].start
    BY <1>1, <2>1 DEF Forward
  <2>3. \A x \in Op : Halt(core[x]) => Halt(core'[x]) BY <1>1, <2>2 DEF CoreOnly, Halt
  <2> QED BY <1>1, <2>1, <2>3, HaltingStep
<1>4. CASE StopAnswers(p)
  <2>1. core' = core /\ proc'[p].at = "stop" BY <1>4, StopAnswersDoes DEF StopGoes
  <2> QED BY <1>1, <2>1, HaltingSame
<1> QED BY <1>2, <1>3, <1>4

LEMMA HaltingBegin ==
  ASSUME Base, Halting, NEW p \in Starters, Begin(p), proc[p].at \in {"find", "prepare"}
  PROVE  Halting'
<1>1. PICK op \in Op : /\ core[op].start = "none" /\ CoreOnly(op) /\ Moved(proc, proc', p)
                       /\ proc'[p].at = "invoke"
  BY BeginDoes
<1>2. p \in Process BY Callers
<1>3. \A x \in Op : Halt(core[x]) /\ core[x].start \notin {"none", "connect"} => Halt(core'[x])
  BY <1>1 DEF CoreOnly
<1> QED BY <1>1, <1>2, <1>3, HaltingStep

LEMMA HaltingAnswers ==
  ASSUME Base, Halting, OnEvent \/ OnStarted \/ OnFailed \/ OnActive \/ OnList \/ OnStopped \/ OnRefused
  PROVE  Halting'
<1>1. CASE OnEvent
  <2>1. UNCHANGED <<proc, core>> BY <1>1 DEF OnEvent
  <2>2. Moved(proc, proc', Button) /\ Button \in Process BY <2>1, Callers DEF Base, Typed, Moved
  <2> QED BY <2>1, <2>2, HaltingSame
<1>2. CASE OnStarted
  <2> DEFINE p == Head(inbox).to
             op == Head(inbox).op
  <2>1. /\ p \in Process /\ op \in Op /\ Moved(proc, proc', p) /\ CoreOnly(op)
        /\ \/ core' = core /\ proc'[p].at \in {"find", "done"}
           \/ \E a \in Message : StopCalled(p, op, a)
    <3> DEFINE m == Head(inbox)
    <3>1. m = Head(inbox) /\ p = m.to /\ op = m.op OBVIOUS
    <3> HIDE DEF m, p, op
    <3> QED BY <1>2, <3>1, OnStartedDoes
  <2> HIDE DEF p, op
  <2>2. CASE core' = core /\ proc'[p].at \in {"find", "done"} BY <2>1, <2>2, HaltingSame
  <2>3. ASSUME NEW a \in Message, StopCalled(p, op, a) PROVE Halting'
    BY <2>1, <2>3, HaltingCalled
  <2> QED BY <2>1, <2>2, <2>3
<1>3. ASSUME OnFailed \/ OnActive \/ OnList \/ OnStopped \/ OnRefused PROVE Halting'
  <2> DEFINE p == Head(inbox).to
  <2>1. /\ p \in Process /\ proc'[p].at \in {"find", "done", "hydrate", "leaving"}
        /\ Moved(proc, proc', p) /\ core' = core
    BY <1>3, OnFailedDoes, OnActiveDoes, OnListDoes, OnStoppedDoes
  <2> HIDE DEF p
  <2> QED BY <2>1, HaltingSame
<1> QED BY <1>1, <1>2, <1>3

LEMMA HaltingInit == Init => Halting
BY DEF Init, Halting

LEMMA HaltingNext == Base /\ Releasing /\ Halting /\ [Next]_vars => Halting'
<1> SUFFICES ASSUME Base, Releasing, Halting, [Next]_vars PROVE Halting'
  OBVIOUS
<1>1. ASSUME NEW p \in Process, Walks(p) PROVE Halting'
  <2>1. /\ Moved(proc, proc', p) /\ core' = core
        /\ proc'[p].at \in {"find", "prepare", "leaving", "done"}
    BY <1>1 DEF Walks
  <2> QED BY <2>1, HaltingSame
<1>2. ASSUME NEW p \in Process, NEW op \in Op, Stops(p, op) PROVE Halting'
  <2>1. /\ Moved(proc, proc', p) /\ CoreOnly(op) /\ \E m \in Message : StopCalled(p, op, m)
    BY <1>2 DEF Stops
  <2> QED BY <2>1, HaltingCalled
<1>3. ASSUME UNCHANGED <<proc, core>> PROVE Halting'
  <2>1. Moved(proc, proc', Button) /\ Button \in Process BY <1>3, Callers DEF Base, Typed, Moved
  <2> QED BY <1>3, <2>1, HaltingSame
<1>4. CASE ClearFinished BY <1>3, <1>4, ClearDoes
<1>5. CASE UNCHANGED vars BY <1>3, <1>5 DEF vars
<1> QED BY <1>1, <1>2, <1>4, <1>5, Steps, HaltingStart, HaltingStop, HaltingAnswers, HaltingBegin

-----------------------------------------------------------------------------
(* What has been said of a forward.                                        *)

Reply(m, op) == m.kind \in {"started", "failed", "stopped"} /\ m.op = op

(* A message is taken, and the row says what it said.                      *)
LEMMA FittingWithout ==
  ASSUME NEW box \in Seq(Message), NEW t \in Seq(Message), NEW k, Without(box, t, k),
         NEW op \in Op, NEW s, NEW new, NEW f, Fitting(op, s, box, f),
         Speaks(box[k], op) => new = Says(box[k], op),
         ~Speaks(box[k], op) => new = s,
         Reply(box[k], op) => k = 1
  PROVE  Fitting(op, new, t, f)
<1>1. /\ Len(box) \in Nat /\ DOMAIN box = 1..Len(box) /\ k \in 1..Len(box)
      /\ Len(t) = Len(box) - 1 /\ DOMAIN t = 1..Len(t)
      /\ \A i \in 1..Len(t) : t[i] = box[IF i < k THEN i ELSE i + 1]
  <2> HIDE DEF Message
  <2>1. Len(box) \in Nat /\ DOMAIN box = 1..Len(box) OBVIOUS
  <2>2. Len(t) \in Nat /\ DOMAIN t = 1..Len(t) OBVIOUS
  <2> QED BY <2>1, <2>2 DEF Without
<1>2. ASSUME NEW j \in DOMAIN box, NEW l \in DOMAIN t, FitsFrom(box, j, op, f),
             j <= (IF l < k THEN l ELSE l + 1)
      PROVE  FitsFrom(t, l, op, f)
  <2> SUFFICES ASSUME NEW i \in DOMAIN t, i >= l, Speaks(t[i], op)
               PROVE  Fits(Says(t[i], op), f)
    BY DEF FitsFrom
  <2> DEFINE b == IF i < k THEN i ELSE i + 1
  <2>1. b \in DOMAIN box /\ b >= j /\ t[i] = box[b] BY <1>1, <1>2
  <2> HIDE DEF b
  <2> QED BY <1>2, <2>1 DEF FitsFrom
<1>3. ASSUME FitsFrom(box, 1, op, f) PROVE FitsFrom(t, 1, op, f)
  <2> SUFFICES ASSUME NEW i \in DOMAIN t, Speaks(t[i], op)
               PROVE  Fits(Says(t[i], op), f)
    BY DEF FitsFrom
  <2> DEFINE b == IF i < k THEN i ELSE i + 1
  <2>1. b \in DOMAIN box /\ b >= 1 /\ t[i] = box[b] BY <1>1
  <2> HIDE DEF b
  <2> QED BY <1>3, <2>1 DEF FitsFrom
<1>4. ASSUME NEW j \in DOMAIN box, j # k, Reply(box[j], op), FitsFrom(box, j, op, f)
      PROVE  Fitting(op, new, t, f)
  <2> DEFINE l == IF j < k THEN j ELSE j - 1
  <2>1. l \in DOMAIN t /\ (IF l < k THEN l ELSE l + 1) = j BY <1>1, <1>4
  <2> HIDE DEF l
  <2>2. t[l] = box[j] BY <1>1, <2>1
  <2>3. FitsFrom(t, l, op, f) BY <1>1, <1>2, <1>4, <2>1
  <2> QED BY <1>4, <2>1, <2>2, <2>3 DEF Fitting, Reply
<1>5. ASSUME FitsFrom(box, 1, op, f), Fits(s, f) \/ Speaks(box[k], op)
      PROVE  Fitting(op, new, t, f)
  <2>1. Speaks(box[k], op) => Fits(Says(box[k], op), f) BY <1>1, <1>5 DEF FitsFrom
  <2>2. Fits(new, f) BY <1>5, <2>1
  <2> QED BY <1>3, <1>5, <2>2 DEF Fitting
<1>6. CASE Fits(s, f) /\ FitsFrom(box, 1, op, f) BY <1>5, <1>6
<1>7. ASSUME NEW j \in DOMAIN box, Reply(box[j], op), FitsFrom(box, j, op, f)
      PROVE  Fitting(op, new, t, f)
  <2>1. CASE j # k BY <1>4, <1>7, <2>1
  <2>2. CASE j = k
    <3>1. k = 1 /\ Speaks(box[k], op) BY <1>7, <2>2 DEF Reply, Speaks
    <3> QED BY <1>5, <1>7, <2>2, <3>1
  <2> QED BY <2>1, <2>2
<1> QED BY <1>6, <1>7 DEF Fitting, Reply

LEMMA AppendedBox ==
  ASSUME NEW box \in Seq(Message), NEW m \in Message, NEW t, t = Append(box, m)
  PROVE  /\ Len(box) \in Nat /\ DOMAIN box = 1..Len(box) /\ DOMAIN t = 1..(Len(box) + 1)
         /\ t[Len(box) + 1] = m /\ \A i \in 1..Len(box) : t[i] = box[i]
<1> HIDE DEF Message
<1> QED OBVIOUS

(* A message joins the box and says what is so, if anything.               *)
LEMMA FittingAppend ==
  ASSUME NEW box \in Seq(Message), NEW m \in Message, NEW op \in Op, NEW s, NEW f,
         Fitting(op, s, box, f), Speaks(m, op) => Fits(Says(m, op), f)
  PROVE  Fitting(op, s, Append(box, m), f)
<1> DEFINE t == Append(box, m)
<1>1. /\ Len(box) \in Nat /\ DOMAIN box = 1..Len(box) /\ DOMAIN t = 1..(Len(box) + 1)
      /\ t[Len(box) + 1] = m /\ \A i \in 1..Len(box) : t[i] = box[i]
  BY AppendedBox
<1> HIDE DEF t
<1>2. ASSUME NEW k, FitsFrom(box, k, op, f) PROVE FitsFrom(t, k, op, f)
  <2> SUFFICES ASSUME NEW i \in DOMAIN t, i >= k, Speaks(t[i], op)
               PROVE  Fits(Says(t[i], op), f)
    BY DEF FitsFrom
  <2>1. CASE i \in DOMAIN box
    <3>1. t[i] = box[i] BY <1>1, <2>1
    <3> QED BY <1>2, <2>1, <3>1 DEF FitsFrom
  <2>2. CASE i = Len(box) + 1 BY <1>1, <2>2
  <2> QED BY <1>1, <2>1, <2>2
<1>3. ASSUME NEW k \in DOMAIN box, Reply(box[k], op), FitsFrom(box, k, op, f)
      PROVE  Fitting(op, s, t, f)
  <2>1. k \in DOMAIN t /\ t[k] = box[k] BY <1>1
  <2> QED BY <1>2, <1>3, <2>1 DEF Fitting, Reply
<1>4. ASSUME Fits(s, f), FitsFrom(box, 1, op, f) PROVE Fitting(op, s, t, f)
  BY <1>2, <1>4 DEF Fitting
<1>5. Fitting(op, s, t, f) BY <1>3, <1>4 DEF Fitting, Reply
<1> QED BY <1>5 DEF t

(* An answer that says what is so settles it.                              *)
LEMMA FittingAnswer ==
  ASSUME NEW box \in Seq(Message), NEW m \in Message, NEW op \in Op, NEW s, NEW f,
         Reply(m, op), Fits(Says(m, op), f)
  PROVE  Fitting(op, s, Append(box, m), f)
<1> DEFINE t == Append(box, m)
           k == Len(box) + 1
<1>1. /\ Len(box) \in Nat /\ DOMAIN box = 1..Len(box) /\ DOMAIN t = 1..(Len(box) + 1)
      /\ t[Len(box) + 1] = m /\ \A i \in 1..Len(box) : t[i] = box[i]
  BY AppendedBox
<1> HIDE DEF t
<1>2. FitsFrom(t, k, op, f)
  <2> SUFFICES ASSUME NEW i \in DOMAIN t, i >= k PROVE Fits(Says(t[i], op), f)
    BY DEF FitsFrom
  <2>1. i = k BY <1>1
  <2> QED BY <1>1, <2>1
<1>3. k \in DOMAIN t /\ Reply(t[k], op) BY <1>1
<1> HIDE DEF k
<1>4. Fitting(op, s, t, f) BY <1>2, <1>3 DEF Fitting, Reply
<1> QED BY <1>4 DEF t

LEMMA FittingSilent ==
  ASSUME NEW box, NEW op \in Op, NEW s, NEW f, \A m \in Messages(box) : ~Speaks(m, op), Fits(s, f)
  PROVE  Fitting(op, s, box, f)
<1>1. FitsFrom(box, 1, op, f) BY DEF FitsFrom, Messages
<1> QED BY <1>1 DEF Fitting

(* A row that is not active is cleared.                                    *)
LEMMA FittingCleared ==
  ASSUME NEW box, NEW op \in Op, NEW s, NEW f, s \notin Active, Fitting(op, s, box, f)
  PROVE  Fitting(op, "none", box, f)
<1>1. Fits(s, f) => Fits("none", f) BY DEF Fits, Active
<1> QED BY <1>1 DEF Fitting

LEMMA SpeaksOf ==
  ASSUME NEW m, NEW op, m.kind # "list",
         m.kind \in {"event", "started", "failed", "stopped"} => m.op # op
  PROVE  ~Speaks(m, op) /\ ~Reply(m, op)
BY DEF Speaks, Reply

LEMMA FitsItself ==
  ASSUME NEW f, NEW s, s = f.status, f.listed
  PROVE  Fits(s, f)
BY DEF Fits

(* What somebody owes is owed while that somebody stays.                   *)
LEMMA OwedKept ==
  ASSUME Base, NEW p \in Process, Moved(proc, proc', p), NEW x \in Op, core'[x] = core[x], Owed(x),
         \/ proc'[p] = proc[p]
         \/ proc[p].op # x
         \/ proc[p].at \notin InStopOne \cup {"invoke"}
         \/ proc[p].at = "invoke" /\ core[x].start # "none"
  PROVE  Owed(x)'
<1>1. CASE Working(core[x]) BY <1>1 DEF Owed
<1>2. ASSUME NEW q \in Process, proc[q].op = x, proc[q].at \in InStopOne PROVE Owed(x)'
  <2>1. q = p => proc'[p] = proc[p] BY <1>2 DEF InStopOne
  <2>2. proc'[q] = proc[q] BY <2>1 DEF Moved
  <2> QED BY <1>2, <2>2 DEF Owed
<1>3. ASSUME NEW q \in Starters, proc[q].op = x, proc[q].at = "invoke", core[x].start = "none"
      PROVE  Owed(x)'
  <2>1. q = p => proc'[p] = proc[p] BY <1>3
  <2>2. proc'[q] = proc[q] BY <2>1, Callers DEF Moved
  <2> QED BY <1>3, <2>2 DEF Owed
<1> QED BY <1>1, <1>2, <1>3 DEF Owed

-----------------------------------------------------------------------------
(* What keeps Agreeing: what is owed stays owed, and what fits stays so.   *)
LEMMA AgreesKept ==
  ASSUME NEW x, Agrees(x), Owed(x) => Owed(x)',
         Fitting(x, rows[x].status, inbox, core[x])
           => Owed(x)' \/ Fitting(x, rows'[x].status, inbox', core'[x])
  PROVE  Agrees(x)'
BY DEF Agrees

(* A stop is called: what it adds to the box is so, or p owes the rest.    *)
LEMMA CalledFits ==
  ASSUME Base, NEW p \in Process, NEW op \in Op, NEW m \in Message, NEW box \in Seq(Message),
         StopCalled(p, op, m), inbox' = Append(box, m), CoreOnly(op), proc'[p].op = op,
         NEW x \in Op, NEW s, Fitting(x, s, box, core[x])
  PROVE  Owed(x)' \/ Fitting(x, s, inbox', core'[x])
<1>1. CASE x # op
  <2>1. core'[x] = core[x] /\ ~Speaks(m, x)
    BY <1>1, SpeaksOf DEF CoreOnly, StopCalled
  <2> QED BY <2>1, FittingAppend
<1>2. CASE x = op /\ proc'[p].at = "emitted"
  BY <1>2 DEF Owed, InStopOne
<1>3. CASE x = op /\ core' = core /\ m.kind = "refused"
  <2>1. ~Speaks(m, x) BY <1>3 DEF Speaks
  <2> QED BY <1>3, <2>1, FittingAppend
<1>4. CASE /\ x = op /\ core' = core /\ core[op].listed /\ core[op].status = "stopped"
           /\ m.kind = "stopped" /\ m.op = op /\ m.status = "stopped"
  <2>1. Reply(m, x) /\ Says(m, x) = core[x].status BY <1>4 DEF Reply, Says
  <2>2. Fits(Says(m, x), core[x]) BY <1>4, <2>1, FitsItself
  <2> QED BY <1>4, <2>1, <2>2, FittingAnswer
<1> QED BY <1>1, <1>2, <1>3, <1>4 DEF StopCalled

LEMMA CalledOwes ==
  ASSUME Base, NEW p \in Process, NEW op \in Op, NEW m, StopCalled(p, op, m), CoreOnly(op),
         Moved(proc, proc', p), proc'[p].op = op, NEW x \in Op, Owed(x),
         \/ proc[p].at \notin InStopOne \cup {"invoke"}
         \/ proc[p].at = "invoke" /\ proc[p].op = op /\ core[op].start # "none"
  PROVE  Owed(x)'
<1>1. CASE core'[x] = core[x]
  <2>1. \/ proc[p].op # x
        \/ proc[p].at \notin InStopOne \cup {"invoke"}
        \/ proc[p].at = "invoke" /\ core[x].start # "none"
    OBVIOUS
  <2> QED BY <1>1, <2>1, OwedKept
<1>2. CASE core'[x] # core[x]
  <2>1. x = op /\ proc'[p].at = "emitted" BY <1>2 DEF CoreOnly, StopCalled
  <2> QED BY <2>1 DEF Owed, InStopOne
<1> QED BY <1>1, <1>2

LEMMA AgreeingStart ==
  ASSUME Base, Releasing, Agreeing, NEW op \in Op, Connect(op) \/ StartFails(op) \/ Listen(op) \/ Started(op)
  PROVE  Agreeing'
<1>1. CoreOnly(op) /\ proc' = proc /\ rows' = rows /\ core[op] \in Forward
  BY ConnectDoes, StartFailsDoes, ListenDoes, StartedDoes DEF Base, Typed
<1>2. Moved(proc, proc', Button) /\ Button \in Process /\ proc'[Button] = proc[Button]
  BY <1>1, Callers DEF Base, Typed, Moved
<1>3. inbox \in Seq(Message) /\ core[op].status \in Status BY <1>1 DEF Base, Typed, Forward
<1>4. Working(core[op])
  BY ConnectDoes, StartFailsDoes, ListenDoes, StartedDoes DEF Working
<1>5. Starter(op) \in Process BY <1>4, StarterOf
<1>6. \/ inbox' = inbox
      \/ \E m \in Message : /\ inbox' = Append(inbox, m) /\ m.op = op
                            /\ m.kind \in {"event", "started", "failed"}
  <2>1. CASE Connect(op) BY <2>1, ConnectDoes
  <2>2. CASE StartFails(op)
    <3> DEFINE m == Answer(Starter(op), "failed", op, "failed")
    <3>1. m \in Message /\ m.kind = "failed" /\ m.op = op BY <1>5, AnswersTyped DEF Status
    <3>2. inbox' = Append(inbox, m) BY <2>2, StartFailsDoes
    <3> HIDE DEF m
    <3> QED BY <3>1, <3>2
  <2>3. CASE Listen(op)
    <3> DEFINE m == Event(op, "running")
    <3>1. m \in Message /\ m.kind = "event" /\ m.op = op BY <1>5, AnswersTyped DEF Status
    <3>2. inbox' = Append(inbox, m) BY <2>3, ListenDoes
    <3> HIDE DEF m
    <3> QED BY <3>1, <3>2
  <2>4. CASE Started(op)
    <3> DEFINE m == Answer(Starter(op), "started", op, core[op].status)
    <3>1. m \in Message /\ m.kind = "started" /\ m.op = op BY <1>3, <1>5, AnswersTyped
    <3>2. inbox' = Append(inbox, m) BY <2>4, StartedDoes
    <3> HIDE DEF m
    <3> QED BY <3>1, <3>2
  <2> QED BY <2>1, <2>2, <2>3, <2>4
<1>7. ASSUME NEW x \in Op, x # op PROVE Agrees(x)'
  <2>1. Agrees(x) /\ core'[x] = core[x] BY <1>1, <1>7 DEF Agreeing, CoreOnly
  <2>2. Owed(x) => Owed(x)' BY <1>2, <2>1, OwedKept
  <2>3. ASSUME Fitting(x, rows[x].status, inbox, core[x])
        PROVE  Fitting(x, rows'[x].status, inbox', core'[x])
    <3>1. CASE inbox' = inbox BY <1>1, <2>1, <2>3, <3>1
    <3>2. ASSUME NEW m \in Message, inbox' = Append(inbox, m), m.op = op,
                 m.kind \in {"event", "started", "failed"}
          PROVE  Fitting(x, rows'[x].status, inbox', core'[x])
      <4>1. ~Speaks(m, x) BY <1>7, <3>2, SpeaksOf
      <4> QED BY <1>1, <1>3, <2>1, <2>3, <3>2, <4>1, FittingAppend
    <3> QED BY <1>6, <3>1, <3>2
  <2> QED BY <2>1, <2>2, <2>3, AgreesKept
<1>8. CASE Connect(op) \/ Listen(op)
  <2>1. Working(core'[op]) BY <1>8, ConnectDoes, ListenDoes DEF Working
  <2>2. Agrees(op)' BY <2>1 DEF Agrees, Owed
  <2> QED BY <1>7, <2>2 DEF Agreeing
<1>9. CASE StartFails(op)
  <2> DEFINE m == Answer(Starter(op), "failed", op, "failed")
  <2>1. m \in Message /\ m.kind = "failed" /\ m.op = op BY <1>5, AnswersTyped DEF Status
  <2>2. inbox' = Append(inbox, m) BY <1>9, StartFailsDoes
  <2>3. ~core'[op].listed BY <1>1, <1>9, StartFailsDoes DEF Forward
  <2> HIDE DEF m
  <2>4. Reply(m, op) /\ Says(m, op) = "failed" BY <2>1 DEF Reply, Says
  <2>5. Fits(Says(m, op), core'[op]) BY <2>3, <2>4 DEF Fits, Active
  <2>6. Fitting(op, rows'[op].status, inbox', core'[op])
    BY <1>3, <2>1, <2>2, <2>4, <2>5, FittingAnswer
  <2>7. Agrees(op)' BY <2>6 DEF Agrees
  <2> QED BY <1>7, <2>7 DEF Agreeing
<1>10. CASE Started(op)
  <2> DEFINE m == Answer(Starter(op), "started", op, core[op].status)
  <2>1. m \in Message /\ m.kind = "started" /\ m.op = op /\ m.status = core[op].status
    BY <1>3, <1>5, AnswersTyped
  <2>2. inbox' = Append(inbox, m) BY <1>10, StartedDoes
  <2>3. core'[op].status = core[op].status /\ core'[op].listed
    <3>1. core[op].listed BY <1>10, StartedDoes DEF Releasing, Holds
    <3> QED BY <1>1, <1>10, <3>1, StartedDoes DEF Forward
  <2> HIDE DEF m
  <2>4. Reply(m, op) /\ Says(m, op) = core'[op].status BY <2>1, <2>3 DEF Reply, Says
  <2>5. Fits(Says(m, op), core'[op]) BY <2>3, <2>4, FitsItself
  <2>6. Fitting(op, rows'[op].status, inbox', core'[op])
    BY <1>3, <2>1, <2>2, <2>4, <2>5, FittingAnswer
  <2>7. Agrees(op)' BY <2>6 DEF Agrees
  <2> QED BY <1>7, <2>7 DEF Agreeing
<1> QED BY <1>8, <1>9, <1>10

LEMMA AgreeingStop ==
  ASSUME Base, Halting, Agreeing, NEW p \in Process, NEW op, op = proc[p].op,
         StopReleases(p) \/ StopCloses(p) \/ StopAnswers(p)
  PROVE  Agreeing'
<1>1. /\ op \in Op /\ CoreOnly(op) /\ Moved(proc, proc', p) /\ proc'[p].op = op /\ rows' = rows
  <2>1. op \in Op /\ \E at \in InStopOne \cup {"stop"} : StopGoes(p, op, at) /\ proc[p].at \in InStopOne
    BY StopReleasesDoes, StopClosesDoes, StopAnswersDoes DEF InStopOne
  <2> QED BY <2>1 DEF StopGoes
<1>2. /\ inbox \in Seq(Message) /\ core[op] \in Forward /\ core[op].status \in Status
      /\ "stopped" \in Status
  BY <1>1 DEF Base, Typed, Forward, Status
<1>3. \/ inbox' = inbox
      \/ \E m \in Message : inbox' = Append(inbox, m) /\ m.op = op /\ m.kind \in {"event", "stopped"}
  <2>1. ASSUME NEW s \in Status, inbox' = Append(inbox, Event(op, s))
        PROVE  \E m \in Message : inbox' = Append(inbox, m) /\ m.op = op /\ m.kind = "event"
    <3> DEFINE m == Event(op, s)
    <3>1. m \in Message /\ m.kind = "event" /\ m.op = op BY <1>1, AnswersTyped
    <3> QED BY <2>1, <3>1
  <2>2. CASE StopReleases(p) BY <1>2, <2>1, <2>2, StopReleasesDoes
  <2>3. CASE StopCloses(p) BY <1>2, <2>1, <2>3, StopClosesDoes
  <2>4. CASE StopAnswers(p)
    <3> DEFINE m == Answer(p, "stopped", op, core[op].status)
    <3>1. inbox' = Append(inbox, m) BY <2>4, StopAnswersDoes
    <3>2. m \in Message /\ m.kind = "stopped" /\ m.op = op BY <1>1, <1>2, AnswersTyped
    <3> HIDE DEF m
    <3> QED BY <3>1, <3>2
  <2> QED BY <2>2, <2>3, <2>4
<1>4. ASSUME NEW x \in Op, x # op PROVE Agrees(x)'
  <2>1. Agrees(x) /\ core'[x] = core[x] BY <1>1, <1>4 DEF Agreeing, CoreOnly
  <2>2. Owed(x) => Owed(x)' BY <1>1, <1>4, <2>1, OwedKept
  <2>3. ASSUME Fitting(x, rows[x].status, inbox, core[x])
        PROVE  Fitting(x, rows'[x].status, inbox', core'[x])
    <3>1. CASE inbox' = inbox BY <1>1, <2>1, <2>3, <3>1
    <3>2. ASSUME NEW m \in Message, inbox' = Append(inbox, m), m.op = op,
                 m.kind \in {"event", "stopped"}
          PROVE  Fitting(x, rows'[x].status, inbox', core'[x])
      <4>1. ~Speaks(m, x) BY <1>4, <3>2, SpeaksOf
      <4> QED BY <1>1, <1>2, <2>1, <2>3, <3>2, <4>1, FittingAppend
    <3> QED BY <1>3, <3>1, <3>2
  <2> QED BY <2>1, <2>2, <2>3, AgreesKept
<1>5. CASE StopReleases(p) \/ StopCloses(p)
  <2>1. proc'[p].at \in InStopOne
    BY <1>5, StopReleasesDoes, StopClosesDoes DEF StopGoes, InStopOne
  <2>2. Agrees(op)' BY <1>1, <2>1 DEF Agrees, Owed
  <2> QED BY <1>1, <1>4, <2>2 DEF Agreeing
<1>6. CASE StopAnswers(p)
  <2> DEFINE m == Answer(p, "stopped", op, core[op].status)
  <2>1. inbox' = Append(inbox, m) /\ core' = core BY <1>6, StopAnswersDoes
  <2>2. m \in Message /\ m.kind = "stopped" /\ m.op = op /\ m.status = core[op].status
    BY <1>1, <1>2, AnswersTyped
  <2> HIDE DEF m
  <2>3. Reply(m, op) /\ Says(m, op) = core'[op].status BY <2>1, <2>2 DEF Reply, Says
  <2>4. Fits(Says(m, op), core'[op])
    <3>1. Halt(core[op]) BY <1>6, StopAnswersDoes DEF Halting
    <3> QED BY <2>1, <2>3, <3>1 DEF Fits, Halt, Active
  <2>5. Fitting(op, rows'[op].status, inbox', core'[op])
    BY <1>1, <1>2, <2>1, <2>2, <2>3, <2>4, FittingAnswer
  <2>6. Agrees(op)' BY <2>5 DEF Agrees
  <2> QED BY <1>1, <1>4, <2>6 DEF Agreeing
<1> QED BY <1>5, <1>6

(* The head of the box is gone; t is the rest, and f unchanged so far.     *)
LEMMA HeadTaken ==
  ASSUME Base, inbox # <<>>, NEW m, m = Head(inbox), NEW x \in Op, NEW s,
         Fitting(x, rows[x].status, inbox, core[x]),
         Speaks(m, x) => s = Says(m, x), ~Speaks(m, x) => s = rows[x].status
  PROVE  Tail(inbox) \in Seq(Message) /\ Fitting(x, s, Tail(inbox), core[x])
<1>1. inbox \in Seq(Message) BY DEF Base, Typed
<1>2. Tail(inbox) \in Seq(Message) /\ Without(inbox, Tail(inbox), 1) /\ m = inbox[1]
  BY <1>1, TailWithout
<1> DEFINE t == Tail(inbox)
<1> HIDE DEF t
<1>3. t \in Seq(Message) /\ Without(inbox, t, 1) BY <1>2 DEF t
<1>4. Fitting(x, s, t, core[x]) BY <1>1, <1>2, <1>3, FittingWithout
<1> QED BY <1>3, <1>4 DEF t

LEMMA AgreeingOnEvent ==
  ASSUME Base, Agreeing, OnEvent
  PROVE  Agreeing'
<1>1. PICK i \in DOMAIN inbox : /\ Take("event", i) /\ rows' = Merge(inbox[i].op, inbox[i].status)
                                /\ inbox' = RemoveAt(inbox, i) /\ UNCHANGED <<of, proc, core>>
  BY DEF OnEvent
<1>2. inbox[i].kind = "event" /\ inbox[i] \in Messages(inbox) /\ inbox \in Seq(Message)
  BY <1>1 DEF Take, Messages, Base, Typed
<1>3. inbox[i].op \in Op /\ inbox[i].status \in Status
  BY <1>2, InTheBox, MessageTypes
<1>4. /\ rows'[inbox[i].op].status = inbox[i].status
      /\ \A x \in Op : x # inbox[i].op => rows'[x] = rows[x]
  BY <1>1, <1>3, Merging
<1>5. inbox' \in Seq(Message) /\ Without(inbox, inbox', i) BY <1>1, <1>2, RemoveWithout
<1>6. ASSUME NEW x \in Op PROVE Agrees(x)'
  <2>1. Agrees(x) /\ core' = core /\ proc' = proc BY <1>1 DEF Agreeing
  <2>2. Owed(x) => Owed(x)' BY <2>1 DEF Owed
  <2>3. /\ Speaks(inbox[i], x) => rows'[x].status = Says(inbox[i], x)
        /\ ~Speaks(inbox[i], x) => rows'[x].status = rows[x].status
        /\ ~Reply(inbox[i], x)
    BY <1>2, <1>4 DEF Speaks, Says, Reply
  <2>4. ASSUME Fitting(x, rows[x].status, inbox, core[x])
        PROVE  Fitting(x, rows'[x].status, inbox', core'[x])
    BY <1>2, <1>5, <2>1, <2>3, <2>4, FittingWithout
  <2> QED BY <2>1, <2>2, <2>4, AgreesKept
<1> QED BY <1>6 DEF Agreeing

(* m answers, about op or about nothing, and the row of op says what it says. *)
LEMMA RowSays ==
  ASSUME Base, NEW m, m.kind \in {"started", "failed", "stopped"}, NEW op \in Op, m.op = op,
         NEW s \in Status, s = IF m.kind = "failed" THEN "failed" ELSE m.status,
         rows' = Merge(op, s), NEW x \in Op
  PROVE  /\ Speaks(m, x) => rows'[x].status = Says(m, x)
         /\ ~Speaks(m, x) => rows'[x].status = rows[x].status
<1>1. rows'[op].status = s /\ \A y \in Op : y # op => rows'[y] = rows[y] BY Merging
<1> QED BY <1>1 DEF Speaks, Says

LEMMA AgreeingOnStarted ==
  ASSUME Base, Agreeing, OnStarted, NEW m, m = Head(inbox), NEW p, p = m.to, NEW op, op = m.op
  PROVE  Agreeing'
<1>1. /\ m.kind = "started" /\ inbox # <<>> /\ p \in Process /\ op \in Op /\ m.status \in Status
      /\ proc[p].at = "invoke" /\ proc[p].op = op /\ core[op].start = "over"
      /\ rows' = Merge(op, m.status) /\ Moved(proc, proc', p) /\ CoreOnly(op)
      /\ \/ core' = core /\ inbox' = Tail(inbox)
         \/ \E a \in Message : /\ inbox' = Append(Tail(inbox), a) /\ StopCalled(p, op, a)
                               /\ proc'[p].op = op
  BY OnStartedDoes
<1>2. ASSUME NEW x \in Op PROVE Agrees(x)'
  <2>1. Agrees(x) BY DEF Agreeing
  <2>2. /\ Speaks(m, x) => rows'[x].status = Says(m, x)
        /\ ~Speaks(m, x) => rows'[x].status = rows[x].status
    BY <1>1, RowSays
  <2>3. Fitting(x, rows[x].status, inbox, core[x]) =>
          Tail(inbox) \in Seq(Message) /\ Fitting(x, rows'[x].status, Tail(inbox), core[x])
    BY <1>1, <2>2, HeadTaken
  <2>4. CASE core' = core /\ inbox' = Tail(inbox)
    <3>1. Owed(x) => Owed(x)' BY <1>1, <2>4, OwedKept
    <3>2. core'[x] = core[x] BY <2>4
    <3> QED BY <2>1, <2>3, <2>4, <3>1, <3>2, AgreesKept
  <2>5. ASSUME NEW a \in Message, inbox' = Append(Tail(inbox), a), StopCalled(p, op, a),
               proc'[p].op = op
        PROVE  Agrees(x)'
    <3>1. Owed(x) => Owed(x)' BY <1>1, <2>5, CalledOwes
    <3>2. ASSUME Fitting(x, rows[x].status, inbox, core[x])
          PROVE  Owed(x)' \/ Fitting(x, rows'[x].status, inbox', core'[x])
      <4> DEFINE t == Tail(inbox)
      <4>1. t \in Seq(Message) /\ Fitting(x, rows'[x].status, t, core[x]) /\ inbox' = Append(t, a)
        BY <2>3, <2>5, <3>2
      <4> HIDE DEF t
      <4> QED BY <1>1, <2>5, <4>1, CalledFits
    <3> QED BY <2>1, <3>1, <3>2, AgreesKept
  <2> QED BY <1>1, <2>4, <2>5
<1> QED BY <1>2 DEF Agreeing

LEMMA AgreeingTaken ==
  ASSUME Base, Agreeing, inbox # <<>>, NEW m, m = Head(inbox), NEW p \in Process,
         Moved(proc, proc', p), core' = core, inbox' = Tail(inbox),
         \/ proc[p].at \notin InStopOne \cup {"invoke"}
         \/ proc[p].at = "invoke" /\ core[proc[p].op].start # "none",
         \A x \in Op : /\ Speaks(m, x) => rows'[x].status = Says(m, x)
                       /\ ~Speaks(m, x) => rows'[x].status = rows[x].status
  PROVE  Agreeing'
<1>1. ASSUME NEW x \in Op PROVE Agrees(x)'
  <2>1. Agrees(x) /\ core'[x] = core[x] BY DEF Agreeing
  <2>2. Owed(x) => Owed(x)' BY <2>1, OwedKept
  <2>3. ASSUME Fitting(x, rows[x].status, inbox, core[x])
        PROVE  Fitting(x, rows'[x].status, inbox', core'[x])
    <3>1. Fitting(x, rows'[x].status, Tail(inbox), core[x]) BY <2>3, HeadTaken
    <3> QED BY <3>1, <2>1
  <2> QED BY <2>1, <2>2, <2>3, AgreesKept
<1> QED BY <1>1 DEF Agreeing

LEMMA AgreeingOnOthers ==
  ASSUME Base, Agreeing, OnFailed \/ OnList \/ OnStopped \/ OnRefused,
         NEW m, m = Head(inbox), NEW p, p = m.to
  PROVE  Agreeing'
<1>1. CASE OnFailed
  <2>1. /\ m.kind = "failed" /\ inbox # <<>> /\ p \in Process /\ m.op \in Op
        /\ proc[p].at = "invoke" /\ proc[p].op = m.op /\ core[m.op].start = "over"
        /\ core' = core /\ rows' = Merge(m.op, "failed") /\ inbox' = Tail(inbox)
        /\ Moved(proc, proc', p)
    BY <1>1, OnFailedDoes
  <2>2. "failed" \in Status BY DEF Status
  <2>3. \A x \in Op : /\ Speaks(m, x) => rows'[x].status = Says(m, x)
                      /\ ~Speaks(m, x) => rows'[x].status = rows[x].status
    BY <2>1, <2>2, RowSays
  <2> QED BY <2>1, <2>3, AgreeingTaken
<1>2. CASE OnList
  <2>1. /\ m.kind = "list" /\ inbox # <<>> /\ p \in Process /\ proc[p].at = "hydrate"
        /\ core' = core /\ inbox' = Tail(inbox) /\ Moved(proc, proc', p)
        /\ \A x \in Op : rows'[x].status = IF m.list[x] = "none" THEN rows[x].status ELSE m.list[x]
    BY <1>2, OnListDoes
  <2>2. \A x \in Op : /\ Speaks(m, x) => rows'[x].status = Says(m, x)
                      /\ ~Speaks(m, x) => rows'[x].status = rows[x].status
    BY <2>1 DEF Speaks, Says
  <2>3. proc[p].at \notin InStopOne \cup {"invoke"} BY <2>1 DEF InStopOne
  <2> QED BY <2>1, <2>2, <2>3, AgreeingTaken
<1>3. CASE OnStopped \/ OnRefused
  <2>1. /\ inbox # <<>> /\ p \in Process /\ proc[p].at = "stop"
        /\ core' = core /\ inbox' = Tail(inbox) /\ Moved(proc, proc', p)
        /\ \/ m.kind = "stopped" /\ m.op \in Op /\ m.status \in Status
              /\ rows' = Merge(m.op, m.status)
           \/ m.kind = "refused" /\ rows' = rows
    BY <1>3, OnStoppedDoes
  <2>2. \A x \in Op : /\ Speaks(m, x) => rows'[x].status = Says(m, x)
                      /\ ~Speaks(m, x) => rows'[x].status = rows[x].status
    <3>1. CASE m.kind = "stopped" /\ m.op \in Op /\ m.status \in Status
               /\ rows' = Merge(m.op, m.status)
      BY <3>1, RowSays
    <3>2. CASE m.kind = "refused" /\ rows' = rows BY <3>2 DEF Speaks
    <3> QED BY <2>1, <3>1, <3>2
  <2>3. proc[p].at \notin InStopOne \cup {"invoke"} BY <2>1 DEF InStopOne
  <2> QED BY <2>1, <2>2, <2>3, AgreeingTaken
<1> QED BY <1>1, <1>2, <1>3

LEMMA AgreeingOnActive ==
  ASSUME Base, Agreeing, OnActive, NEW m, m = Head(inbox), NEW p, p = m.to, NEW op, op = proc[p].op
  PROVE  Agreeing'
<1>1. /\ m.kind = "active" /\ inbox # <<>> /\ p \in Process /\ op \in Op
      /\ core[op].start = "none" /\ core' = core /\ rows' = Removed(op) /\ Moved(proc, proc', p)
  BY OnActiveDoes
<1>2. PICK a \in Message : /\ inbox' = Append(Tail(inbox), a) /\ a.kind = "list" /\ a.to = p
                           /\ \A x \in Op : a.list[x] = IF core[x].listed THEN core[x].status
                                                        ELSE "none"
  BY OnActiveDoes
<1> DEFINE t == Tail(inbox)
<1>3. t \in Seq(Message) /\ Messages(t) \subseteq Messages(inbox) /\ inbox \in Seq(Message)
  <2>1. inbox \in Seq(Message) BY DEF Base, Typed
  <2>2. t \in Seq(Message) /\ Without(inbox, t, 1) BY <1>1, <2>1, TailWithout
  <2> HIDE DEF t
  <2>3. Messages(t) \subseteq Messages(inbox) BY <2>1, <2>2, WithoutMessages
  <2> QED BY <2>1, <2>2, <2>3
<1>4. rows \in [Op -> Row] /\ core \in [Op -> Forward]
      /\ \A x \in Op : core[x].listed => core[x].start \notin {"none", "connect"}
  BY DEF Base, Typed
<1>5. rows'[op].status = "none" /\ \A x \in Op : x # op => rows'[x] = rows[x]
  BY <1>1, <1>4 DEF Removed, NoRow
<1>6. \A x \in Op : Speaks(a, x) => Fits(Says(a, x), core[x])
  <2> SUFFICES ASSUME NEW x \in Op, Speaks(a, x) PROVE Fits(Says(a, x), core[x])
    OBVIOUS
  <2>1. core[x].listed /\ Says(a, x) = core[x].status BY <1>2 DEF Speaks, Says
  <2> QED BY <2>1, FitsItself
<1>7. ASSUME NEW x \in Op, x # op PROVE Agrees(x)'
  <2>1. Agrees(x) /\ core'[x] = core[x] /\ rows'[x] = rows[x] BY <1>1, <1>5, <1>7 DEF Agreeing
  <2>2. Owed(x) => Owed(x)' BY <1>1, <1>7, <2>1, OwedKept
  <2>3. ASSUME Fitting(x, rows[x].status, inbox, core[x])
        PROVE  Fitting(x, rows'[x].status, inbox', core'[x])
    <3>1. ~Speaks(m, x) BY <1>1 DEF Speaks
    <3>2. Fitting(x, rows[x].status, t, core[x]) BY <1>1, <2>3, <3>1, HeadTaken
    <3> HIDE DEF t
    <3>3. Fitting(x, rows[x].status, Append(t, a), core[x]) BY <1>3, <1>6, <3>2, FittingAppend
    <3> QED BY <1>2, <2>1, <3>3 DEF t
  <2> QED BY <2>1, <2>2, <2>3, AgreesKept
<1>8. Agrees(op)'
  <2>1. ASSUME NEW x \in Messages(t) PROVE ~Speaks(x, op)
    <3>1. x \in Messages(inbox) /\ Expected(x, proc, core) BY <1>3, <2>1 DEF Base
    <3> QED BY <1>1, <3>1 DEF Expected, Speaks
  <2>2. ~Speaks(a, op)
    <3>1. ~core[op].listed BY <1>1, <1>4
    <3> QED BY <1>1, <1>2, <3>1 DEF Speaks
  <2>3. Fits("none", core[op])
    <3>1. ~core[op].listed BY <1>1, <1>4
    <3> QED BY <3>1 DEF Fits, Active
  <2>4. Fitting(op, "none", t, core[op]) BY <1>1, <2>1, <2>3, FittingSilent
  <2> HIDE DEF t
  <2>5. Fitting(op, "none", Append(t, a), core[op])
    BY <1>1, <1>3, <2>2, <2>4, FittingAppend
  <2>6. Fitting(op, rows'[op].status, inbox', core'[op]) BY <1>1, <1>2, <1>5, <2>5 DEF t
  <2> QED BY <2>6 DEF Agrees
<1> QED BY <1>7, <1>8 DEF Agreeing

LEMMA AgreeingBegin ==
  ASSUME Base, Agreeing, NEW p \in Starters, Begin(p), proc[p].at \in {"find", "prepare"}
  PROVE  Agreeing'
<1>1. PICK op \in Op :
        /\ rows' \in [Op -> Row] /\ CoreOnly(op)
        /\ \A x \in Op : x # op => rows'[x] = rows[x]
        /\ Moved(proc, proc', p) /\ proc'[p].at = "invoke" /\ proc'[p].op = op
        /\ core[op].start = "none"
        /\ \/ /\ core' = core
              /\ \E m \in Message : /\ inbox' = Append(inbox, m)
                                    /\ m.kind = "active" /\ m.to = p
           \/ inbox' = inbox /\ core'[op].start = "connect"
  BY BeginDoes
<1>2. p \in Process /\ inbox \in Seq(Message) BY Callers DEF Base, Typed
<1>3. ASSUME NEW x \in Op, x # op PROVE Agrees(x)'
  <2>1. Agrees(x) /\ core'[x] = core[x] /\ rows'[x] = rows[x]
    BY <1>1, <1>3 DEF Agreeing, CoreOnly
  <2>2. Owed(x) => Owed(x)'
    <3>1. proc[p].at \notin InStopOne \cup {"invoke"} BY DEF InStopOne
    <3> QED BY <1>1, <1>2, <2>1, <3>1, OwedKept
  <2>3. ASSUME Fitting(x, rows[x].status, inbox, core[x])
        PROVE  Fitting(x, rows'[x].status, inbox', core'[x])
    <3>1. CASE inbox' = inbox BY <2>1, <2>3, <3>1
    <3>2. ASSUME NEW m \in Message, inbox' = Append(inbox, m), m.kind = "active"
          PROVE  Fitting(x, rows'[x].status, inbox', core'[x])
      <4>1. ~Speaks(m, x) BY <3>2 DEF Speaks
      <4> QED BY <1>2, <2>1, <2>3, <3>2, <4>1, FittingAppend
    <3> QED BY <1>1, <3>1, <3>2
  <2> QED BY <2>1, <2>2, <2>3, AgreesKept
<1>4. Agrees(op)'
  <2>1. Owed(op)' BY <1>1, <1>2 DEF Owed, Working
  <2> QED BY <2>1 DEF Agrees
<1> QED BY <1>3, <1>4 DEF Agreeing

LEMMA AgreeingWalks ==
  ASSUME Base, Agreeing, NEW p \in Process, Walks(p)
  PROVE  Agreeing'
<1>1. /\ UNCHANGED <<core, inbox>> /\ \A x \in Op : rows'[x].status = rows[x].status
      /\ Moved(proc, proc', p) /\ proc[p].at \notin InStopOne \cup {"invoke"}
  BY DEF Walks, SameStatuses, Free, InStopOne
<1>2. ASSUME NEW x \in Op PROVE Agrees(x)'
  <2>1. Agrees(x) /\ core'[x] = core[x] BY <1>1 DEF Agreeing
  <2>2. Owed(x) => Owed(x)' BY <1>1, <2>1, OwedKept
  <2>3. Fitting(x, rows[x].status, inbox, core[x]) => Fitting(x, rows'[x].status, inbox', core'[x])
    BY <1>1
  <2> QED BY <2>1, <2>2, <2>3, AgreesKept
<1> QED BY <1>2 DEF Agreeing

LEMMA AgreeingStops ==
  ASSUME Base, Agreeing, NEW p \in Process, NEW op \in Op, Stops(p, op)
  PROVE  Agreeing'
<1>1. /\ CoreOnly(op) /\ \A x \in Op : rows'[x].status = rows[x].status
      /\ Moved(proc, proc', p) /\ proc[p].at \notin InStopOne \cup {"invoke"} /\ proc'[p].op = op
      /\ inbox \in Seq(Message)
  BY DEF Stops, SameStatuses, Free, InStopOne, Base, Typed
<1>2. PICK m \in Message : inbox' = Append(inbox, m) /\ StopCalled(p, op, m) BY DEF Stops
<1>3. ASSUME NEW x \in Op PROVE Agrees(x)'
  <2>1. Agrees(x) BY DEF Agreeing
  <2>2. Owed(x) => Owed(x)' BY <1>1, <1>2, CalledOwes
  <2>3. ASSUME Fitting(x, rows[x].status, inbox, core[x])
        PROVE  Owed(x)' \/ Fitting(x, rows'[x].status, inbox', core'[x])
    <3>1. Owed(x)' \/ Fitting(x, rows[x].status, inbox', core'[x])
      BY <1>1, <1>2, <2>3, CalledFits
    <3> QED BY <1>1, <3>1
  <2> QED BY <2>1, <2>2, <2>3, AgreesKept
<1> QED BY <1>3 DEF Agreeing

LEMMA AgreeingClear ==
  ASSUME Base, Agreeing, ClearFinished
  PROVE  Agreeing'
<1>1. /\ UNCHANGED <<of, proc, core, inbox>>
      /\ \A x \in Op : rows[x].status \in Active => rows'[x] = rows[x]
      /\ \A x \in Op : rows[x].status \notin Active => rows'[x].status = "none"
  BY ClearDoes
<1>2. ASSUME NEW x \in Op PROVE Agrees(x)'
  <2>1. Agrees(x) BY DEF Agreeing
  <2>2. Owed(x) => Owed(x)' BY <1>1 DEF Owed
  <2>3. ASSUME Fitting(x, rows[x].status, inbox, core[x])
        PROVE  Fitting(x, rows'[x].status, inbox', core'[x])
    <3>1. CASE rows[x].status \in Active BY <1>1, <2>3, <3>1
    <3>2. CASE rows[x].status \notin Active
      <4>1. Fitting(x, "none", inbox, core[x]) BY <2>3, <3>2, FittingCleared
      <4> QED BY <1>1, <3>2, <4>1
    <3> QED BY <3>1, <3>2
  <2> QED BY <2>1, <2>2, <2>3, AgreesKept
<1> QED BY <1>2 DEF Agreeing

LEMMA AgreeingSame ==
  ASSUME Agreeing, UNCHANGED vars
  PROVE  Agreeing'
BY DEF Agreeing, Agrees, Owed, vars

LEMMA AgreeingInit == Init => Agreeing
<1> SUFFICES ASSUME Init, NEW op \in Op PROVE Agrees(op)
  BY DEF Agreeing
<1>1. inbox = <<>> /\ core[op] = Nothing /\ rows[op] = NoRow BY DEF Init
<1>2. Fits(rows[op].status, core[op]) BY <1>1 DEF Fits, Nothing, NoRow, Active
<1>3. Messages(inbox) = {} BY <1>1 DEF Messages
<1>4. Fitting(op, rows[op].status, inbox, core[op]) BY <1>2, <1>3, FittingSilent
<1> QED BY <1>4 DEF Agrees

LEMMA AgreeingNext == Base /\ Releasing /\ Halting /\ Agreeing /\ [Next]_vars => Agreeing'
<1> SUFFICES ASSUME Base, Releasing, Halting, Agreeing, [Next]_vars PROVE Agreeing'
  OBVIOUS
<1>1. ASSUME NEW p \in Process, Walks(p) \/ \E op \in Op : Stops(p, op) PROVE Agreeing'
  BY <1>1, AgreeingWalks, AgreeingStops
<1>2. ASSUME OnEvent \/ OnStarted \/ OnFailed \/ OnActive \/ OnList \/ OnStopped \/ OnRefused
      PROVE  Agreeing'
  BY <1>2, AgreeingOnEvent, AgreeingOnStarted, AgreeingOnActive, AgreeingOnOthers
<1> QED BY <1>1, <1>2, Steps, AgreeingStart, AgreeingStop, AgreeingBegin, AgreeingClear, AgreeingSame

LEMMA AgreeingHolds == Spec => [](Base /\ Agreeing)
<1> DEFINE Inv == Base /\ Releasing /\ Halting /\ Agreeing
<1>1. Init => Inv BY BaseInit, ReleasingInit, HaltingInit, AgreeingInit
<1>2. Inv /\ [Next]_vars => Inv' BY BaseNext, ReleasingNext, HaltingNext, AgreeingNext
<1> QED BY <1>1, <1>2, PTL DEF Spec

(* Once nothing is underway, a row is active exactly when its forward is,  *)
(* in the same state: no order in which events overtook answers leaves the *)
(* store with a status that the core has left behind.                      *)
THEOREM RowsAgreeAtLast == Spec => []RowsAgree
<1>1. Base /\ Agreeing => RowsAgree
  <2> SUFFICES ASSUME Base, Agreeing, Settled, NEW op \in Op,
                      rows[op].status \in Active \/ Serving(op)
               PROVE  Serving(op) /\ rows[op].status = core[op].status
    BY DEF RowsAgree
  <2>1. Messages(inbox) = {} BY DEF Settled, Messages
  <2>2. ~Owed(op)
    <3>1. ~Working(core[op]) BY DEF Settled, Working
    <3>2. ASSUME NEW p \in Starters, proc[p].op = op, proc[p].at = "invoke", core[op].start = "none"
          PROVE  FALSE
      BY <2>1, <3>2 DEF Base, Awaited
    <3> QED BY <3>1, <3>2 DEF Settled, Owed
  <2>3. Fitting(op, rows[op].status, inbox, core[op]) BY <2>2 DEF Agreeing, Agrees
  <2>4. Fits(rows[op].status, core[op]) BY <2>3 DEF Fitting, Settled
  <2> QED BY <2>4 DEF Fits, Serving
<1> QED BY <1>1, AgreeingHolds, PTL

=============================================================================
