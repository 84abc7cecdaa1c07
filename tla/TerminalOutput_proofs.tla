-------------------------- MODULE TerminalOutput_proofs --------------------------
(***************************************************************************)
(* Proofs about TerminalOutput, for every bound.                           *)
(*                                                                         *)
(* An event of the output is at each moment in one of five places, one     *)
(* behind the other: held by the Session (in its buffer or in the hands of *)
(* a flush that waits), on the wire, on its way to the page, on the screen *)
(* and acknowledged.  The invariant says, for a relation R between events, *)
(* that R holds between each event and all those behind it (Pipe).  For R  *)
(* "another one" (Apart) this is so always, and nothing is duplicated; for *)
(* R "an earlier one" (Below) it is so until output overtakes a flush, and *)
(* the screen is in order.  No place is lossy but as recorded (Conserved), *)
(* hence the end, once it is shown, has everything before it.              *)
(***************************************************************************)
EXTENDS TerminalOutput, Induction

LOCAL INSTANCE SequencesExt

(* What the relation of the pipe may be.                                   *)
Apart == {p \in Events \X Events : p[1] # p[2]}
Below == {p \in Events \X Events : p[1] < p[2]}

Precede(A, B, R) == \A a \in A, b \in B : <<a, b>> \in R
Sorted(s, R) == \A i, j \in DOMAIN s : i < j => <<s[i], s[j]>> \in R

(* What the loops em have in hand.                                         *)
InHand(em) == UNION {ToSet(em[i]) : i \in DOMAIN em}

Held == ToSet(core.buffered) \cup InHand(emitting)

(* R holds between each event and all those behind it: held by the Session *)
(* (h), on the wire (w), underway to the page (q), shown (s) or            *)
(* acknowledged (a).                                                       *)
Pipe(R, h, w, q, s, a) ==
  /\ Sorted(w, R) /\ Precede(ToSet(w), h, R)
  /\ Sorted(q, R) /\ Precede(ToSet(q), ToSet(w) \cup h, R)
  /\ Sorted(s, R) /\ Precede(ToSet(s) \cup ToSet(a), ToSet(q) \cup ToSet(w) \cup h, R)

InStep(R) == Pipe(R, Held, wire, ipc, screen, acks)

Straight == "overtaken" \notin slips

(* The events that there are: those of a Session that has written p chunks *)
(* and, if it is no longer listed, its end.                                *)
Known(p, listed) == {Connected} \cup 1..p \cup (IF listed THEN {} ELSE {Disconnected})

Typed ==
  /\ TypeOK
  /\ core.gated \in 0..produced
  /\ page.writing \in 0..Len(screen)
  /\ Held \cup ToSet(wire) \cup ToSet(ipc) \cup ToSet(screen) \cup ToSet(acks)
       \subseteq Known(produced, core.listed)

(* Each loop has its events in hand in order, and no other loop has them.  *)
Loops(em) ==
  /\ \A i \in DOMAIN em : Sorted(em[i], Below)
  /\ \A i, j \in DOMAIN em : i # j => Precede(ToSet(em[i]), ToSet(em[j]), Apart)

(* At most one loop still has events in hand.                              *)
Alone(em) == \A i, j \in DOMAIN em : em[i] # <<>> /\ em[j] # <<>> => i = j

(* The Session: what it buffers is behind what the loops have in hand.     *)
Gate ==
  /\ Sorted(core.buffered, Below)
  /\ Precede(InHand(emitting), ToSet(core.buffered), Below)
  /\ Loops(emitting)
  /\ Straight => Alone(emitting)
  /\ ~core.listed \/ (core.ready /\ ~core.paused) => core.buffered = <<>>

Conserved ==
  /\ page.attached \/ page.setup = "new" =>
       1..produced \subseteq ToSet(screen) \cup lost \cup ToSet(ipc) \cup ToSet(wire) \cup Held
  /\ page.status = "disconnected" =>
       ~core.listed /\ (Straight => 1..produced \subseteq ToSet(screen) \cup lost)

Base ==
  /\ Typed
  /\ Gate
  /\ InStep(Apart)
  /\ Straight => InStep(Below)
  /\ Conserved

(* The credits of TerminalFlow cover what is underway, and no more than    *)
(* that and what has come back; it reads only while they are few.          *)
Credits ==
  /\ ToSet(ipc) \subseteq flow.pending
  /\ flow.pending \subseteq ToSet(ipc) \cup ToSet(acks)
  /\ ~flow.paused => Cardinality(flow.pending) < FlowHigh
  /\ flow.awaitingRenderer => flow.paused /\ flow.pending = {}
  /\ Len(ipc) < FlowHigh + MaxBurst

(* The call that a controller has made last says what it believes, and the *)
(* Session is as the call that was served last says.                       *)
Believed ==
  /\ page.setup = "new" =>
       ~page.attached /\ ~page.retry /\ ~page.outputPaused /\ commands = <<>> /\ ~core.paused
  /\ \A i \in DOMAIN commands : i > 1 => commands[i].state = "sent"
  /\ page.retry => ~page.outputPaused /\ page.status # "connecting"
  /\ commands # <<>> /\ page.attached /\ "forgotten" \notin slips =>
       (page.outputPaused <=> commands[Len(commands)].paused)
  /\ commands # <<>> /\ core.listed /\ Head(commands).state = "done" =>
       core.paused = Head(commands).paused
  /\ commands = <<>> /\ page.attached /\ core.listed /\ "forgotten" \notin slips =>
       \/ core.paused = page.outputPaused
       \/ page.retry \/ page.status = "disconnected"

-----------------------------------------------------------------------------
(* Sequences, their elements, and the relation R along them.               *)

(* The elements of a concatenation are those of its two parts. *)
LEMMA ConcatElems ==
  ASSUME NEW s \in Seq(Events), NEW t \in Seq(Events)
  PROVE  ToSet(s \o t) = ToSet(s) \cup ToSet(t)
<1>1. DOMAIN (s \o t) = 1..(Len(s) + Len(t)) /\ DOMAIN s = 1..Len(s) /\ DOMAIN t = 1..Len(t)
  OBVIOUS
<1>2. \A i \in DOMAIN s : (s \o t)[i] = s[i] OBVIOUS
<1>3. \A i \in DOMAIN t : i + Len(s) \in DOMAIN (s \o t) /\ (s \o t)[i + Len(s)] = t[i]
  OBVIOUS
<1>4. \A i \in DOMAIN (s \o t) : i \in DOMAIN s \/ (i - Len(s) \in DOMAIN t
        /\ (s \o t)[i] = t[i - Len(s)])
  OBVIOUS
<1>5. ToSet(s \o t) \subseteq ToSet(s) \cup ToSet(t) BY <1>2, <1>4 DEF ToSet
<1>6. ToSet(s) \subseteq ToSet(s \o t) BY <1>1, <1>2 DEF ToSet
<1>7. ToSet(t) \subseteq ToSet(s \o t) BY <1>3 DEF ToSet
<1> QED BY <1>5, <1>6, <1>7

(* The first n elements and the rest are all there are. *)
LEMMA SplitElems ==
  ASSUME NEW s \in Seq(Events), NEW n \in 0..Len(s)
  PROVE  /\ SubSeq(s, 1, n) \in Seq(Events) /\ SubSeq(s, n + 1, Len(s)) \in Seq(Events)
         /\ ToSet(s) = ToSet(SubSeq(s, 1, n)) \cup ToSet(SubSeq(s, n + 1, Len(s)))
<1> DEFINE a == SubSeq(s, 1, n)
           b == SubSeq(s, n + 1, Len(s))
<1>1. /\ a \in Seq(Events) /\ Len(a) = n /\ DOMAIN a = 1..n
      /\ \A i \in 1..n : a[i] = s[i]
  OBVIOUS
<1>2. /\ b \in Seq(Events) /\ Len(b) = Len(s) - n /\ DOMAIN b = 1..(Len(s) - n)
      /\ \A i \in 1..(Len(s) - n) : b[i] = s[i + n]
  OBVIOUS
<1>3. Len(s) \in Nat /\ DOMAIN s = 1..Len(s) OBVIOUS
<1> HIDE DEF a, b
<1>4. \A i \in DOMAIN s : i \in 1..n \/ (i - n \in 1..(Len(s) - n) /\ b[i - n] = s[i])
  BY <1>2, <1>3
<1>5. ToSet(s) \subseteq ToSet(a) \cup ToSet(b) BY <1>1, <1>2, <1>4 DEF ToSet
<1>6. ToSet(a) \subseteq ToSet(s) BY <1>1, <1>3 DEF ToSet
<1>7. ToSet(b) \subseteq ToSet(s)
  <2>1. \A i \in DOMAIN b : i + n \in DOMAIN s /\ b[i] = s[i + n] BY <1>2, <1>3
  <2> QED BY <2>1 DEF ToSet
<1> QED BY <1>1, <1>2, <1>5, <1>6, <1>7 DEF a, b

(* The first element, and the rest. *)
LEMMA TailElems ==
  ASSUME NEW s \in Seq(Events), s # <<>>
  PROVE  /\ Head(s) \in Events /\ Tail(s) \in Seq(Events)
         /\ ToSet(s) = {Head(s)} \cup ToSet(Tail(s))
<1>1. Head(s) = s[1] /\ Tail(s) \in Seq(Events) /\ Len(s) \in Nat /\ Len(s) > 0
      /\ Len(Tail(s)) = Len(s) - 1 /\ \A i \in 1..(Len(s) - 1) : Tail(s)[i] = s[i + 1]
  OBVIOUS
<1>2. DOMAIN s = 1..Len(s) /\ DOMAIN Tail(s) = 1..(Len(s) - 1) OBVIOUS
<1> DEFINE t == Tail(s)
<1> HIDE DEF t
<1>3. \A i \in DOMAIN s : i = 1 \/ (i - 1 \in DOMAIN t /\ t[i - 1] = s[i])
  BY <1>1, <1>2 DEF t
<1>4. ToSet(s) \subseteq {Head(s)} \cup ToSet(t) BY <1>1, <1>3 DEF ToSet
<1>5. ToSet(t) \subseteq ToSet(s) BY <1>1, <1>2 DEF ToSet, t
<1>6. Head(s) \in ToSet(s) BY <1>1, <1>2 DEF ToSet
<1>7. Head(s) \in Events BY <1>1
<1> QED BY <1>1, <1>4, <1>5, <1>6, <1>7 DEF t

LEMMA AppendElems ==
  ASSUME NEW s \in Seq(Events), NEW e \in Events
  PROVE  Append(s, e) \in Seq(Events) /\ ToSet(Append(s, e)) = ToSet(s) \cup {e}
<1>1. Append(s, e) = s \o <<e>> /\ <<e>> \in Seq(Events) OBVIOUS
<1>2. ToSet(<<e>>) = {e} BY DEF ToSet
<1>3. Append(s, e) \in Seq(Events) OBVIOUS
<1> QED BY <1>1, <1>2, <1>3, ConcatElems

LEMMA ElemsOf ==
  ASSUME NEW s \in Seq(Events)
  PROVE  /\ ToSet(s) \subseteq Events
         /\ s = <<>> <=> ToSet(s) = {}
         /\ ToSet(<<>>) = {}
<1>1. DOMAIN s = 1..Len(s) /\ Len(s) \in Nat OBVIOUS
<1>2. s # <<>> => 1 \in DOMAIN s OBVIOUS
<1>3. ToSet(s) \subseteq Events BY <1>1 DEF ToSet
<1>4. ToSet(<<>>) = {} BY DEF ToSet
<1> QED BY <1>2, <1>3, <1>4 DEF ToSet

(* Two sequences in order make one, if the first goes before the second. *)
LEMMA SortedConcat ==
  ASSUME NEW R, NEW s \in Seq(Events), NEW t \in Seq(Events),
         Sorted(s, R), Sorted(t, R), Precede(ToSet(s), ToSet(t), R)
  PROVE  Sorted(s \o t, R)
<1> DEFINE u == s \o t
<1>1. DOMAIN u = 1..(Len(s) + Len(t)) /\ DOMAIN s = 1..Len(s) /\ DOMAIN t = 1..Len(t)
      /\ Len(s) \in Nat /\ Len(t) \in Nat
  OBVIOUS
<1>2. \A i \in DOMAIN s : u[i] = s[i] OBVIOUS
<1>3. \A i \in DOMAIN u : i \notin DOMAIN s => i - Len(s) \in DOMAIN t
        /\ u[i] = t[i - Len(s)]
  OBVIOUS
<1> HIDE DEF u
<1>4. SUFFICES ASSUME NEW i \in DOMAIN u, NEW j \in DOMAIN u, i < j
               PROVE  <<u[i], u[j]>> \in R
  BY DEF Sorted, u
<1>5. CASE j \in DOMAIN s BY <1>1, <1>2, <1>4, <1>5 DEF Sorted
<1>6. CASE i \notin DOMAIN s
  <2>1. j \notin DOMAIN s BY <1>1, <1>4, <1>6
  <2> QED BY <1>1, <1>3, <1>4, <1>6, <2>1 DEF Sorted
<1>7. CASE i \in DOMAIN s /\ j \notin DOMAIN s
  <2>1. u[i] \in ToSet(s) /\ u[j] \in ToSet(t) BY <1>2, <1>3, <1>7 DEF ToSet
  <2> QED BY <2>1 DEF Precede
<1> QED BY <1>5, <1>6, <1>7

(* A sequence in order consists of two, the first before the second. *)
LEMMA SortedSplit ==
  ASSUME NEW R, NEW s \in Seq(Events), NEW n \in 0..Len(s), Sorted(s, R)
  PROVE  /\ Sorted(SubSeq(s, 1, n), R) /\ Sorted(SubSeq(s, n + 1, Len(s)), R)
         /\ Precede(ToSet(SubSeq(s, 1, n)), ToSet(SubSeq(s, n + 1, Len(s))), R)
<1> DEFINE a == SubSeq(s, 1, n)
           b == SubSeq(s, n + 1, Len(s))
<1>1. DOMAIN a = 1..n /\ \A i \in 1..n : a[i] = s[i] OBVIOUS
<1>2. DOMAIN b = 1..(Len(s) - n) /\ \A i \in 1..(Len(s) - n) : b[i] = s[i + n] OBVIOUS
<1>3. Len(s) \in Nat /\ DOMAIN s = 1..Len(s) OBVIOUS
<1> HIDE DEF a, b
<1>4. Sorted(a, R) BY <1>1, <1>3 DEF Sorted
<1>5. Sorted(b, R) BY <1>2, <1>3 DEF Sorted
<1>6. ASSUME NEW x \in ToSet(a), NEW y \in ToSet(b) PROVE <<x, y>> \in R
  <2>1. PICK i \in 1..n : x = s[i] BY <1>1, <1>6 DEF ToSet
  <2>2. PICK j \in 1..(Len(s) - n) : y = s[j + n] BY <1>2, <1>6 DEF ToSet
  <2>3. i \in DOMAIN s /\ j + n \in DOMAIN s /\ i < j + n BY <1>3
  <2> QED BY <2>1, <2>2, <2>3 DEF Sorted
<1> QED BY <1>4, <1>5, <1>6 DEF Precede, a, b

LEMMA SortedTail ==
  ASSUME NEW R, NEW s \in Seq(Events), s # <<>>, Sorted(s, R)
  PROVE  Sorted(Tail(s), R) /\ Precede({Head(s)}, ToSet(Tail(s)), R)
<1> DEFINE t == Tail(s)
<1>1. Len(s) \in Nat /\ Len(s) > 0 /\ DOMAIN s = 1..Len(s) /\ Head(s) = s[1]
  OBVIOUS
<1>2. DOMAIN t = 1..(Len(s) - 1) /\ \A i \in 1..(Len(s) - 1) : t[i] = s[i + 1]
  OBVIOUS
<1> HIDE DEF t
<1>3. \A i \in DOMAIN t : i + 1 \in DOMAIN s /\ 1 < i + 1 BY <1>1, <1>2
<1>4. Sorted(t, R) BY <1>1, <1>2, <1>3 DEF Sorted
<1>5. \A i \in DOMAIN t : <<Head(s), t[i]>> \in R BY <1>1, <1>2, <1>3 DEF Sorted
<1> QED BY <1>4, <1>5 DEF Precede, ToSet, t

LEMMA SortedShort ==
  ASSUME NEW R
  PROVE  Sorted(<<>>, R) /\ \A e : Sorted(<<e>>, R)
<1>1. DOMAIN <<>> = {} OBVIOUS
<1>2. \A e : DOMAIN <<e>> = {1} OBVIOUS
<1> QED BY <1>1, <1>2 DEF Sorted

(* What is in order is without repetition, and not longer than there are   *)
(* elements.                                                               *)
LEMMA BelowIsApart == Below \subseteq Apart
  BY DEF Below, Apart, Events, Connected, Disconnected

LEMMA SortedApart ==
  ASSUME NEW s, Sorted(s, Below)
  PROVE  Sorted(s, Apart)
  BY BelowIsApart DEF Sorted

LEMMA PrecedeApart ==
  ASSUME NEW A, NEW B, Precede(A, B, Below)
  PROVE  Precede(A, B, Apart)
  BY BelowIsApart DEF Precede

LEMMA ShortEnough ==
  ASSUME NEW T, IsFiniteSet(T), NEW s \in Seq(T), Sorted(s, Apart)
  PROVE  Len(s) <= Cardinality(T)
<1>1. Len(s) \in Nat /\ DOMAIN s = 1..Len(s) /\ s \in [1..Len(s) -> T] OBVIOUS
<1>2. ASSUME NEW i \in 1..Len(s), NEW j \in 1..Len(s), s[i] = s[j] PROVE i = j
  <2>1. ~(i < j) BY <1>1, <1>2 DEF Sorted, Apart
  <2>2. ~(j < i) BY <1>1, <1>2 DEF Sorted, Apart
  <2> QED BY <2>1, <2>2
<1> QED BY <1>1, <1>2, NoRepetition

LEMMA PrecedeParts ==
  ASSUME NEW R, NEW A, NEW B, Precede(A, B, R),
         NEW C, C \subseteq A, NEW D, D \subseteq B
  PROVE  Precede(C, D, R)
  BY DEF Precede

-----------------------------------------------------------------------------
(* The pipe, whatever R.                                                   *)

(* The Session emits now and keeps g, from what it held and what is new.   *)
LEMMA PipeEmits ==
  ASSUME NEW R, NEW h, NEW g, NEW new,
         NEW w \in Seq(Events), NEW q \in Seq(Events), NEW s \in Seq(Events),
         NEW a \in Seq(Events), NEW now \in Seq(Events),
         Pipe(R, h, w, q, s, a),
         Sorted(now, R), Precede(ToSet(now), g, R),
         ToSet(now) \cup g \subseteq h \cup new,
         Precede(ToSet(w) \cup ToSet(q) \cup ToSet(s) \cup ToSet(a), new, R)
  PROVE  Pipe(R, g, w \o now, q, s, a)
<1> DEFINE W == ToSet(w)
           Q == ToSet(q)
           Z == ToSet(s) \cup ToSet(a)
           N == ToSet(now)
<1>1. ToSet(w \o now) = W \cup N BY ConcatElems
<1>2. /\ Precede(W, h, R) /\ Precede(Q, W \cup h, R) /\ Precede(Z, Q \cup W \cup h, R)
      /\ Precede(W \cup Q \cup ToSet(s) \cup ToSet(a), new, R) /\ Precede(N, g, R)
      /\ N \cup g \subseteq h \cup new
  BY DEF Pipe
<1> HIDE DEF W, Q, Z, N
<1>3. Precede(W, N \cup g, R) BY <1>2 DEF Precede
<1>4. Precede(Q, (W \cup N) \cup g, R) BY <1>2 DEF Precede
<1>5. Precede(Z, Q \cup (W \cup N) \cup g, R) BY <1>2 DEF Precede, Z
<1>6. Precede(W \cup N, g, R) BY <1>2, <1>3 DEF Precede
<1>7. Sorted(w \o now, R)
  <2>1. Precede(ToSet(w), ToSet(now), R) BY <1>3 DEF Precede, W, N
  <2>2. Sorted(w, R) BY DEF Pipe
  <2> QED BY <2>1, <2>2, SortedConcat
<1>8. Sorted(q, R) /\ Sorted(s, R) BY DEF Pipe
<1> QED BY <1>1, <1>4, <1>5, <1>6, <1>7, <1>8 DEF Pipe, W, Q, Z, N

(* Main reads n events and sends them to the page. *)
LEMMA PipePush ==
  ASSUME NEW R, NEW h,
         NEW w \in Seq(Events), NEW q \in Seq(Events), NEW s \in Seq(Events),
         NEW a \in Seq(Events), NEW n \in 0..Len(w),
         Pipe(R, h, w, q, s, a)
  PROVE  Pipe(R, h, SubSeq(w, n + 1, Len(w)), q \o SubSeq(w, 1, n), s, a)
<1> DEFINE b == SubSeq(w, 1, n)
           c == SubSeq(w, n + 1, Len(w))
<1>1. b \in Seq(Events) /\ c \in Seq(Events) /\ ToSet(w) = ToSet(b) \cup ToSet(c)
  BY SplitElems
<1>2. Sorted(b, R) /\ Sorted(c, R) /\ Precede(ToSet(b), ToSet(c), R)
  BY SortedSplit DEF Pipe
<1> HIDE DEF b, c
<1>3. ToSet(q \o b) = ToSet(q) \cup ToSet(b) BY <1>1, ConcatElems
<1>4. Precede(ToSet(c), h, R) BY <1>1 DEF Pipe, Precede
<1>5. Precede(ToSet(q) \cup ToSet(b), ToSet(c) \cup h, R)
  BY <1>1, <1>2 DEF Pipe, Precede
<1>6. Precede(ToSet(s) \cup ToSet(a), (ToSet(q) \cup ToSet(b)) \cup ToSet(c) \cup h, R)
  BY <1>1 DEF Pipe, Precede
<1>7. Sorted(q \o b, R)
  <2>1. Precede(ToSet(q), ToSet(b), R) BY <1>1 DEF Pipe, Precede
  <2>2. Sorted(q, R) BY DEF Pipe
  <2> QED BY <1>1, <1>2, <2>1, <2>2, SortedConcat
<1>8. Sorted(s, R) BY DEF Pipe
<1> QED BY <1>2, <1>3, <1>4, <1>5, <1>6, <1>7, <1>8 DEF Pipe, b, c

(* The page receives the next event, and perhaps shows it. *)
LEMMA PipeDispatch ==
  ASSUME NEW R, NEW h,
         NEW w \in Seq(Events), NEW q \in Seq(Events), NEW s \in Seq(Events),
         NEW a \in Seq(Events), q # <<>>,
         Pipe(R, h, w, q, s, a)
  PROVE  /\ Pipe(R, h, w, Tail(q), s, Append(a, Head(q)))
         /\ Pipe(R, h, w, Tail(q), Append(s, Head(q)), Append(a, Head(q)))
<1> DEFINE e == Head(q)
           r == Tail(q)
<1>1. e \in Events /\ r \in Seq(Events) /\ ToSet(q) = {e} \cup ToSet(r) BY TailElems
<1>2. Sorted(r, R) /\ Precede({e}, ToSet(r), R) BY SortedTail DEF Pipe
<1> HIDE DEF e, r
<1>3. ToSet(Append(a, e)) = ToSet(a) \cup {e} /\ ToSet(Append(s, e)) = ToSet(s) \cup {e}
  BY <1>1, AppendElems
<1>4. Precede(ToSet(r), ToSet(w) \cup h, R) BY <1>1 DEF Pipe, Precede
<1>5. Precede(ToSet(s) \cup ToSet(a) \cup {e}, ToSet(r) \cup ToSet(w) \cup h, R)
  BY <1>1, <1>2 DEF Pipe, Precede
<1>6. Precede(ToSet(s), {e}, R) BY <1>1 DEF Pipe, Precede
<1>7. Sorted(Append(s, e), R)
  <2>1. Append(s, e) = s \o <<e>> /\ <<e>> \in Seq(Events) BY <1>1
  <2>2. ToSet(<<e>>) = {e} BY DEF ToSet
  <2>3. Sorted(s, R) BY DEF Pipe
  <2> QED BY <1>6, <2>1, <2>2, <2>3, SortedShort, SortedConcat
<1>8. Sorted(s, R) /\ Sorted(w, R) /\ Precede(ToSet(w), h, R) BY DEF Pipe
<1>9. Precede(ToSet(s) \cup (ToSet(a) \cup {e}), ToSet(r) \cup ToSet(w) \cup h, R)
  BY <1>5 DEF Precede
<1>10. Precede((ToSet(s) \cup {e}) \cup (ToSet(a) \cup {e}), ToSet(r) \cup ToSet(w) \cup h, R)
  BY <1>5 DEF Precede
<1> QED BY <1>2, <1>3, <1>4, <1>7, <1>8, <1>9, <1>10 DEF Pipe, e, r

(* An acknowledgement is taken, or the page goes with what was underway.   *)
LEMMA PipeFewer ==
  ASSUME NEW R, NEW h,
         NEW w \in Seq(Events), NEW q \in Seq(Events), NEW s \in Seq(Events),
         NEW a \in Seq(Events),
         Pipe(R, h, w, q, s, a)
  PROVE  /\ Pipe(R, h, w, <<>>, s, a)
         /\ a # <<>> => Pipe(R, h, w, q, s, Tail(a))
<1>1. ToSet(<<>>) = {} /\ Sorted(<<>>, R) BY ElemsOf, SortedShort
<1>2. a # <<>> => ToSet(Tail(a)) \subseteq ToSet(a) BY TailElems
<1>3. Pipe(R, h, w, <<>>, s, a) BY <1>1 DEF Pipe, Precede
<1>4. ASSUME a # <<>> PROVE Pipe(R, h, w, q, s, Tail(a))
  BY <1>2, <1>4 DEF Pipe, Precede
<1> QED BY <1>3, <1>4

-----------------------------------------------------------------------------
(* Emitting.                                                               *)

LEMMA InHandOf ==
  ASSUME NEW em \in Seq(Seq(Events))
  PROVE  /\ InHand(em) \subseteq Events
         /\ \A i \in DOMAIN em : em[i] \in Seq(Events) /\ ToSet(em[i]) \subseteq InHand(em)
         /\ InHand(em) = {} <=> \A i \in DOMAIN em : em[i] = <<>>
<1>1. \A i \in DOMAIN em : em[i] \in Seq(Events) OBVIOUS
<1>2. \A i \in DOMAIN em : ToSet(em[i]) \subseteq Events /\ (em[i] = <<>> <=> ToSet(em[i]) = {})
  BY <1>1, ElemsOf
<1> QED BY <1>1, <1>2 DEF InHand

LEMMA InHandAppend ==
  ASSUME NEW em \in Seq(Seq(Events)), NEW l \in Seq(Events)
  PROVE  /\ Append(em, l) \in Seq(Seq(Events))
         /\ InHand(Append(em, l)) = InHand(em) \cup ToSet(l)
<1> DEFINE f == Append(em, l)
<1>1. f \in Seq(Seq(Events)) OBVIOUS
<1>2. /\ DOMAIN em = 1..Len(em) /\ Len(em) \in Nat /\ DOMAIN f = 1..(Len(em) + 1)
      /\ f[Len(em) + 1] = l /\ \A i \in 1..Len(em) : f[i] = em[i]
  OBVIOUS
<1> HIDE DEF f
<1>3. \A i \in DOMAIN f : i \in DOMAIN em \/ i = Len(em) + 1 BY <1>2
<1>4. InHand(f) \subseteq InHand(em) \cup ToSet(l) BY <1>2, <1>3 DEF InHand
<1>5. InHand(em) \subseteq InHand(f)
  <2>1. \A i \in DOMAIN em : i \in DOMAIN f /\ f[i] = em[i] BY <1>2
  <2> QED BY <2>1 DEF InHand
<1>6. ToSet(l) \subseteq InHand(f)
  <2>1. Len(em) + 1 \in DOMAIN f /\ f[Len(em) + 1] = l BY <1>2
  <2> QED BY <2>1 DEF InHand
<1> QED BY <1>1, <1>4, <1>5, <1>6 DEF f

LEMMA InHandTail ==
  ASSUME NEW em \in Seq(Seq(Events)), em # <<>>
  PROVE  /\ Tail(em) \in Seq(Seq(Events)) /\ Head(em) \in Seq(Events)
         /\ InHand(em) = ToSet(Head(em)) \cup InHand(Tail(em))
         /\ DOMAIN Tail(em) = 1..(Len(em) - 1) /\ DOMAIN em = 1..Len(em) /\ Len(em) \in Nat
         /\ Head(em) = em[1] /\ 1 \in DOMAIN em
         /\ \A i \in DOMAIN Tail(em) : i + 1 \in DOMAIN em /\ Tail(em)[i] = em[i + 1]
<1> DEFINE f == Tail(em)
<1>1. /\ f \in Seq(Seq(Events)) /\ Head(em) = em[1] /\ em[1] \in Seq(Events)
      /\ DOMAIN f = 1..(Len(em) - 1) /\ DOMAIN em = 1..Len(em) /\ Len(em) \in Nat /\ Len(em) > 0
  OBVIOUS
<1>2. \A i \in 1..(Len(em) - 1) : f[i] = em[i + 1] OBVIOUS
<1> HIDE DEF f
<1>3. \A i \in DOMAIN f : i + 1 \in DOMAIN em /\ f[i] = em[i + 1]
  <2>1. \A i \in DOMAIN f : i \in 1..(Len(em) - 1) /\ i + 1 \in 1..Len(em) BY <1>1
  <2> QED BY <1>1, <1>2, <2>1
<1>4. \A i \in DOMAIN em : i = 1 \/ (i - 1 \in DOMAIN f /\ f[i - 1] = em[i]) BY <1>1, <1>2
<1>5. InHand(em) \subseteq ToSet(em[1]) \cup InHand(f) BY <1>1, <1>4 DEF InHand
<1>6. InHand(f) \subseteq InHand(em) BY <1>3 DEF InHand
<1>7. ToSet(em[1]) \subseteq InHand(em)
  <2>1. 1 \in DOMAIN em BY <1>1
  <2> QED BY <2>1 DEF InHand
<1> QED BY <1>1, <1>3, <1>5, <1>6, <1>7 DEF f

(* What is emitted now of events, and what others hold afterwards.         *)
Emission(now, events, others) ==
  /\ now \in Seq(Events) /\ wire' = wire \o now
  /\ slips' = slips \cup Overtakes(now, others)
  /\ emitting' \in Seq(Seq(Events)) /\ Loops(emitting')
  /\ ToSet(now) \cup InHand(emitting') = ToSet(events) \cup InHand(others)
  /\ Sorted(now, Below) /\ Precede(ToSet(now), InHand(emitting'), Apart)
  /\ now = <<>> => events = <<>>
  /\ events = <<>> \/ InHand(others) = {} => Precede(ToSet(now), InHand(emitting'), Below)
  /\ Alone(others) /\ (events = <<>> \/ InHand(others) = {}) => Alone(emitting')

LEMMA WrittenOf ==
  ASSUME NEW events \in Seq(Events), wire \in Seq(Events)
  PROVE  /\ Written(events) \in 0..Len(events)
         /\ events # <<>> => Written(events) > 0
<1>1. WireCap \in Nat /\ Len(wire) \in Nat /\ Len(events) \in Nat BY OutputAssumption
<1>2. events # <<>> => Len(events) > 0 OBVIOUS
<1> DEFINE room == IF Len(wire) < WireCap THEN WireCap - Len(wire) ELSE 1
<1>3. room \in Nat /\ room > 0 BY <1>1
<1>4. Written(events) = IF Len(events) < room THEN Len(events) ELSE room BY DEF Written
<1> HIDE DEF room
<1> QED BY <1>1, <1>2, <1>3, <1>4

(* A loop that emits the first of its events, and keeps the rest.          *)
LEMMA EmitsSo ==
  ASSUME NEW events \in Seq(Events), NEW others \in Seq(Seq(Events)), wire \in Seq(Events),
         Emits(events, others),
         Sorted(events, Below), Loops(others), Precede(InHand(others), ToSet(events), Apart)
  PROVE  \E now : Emission(now, events, others)
<1> DEFINE n == Written(events)
           now == SubSeq(events, 1, n)
           rest == SubSeq(events, n + 1, Len(events))
<1>1. n \in 0..Len(events) /\ (events # <<>> => n > 0) BY WrittenOf
<1>2. now \in Seq(Events) /\ rest \in Seq(Events) /\ ToSet(events) = ToSet(now) \cup ToSet(rest)
  BY <1>1, SplitElems
<1>3. Sorted(now, Below) /\ Sorted(rest, Below) /\ Precede(ToSet(now), ToSet(rest), Below)
  BY <1>1, SortedSplit
<1>4. now = <<>> => events = <<>>
  <2>1. Len(now) = n BY <1>1
  <2> QED BY <1>1, <2>1
<1>5. /\ wire' = wire \o now
      /\ slips' = slips \cup Overtakes(now, others)
      /\ \/ emitting' = Append(others, rest) /\ events # <<>>
         \/ emitting' = others /\ ToSet(rest) = {}
  <2>1. CASE Waits(events) BY <2>1 DEF Emits, Waits
  <2>2. CASE ~Waits(events)
    <3>1. events = <<>> \/ Len(wire) + n < WireCap
      BY <2>2, WrittenOf, OutputAssumption DEF Waits
    <3>2. Len(wire) \in Nat /\ Len(events) \in Nat /\ WireCap \in Nat BY OutputAssumption
    <3>3. n = Len(events)
      <4>1. CASE events = <<>> BY <1>1, <4>1
      <4>2. CASE Len(wire) + n < WireCap
        <5>1. n = IF Len(events) < (IF Len(wire) < WireCap THEN WireCap - Len(wire) ELSE 1)
                  THEN Len(events) ELSE (IF Len(wire) < WireCap THEN WireCap - Len(wire) ELSE 1)
          BY DEF Written
        <5>2. n \in Nat BY <1>1
        <5> HIDE DEF n
        <5> QED BY <3>2, <4>2, <5>1, <5>2
      <4> QED BY <3>1, <4>1, <4>2
    <3>4. rest = <<>> BY <3>2, <3>3
    <3>5. ToSet(rest) = {} BY <3>4, ElemsOf
    <3> QED BY <2>2, <3>5 DEF Emits
  <2> QED BY <2>1, <2>2
<1> HIDE DEF n, now, rest
<1>6. emitting' \in Seq(Seq(Events)) /\ InHand(emitting') = InHand(others) \cup ToSet(rest)
  BY <1>2, <1>5, InHandAppend
<1>7. Precede(ToSet(now), InHand(emitting'), Apart)
  <2>1. Precede(ToSet(now), ToSet(rest), Apart) BY <1>3, PrecedeApart
  <2>2. Precede(ToSet(now), InHand(others), Apart)
    BY <1>2 DEF Precede, Apart
  <2> QED BY <1>6, <2>1, <2>2 DEF Precede
<1>8. ASSUME events = <<>> \/ InHand(others) = {}
      PROVE  Precede(ToSet(now), InHand(emitting'), Below)
  <2>1. ToSet(now) = {} \/ InHand(others) = {} BY <1>2, <1>8, ElemsOf
  <2> QED BY <1>3, <1>6, <2>1 DEF Precede
<1>9. Loops(emitting')
  <2>1. CASE emitting' = others BY <2>1
  <2>2. CASE emitting' = Append(others, rest)
    <3>1. /\ DOMAIN emitting' = 1..(Len(others) + 1) /\ DOMAIN others = 1..Len(others)
          /\ Len(others) \in Nat /\ emitting'[Len(others) + 1] = rest
          /\ \A i \in 1..Len(others) : emitting'[i] = others[i]
      BY <1>2, <2>2
    <3>2. \A i \in DOMAIN emitting' : Sorted(emitting'[i], Below)
      BY <1>3, <3>1 DEF Loops
    <3>3. ASSUME NEW i \in DOMAIN emitting', NEW j \in DOMAIN emitting', i # j
          PROVE  Precede(ToSet(emitting'[i]), ToSet(emitting'[j]), Apart)
      <4>1. CASE i \in DOMAIN others /\ j \in DOMAIN others BY <3>1, <3>3, <4>1 DEF Loops
      <4>2. ASSUME NEW k \in DOMAIN others
            PROVE  Precede(ToSet(others[k]), ToSet(rest), Apart)
                   /\ Precede(ToSet(rest), ToSet(others[k]), Apart)
        <5>1. ToSet(others[k]) \subseteq InHand(others) BY <4>2, InHandOf
        <5>2. ToSet(others[k]) \subseteq Events /\ ToSet(rest) \subseteq Events
          BY <1>2, <4>2, InHandOf, ElemsOf
        <5> QED BY <1>2, <5>1, <5>2 DEF Precede, Apart
      <4>3. CASE i \notin DOMAIN others
        <5>1. emitting'[i] = rest /\ j \in DOMAIN others /\ emitting'[j] = others[j]
          BY <3>1, <3>3, <4>3
        <5> QED BY <4>2, <5>1
      <4>4. CASE j \notin DOMAIN others
        <5>1. j = Len(others) + 1 BY <3>1, <3>3, <4>4
        <5>2. i \in DOMAIN others BY <3>1, <3>3, <5>1
        <5>3. emitting'[j] = rest /\ emitting'[i] = others[i] BY <3>1, <5>1, <5>2
        <5> QED BY <4>2, <5>2, <5>3
      <4> QED BY <4>1, <4>3, <4>4
    <3> QED BY <3>2, <3>3 DEF Loops
  <2> QED BY <1>5, <2>1, <2>2
<1>10. ASSUME Alone(others), events = <<>> \/ InHand(others) = {}
       PROVE  Alone(emitting')
  <2>1. CASE emitting' = others BY <1>10, <2>1
  <2>2. CASE emitting' = Append(others, rest) /\ events # <<>>
    <3>1. \A i \in DOMAIN others : others[i] = <<>> BY <1>10, <2>2, InHandOf
    <3>2. /\ DOMAIN emitting' = 1..(Len(others) + 1) /\ DOMAIN others = 1..Len(others)
          /\ Len(others) \in Nat
          /\ \A i \in 1..Len(others) : emitting'[i] = others[i]
      BY <1>2, <2>2
    <3>3. \A i \in DOMAIN emitting' : emitting'[i] # <<>> => i = Len(others) + 1
      BY <3>1, <3>2
    <3> QED BY <3>3 DEF Alone
  <2> QED BY <1>5, <2>1, <2>2
<1>11. ToSet(now) \cup InHand(emitting') = ToSet(events) \cup InHand(others)
  BY <1>2, <1>6
<1>12. Emission(now, events, others)
  BY <1>2, <1>3, <1>4, <1>5, <1>6, <1>7, <1>8, <1>9, <1>10, <1>11 DEF Emission
<1> QED BY <1>12

(* Nothing is overtaken while an older loop has events in hand, unless     *)
(* nothing is emitted.                                                     *)
LEMMA Overtaking ==
  ASSUME NEW now \in Seq(Events), NEW others \in Seq(Seq(Events)),
         Precede(InHand(others), ToSet(now), Below),
         "overtaken" \notin slips \cup Overtakes(now, others)
  PROVE  "overtaken" \notin slips /\ (now = <<>> \/ InHand(others) = {})
<1>1. Overtakes(now, others) # {"overtaken"} OBVIOUS
<1>2. ~ \E i \in DOMAIN others : \E old \in ToSet(others[i]), new \in ToSet(now) : old < new
  BY <1>1 DEF Overtakes
<1>3. SUFFICES ASSUME now # <<>>, InHand(others) # {} PROVE FALSE OBVIOUS
<1>4. PICK new \in ToSet(now) : TRUE BY <1>3, ElemsOf
<1>5. PICK i \in DOMAIN others : others[i] # <<>> BY <1>3, InHandOf
<1>6. others[i] \in Seq(Events) /\ ToSet(others[i]) \subseteq InHand(others) BY <1>5, InHandOf
<1>7. PICK old \in ToSet(others[i]) : TRUE BY <1>5, <1>6, ElemsOf
<1>8. old < new BY <1>4, <1>6, <1>7 DEF Precede, Below
<1> QED BY <1>2, <1>4, <1>5, <1>7, <1>8

-----------------------------------------------------------------------------
(* The steps of the Session.                                               *)

Session == [listed : BOOLEAN, ready : BOOLEAN, paused : BOOLEAN,
            buffered : Seq(Chunks), gated : 0..MaxChunks]

(* The Session and its loops emit now; new is what there was not before.   *)
Moves(now, new) ==
  /\ now \in Seq(Events) /\ wire' = wire \o now
  /\ ToSet(now) \cup Held' \subseteq Held \cup new
  /\ Held \cup new \subseteq ToSet(now) \cup Held' \cup lost'
  /\ Known(produced', core'.listed) = Known(produced, core.listed) \cup new
  /\ Precede(Known(produced, core.listed), new, Below)
  /\ Sorted(now, Below) /\ Precede(ToSet(now), Held', Apart)
  /\ slips \subseteq slips'
  /\ Straight' => Precede(ToSet(now), Held', Below)
  /\ lost \subseteq lost'

(* What a step of the Session leaves alone.                                *)
Elsewhere ==
  /\ UNCHANGED <<ipc, acks, screen>>
  /\ page'.attached = page.attached /\ page'.status = page.status
  /\ page'.setup = "new" => page.setup = "new"

LEMMA Numbers ==
  /\ MaxChunks \in Nat /\ Connected \in Events /\ Disconnected \in Events
  /\ Chunks \subseteq Events /\ Chunks \subseteq Nat /\ Events \subseteq Nat
  /\ \A p \in 0..MaxChunks : \A l \in BOOLEAN : Known(p, l) \subseteq Events
  BY OutputAssumption DEF Chunks, Connected, Disconnected, Events, Known

LEMMA TypesOf ==
  ASSUME Typed
  PROVE  /\ produced \in 0..MaxChunks /\ core \in Session
         /\ emitting \in Seq(Seq(Events)) /\ wire \in Seq(Events)
         /\ ipc \in Seq(Events) /\ acks \in Seq(Events)
         /\ screen \in Seq(Chunks) /\ screen \in Seq(Events)
         /\ core.buffered \in Seq(Chunks) /\ core.buffered \in Seq(Events)
         /\ lost \subseteq Chunks
<1>1. /\ produced \in 0..MaxChunks /\ core \in Session
      /\ emitting \in Seq(Seq(Events)) /\ wire \in Seq(Events)
      /\ ipc \in Seq(Events) /\ acks \in Seq(Events)
      /\ screen \in Seq(Chunks) /\ lost \subseteq Chunks
  BY DEF Typed, TypeOK, Session
<1>2. core.buffered \in Seq(Chunks) BY <1>1 DEF Session
<1>3. ASSUME NEW s \in Seq(Chunks) PROVE s \in Seq(Events)
  <2>1. Chunks \subseteq Events BY Numbers
  <2> HIDE DEF Chunks, Events
  <2> QED BY <2>1
<1> QED BY <1>1, <1>2, <1>3

LEMMA MovesPipe ==
  ASSUME Base, NEW now, NEW new, Moves(now, new), Elsewhere
  PROVE  InStep(Apart)' /\ (Straight' => InStep(Below)')
<1> DEFINE past == ToSet(wire) \cup ToSet(ipc) \cup ToSet(screen) \cup ToSet(acks)
<1>1. /\ wire \in Seq(Events) /\ ipc \in Seq(Events) /\ acks \in Seq(Events)
      /\ screen \in Seq(Events) /\ now \in Seq(Events)
  BY TypesOf DEF Base, Moves
<1>2. ToSet(screen) \cup ToSet(acks) \cup ToSet(ipc) \cup ToSet(wire)
        \subseteq Known(produced, core.listed)
  BY DEF Base, Typed
<1>3. Precede(past, new, Below)
  BY <1>2 DEF Moves, Precede
<1>4. Precede(past, new, Apart) BY <1>3, PrecedeApart
<1>5. Sorted(now, Apart) BY SortedApart DEF Moves
<1> HIDE DEF past
<1>6. /\ Precede(ToSet(now), Held', Apart) /\ ToSet(now) \cup Held' \subseteq Held \cup new
      /\ Sorted(now, Below) /\ (Straight' => Precede(ToSet(now), Held', Below))
      /\ wire' = wire \o now /\ ipc' = ipc /\ acks' = acks /\ screen' = screen
  BY DEF Moves, Elsewhere
<1>7. InStep(Apart)'
  <2>1. Pipe(Apart, Held, wire, ipc, screen, acks) BY DEF Base, InStep
  <2>2. Pipe(Apart, Held', wire \o now, ipc, screen, acks)
    BY <1>1, <1>4, <1>5, <1>6, <2>1, PipeEmits DEF past
  <2> QED BY <1>6, <2>2 DEF InStep
<1>8. ASSUME Straight' PROVE InStep(Below)'
  <2>1. Straight BY <1>8 DEF Straight, Moves
  <2>2. Pipe(Below, Held, wire, ipc, screen, acks) BY <2>1 DEF Base, InStep
  <2>3. Pipe(Below, Held', wire \o now, ipc, screen, acks)
    BY <1>1, <1>3, <1>6, <1>8, <2>2, PipeEmits DEF past
  <2> QED BY <1>6, <2>3 DEF InStep
<1> QED BY <1>7, <1>8

LEMMA MovesKnown ==
  ASSUME Base, NEW now, NEW new, Moves(now, new), Elsewhere
  PROVE  (Held \cup ToSet(wire) \cup ToSet(ipc) \cup ToSet(screen) \cup ToSet(acks)
            \subseteq Known(produced, core.listed))'
<1>1. wire \in Seq(Events) /\ now \in Seq(Events) BY TypesOf DEF Base, Moves
<1>2. ToSet(wire') = ToSet(wire) \cup ToSet(now) BY <1>1, ConcatElems DEF Moves
<1>3. ToSet(now) \cup Held' \subseteq Held \cup new
      /\ Known(produced', core'.listed) = Known(produced, core.listed) \cup new
      /\ ipc' = ipc /\ screen' = screen /\ acks' = acks
  BY DEF Moves, Elsewhere
<1>4. Held \cup ToSet(wire) \cup ToSet(ipc) \cup ToSet(screen) \cup ToSet(acks)
        \subseteq Known(produced, core.listed)
  BY DEF Base, Typed
<1>5. Held' \cup (ToSet(wire) \cup ToSet(now)) \cup ToSet(ipc) \cup ToSet(screen) \cup ToSet(acks)
        \subseteq Known(produced', core'.listed)
  BY <1>3, <1>4
<1> QED BY <1>2, <1>3, <1>5

LEMMA MovesConserved ==
  ASSUME Base, NEW now, NEW new, Moves(now, new), Elsewhere, produced' \in 0..MaxChunks
  PROVE  Conserved'
<1>1. /\ wire \in Seq(Events) /\ now \in Seq(Events) /\ produced \in 0..MaxChunks
      /\ core.listed \in BOOLEAN
  BY TypesOf DEF Base, Moves, Session
<1>2. ToSet(wire') = ToSet(wire) \cup ToSet(now) BY <1>1, ConcatElems DEF Moves
<1>3. /\ Held \cup new \subseteq ToSet(now) \cup Held' \cup lost'
      /\ Known(produced', core'.listed) = Known(produced, core.listed) \cup new
      /\ Precede(Known(produced, core.listed), new, Below)
      /\ ipc' = ipc /\ screen' = screen /\ lost \subseteq lost'
      /\ page'.attached = page.attached /\ page'.status = page.status
      /\ (page'.setup = "new" => page.setup = "new")
      /\ (Straight' => Straight)
  BY DEF Moves, Elsewhere, Straight
<1>4. ASSUME NEW n \in 1..produced' PROVE n \in 1..produced \/ n \in new
  <2>1. n \in Known(produced, core.listed) \/ n \in new BY <1>3 DEF Known
  <2>2. n # Connected /\ n # Disconnected BY <1>1, <1>4, Numbers DEF Connected, Disconnected
  <2> QED BY <2>1, <2>2 DEF Known
<1>5. ASSUME page'.attached \/ page'.setup = "new", NEW n \in 1..produced'
      PROVE  n \in (ToSet(screen) \cup lost \cup ToSet(ipc) \cup ToSet(wire) \cup Held)'
  <2>1. 1..produced \subseteq ToSet(screen) \cup lost \cup ToSet(ipc) \cup ToSet(wire) \cup Held
    BY <1>3, <1>5 DEF Base, Conserved
  <2>2. n \in ToSet(screen) \cup lost' \cup ToSet(ipc) \cup (ToSet(wire) \cup ToSet(now)) \cup Held'
    BY <1>3, <1>4, <1>5, <2>1
  <2> QED BY <1>2, <1>3, <2>2
<1>6. ASSUME page'.status = "disconnected"
      PROVE  ~core'.listed /\ (Straight' => 1..produced' \subseteq ToSet(screen') \cup lost')
  <2>1. ~core.listed /\ (Straight => 1..produced \subseteq ToSet(screen) \cup lost)
    BY <1>3, <1>6 DEF Base, Conserved
  <2>2. Disconnected \in Known(produced, core.listed) BY <2>1 DEF Known
  <2>3. Disconnected \in Known(produced', core'.listed) BY <1>3, <2>2
  <2>4. ~core'.listed
    BY <2>3, Numbers DEF Known, Disconnected, Connected
  <2>5. ASSUME NEW n \in 1..produced' PROVE n \notin new
    <3>1. n \in new => <<Disconnected, n>> \in Below BY <1>3, <2>2 DEF Precede
    <3>2. <<Disconnected, n>> \notin Below
      BY <2>5, Numbers DEF Below, Disconnected
    <3> QED BY <3>1, <3>2
  <2>6. 1..produced' \subseteq 1..produced BY <1>4, <2>5
  <2> QED BY <1>3, <2>1, <2>4, <2>6
<1> QED BY <1>5, <1>6 DEF Conserved

LEMMA MovesBase ==
  ASSUME Base, NEW now, NEW new, Moves(now, new), Elsewhere,
         TypeOK', Gate', (core.gated \in 0..produced)', page'.writing = page.writing
  PROVE  Base'
<1>1. produced' \in 0..MaxChunks BY DEF TypeOK
<1>2. (page.writing \in 0..Len(screen))' BY DEF Base, Typed, Elsewhere
<1>3. Typed' BY <1>2, MovesKnown DEF Typed
<1> QED BY <1>1, <1>3, MovesPipe, MovesConserved DEF Base

LEMMA ConcatSame ==
  ASSUME NEW s \in Seq(Events), NEW t \in Seq(Events), NEW u \in Seq(Events), s \o t = s \o u
  PROVE  t = u
<1>1. Len(s) \in Nat /\ Len(t) \in Nat /\ Len(u) \in Nat OBVIOUS
<1>2. Len(s \o t) = Len(s) + Len(t) /\ Len(s \o u) = Len(s) + Len(u) OBVIOUS
<1>3. Len(t) = Len(u) BY <1>1, <1>2
<1>4. \A i \in 1..Len(t) : t[i] = (s \o t)[i + Len(s)] OBVIOUS
<1>5. \A i \in 1..Len(u) : u[i] = (s \o u)[i + Len(s)] OBVIOUS
<1>6. \A i \in 1..Len(t) : t[i] = u[i] BY <1>3, <1>4, <1>5
<1> QED BY <1>3, <1>6

(* A flush of the Session c, or none, while the loops have in hand what is *)
(* older.                                                                  *)
Flushed(now, c) ==
  /\ now \in Seq(Events) /\ wire' = wire \o now
  /\ ToSet(now) \cup Held' = ToSet(c.buffered) \cup InHand(emitting)
  /\ Sorted(now, Below) /\ Precede(ToSet(now), Held', Apart)
  /\ slips \subseteq slips'
  /\ Straight' => Precede(ToSet(now), Held', Below)
  /\ Gate' /\ emitting' \in Seq(Seq(Events))
  /\ core' \in Session /\ core'.listed = c.listed /\ core'.gated \in {0, c.gated}

LEMMA NothingEmitted ==
  /\ <<>> \in Seq(Events) /\ ToSet(<<>>) = {} /\ Sorted(<<>>, Below)
  /\ \A B, R : Precede(ToSet(<<>>), B, R)
  /\ wire \in Seq(Events) => wire = wire \o <<>>
<1>0. ToSet(<<>>) = {} /\ <<>> \in Seq(Events) BY DEF ToSet
<1>1. Sorted(<<>>, Below) BY SortedShort
<1>2. \A B, R : Precede({}, B, R) BY DEF Precede
<1>3. wire \in Seq(Events) => wire = wire \o <<>> OBVIOUS
<1> QED BY <1>0, <1>1, <1>2, <1>3

LEMMA FlushSo ==
  ASSUME NEW c \in Session, c.listed, Flush(c),
         wire \in Seq(Events), emitting \in Seq(Seq(Events)),
         Sorted(c.buffered, Below), Precede(InHand(emitting), ToSet(c.buffered), Below),
         Loops(emitting), Straight => Alone(emitting)
  PROVE  \E now : Flushed(now, c)
<1> DEFINE b == c.buffered
<1>1. b \in Seq(Events)
  <2>1. b \in Seq(Chunks) /\ Chunks \subseteq Events BY Numbers DEF Session
  <2> HIDE DEF b, Chunks, Events
  <2> QED BY <2>1
<1>2. c.listed \in BOOLEAN /\ c.ready \in BOOLEAN /\ c.paused \in BOOLEAN
  BY DEF Session
<1>3. CASE c.ready /\ ~c.paused
  <2>1. core' = Spliced(c) /\ Emits(b, emitting) BY <1>3 DEF Flush
  <2>2. core' \in Session /\ core'.listed = c.listed /\ core'.gated \in {0, c.gated}
        /\ core'.buffered = <<>>
    <3>1. <<>> \in Seq(Chunks) /\ 0 \in 0..MaxChunks BY Numbers
    <3> QED BY <2>1, <3>1 DEF Spliced, Session
  <2>3. Precede(InHand(emitting), ToSet(b), Apart) BY PrecedeApart
  <2>4. PICK now : Emission(now, b, emitting)
    BY <1>1, <2>1, <2>3, EmitsSo
  <2>5. Held' = InHand(emitting') BY <2>2, ElemsOf DEF Held
  <2>6. ASSUME Straight'
        PROVE  Straight /\ (b = <<>> \/ InHand(emitting) = {})
    <3>1. ToSet(now) \subseteq ToSet(b)
      <4>1. InHand(emitting) \subseteq Events /\ ToSet(b) \subseteq Events
        BY <1>1, InHandOf, ElemsOf
      <4>2. wire' = wire \o SubSeq(b, 1, Written(b)) BY <2>1 DEF Emits
      <4>3. wire' = wire \o now /\ now \in Seq(Events) BY <2>4 DEF Emission
      <4>4. SubSeq(b, 1, Written(b)) \in Seq(Events)
            /\ ToSet(SubSeq(b, 1, Written(b))) \subseteq ToSet(b)
        BY <1>1, WrittenOf, SplitElems
      <4>5. now = SubSeq(b, 1, Written(b)) BY <4>2, <4>3, <4>4, ConcatSame
      <4> QED BY <4>4, <4>5
    <3>2. Precede(InHand(emitting), ToSet(now), Below) BY <3>1 DEF Precede
    <3>3. "overtaken" \notin slips \cup Overtakes(now, emitting)
      BY <2>4, <2>6 DEF Emission, Straight
    <3>4. now \in Seq(Events) /\ (now = <<>> => b = <<>>) BY <2>4 DEF Emission
    <3> QED BY <3>2, <3>3, <3>4, Overtaking DEF Straight
  <2>7. Gate'
    <3>1. Sorted(core'.buffered, Below) /\ ToSet(core'.buffered) = {}
      BY <2>2, SortedShort, ElemsOf
    <3>2. Precede(InHand(emitting'), ToSet(core'.buffered), Below) BY <3>1 DEF Precede
    <3>3. Straight' => Alone(emitting') BY <2>4, <2>6 DEF Emission
    <3> QED BY <2>2, <2>4, <3>1, <3>2, <3>3 DEF Gate, Emission
  <2>8. Flushed(now, c)
    BY <2>2, <2>4, <2>5, <2>6, <2>7 DEF Flushed, Emission
  <2> QED BY <2>8
<1>4. CASE ~(c.ready /\ ~c.paused)
  <2>1. core' = c /\ UNCHANGED <<emitting, wire, slips>> BY <1>4 DEF Flush
  <2>2. Held' = ToSet(b) \cup InHand(emitting) BY <2>1 DEF Held
  <2>3. Gate' BY <1>2, <1>4, <2>1 DEF Gate, Straight
  <2>4. Flushed(<<>>, c) BY <2>1, <2>2, <2>3, NothingEmitted DEF Flushed
  <2> QED BY <2>4
<1> QED BY <1>3, <1>4

(* markReady, and a resumption or a pause that is served: what was held is *)
(* all there is.                                                           *)
LEMMA FlushMoves ==
  ASSUME Base, core.listed,
         NEW c \in Session, c.listed, c.buffered = core.buffered, c.gated = core.gated,
         Flush(c), produced' = produced, lost' = lost, Elsewhere, TypeOK',
         page'.writing = page.writing
  PROVE  Base'
<1>1. /\ wire \in Seq(Events) /\ emitting \in Seq(Seq(Events))
      /\ core.gated \in 0..produced /\ produced \in 0..MaxChunks
  BY TypesOf DEF Base, Typed
<1>2. PICK now : Flushed(now, c) BY <1>1, FlushSo DEF Base, Gate
<1>3. Moves(now, {})
  <2>1. ToSet(now) \cup Held' = Held BY <1>2 DEF Flushed, Held
  <2>2. Known(produced', core'.listed) = Known(produced, core.listed) \cup {}
    BY <1>2 DEF Flushed, Known
  <2>3. Precede(Known(produced, core.listed), {}, Below) BY DEF Precede
  <2> QED BY <1>2, <2>1, <2>2, <2>3 DEF Moves, Flushed
<1>4. (core.gated \in 0..produced)' BY <1>1, <1>2 DEF Flushed
<1> QED BY <1>2, <1>3, <1>4, MovesBase DEF Flushed

(* A chunk that is new is later than all there is. *)
LEMMA NewChunk ==
  ASSUME Base, core.listed, produced + 1 \in Chunks
  PROVE  /\ Known(produced + 1, core.listed) = Known(produced, core.listed) \cup {produced + 1}
         /\ Precede(Known(produced, core.listed), {produced + 1}, Below)
         /\ Held \subseteq Known(produced, core.listed)
         /\ produced + 1 \in Events
<1>1. produced \in 0..MaxChunks /\ produced + 1 \in Events
  BY TypesOf, Numbers DEF Base
<1>2. \A n \in Known(produced, core.listed) : n \in Events /\ n < produced + 1
  <2>1. Known(produced, core.listed) = {0} \cup 1..produced BY DEF Known, Connected
  <2>2. Known(produced, core.listed) \subseteq Events
    BY <1>1, Numbers, TypesOf DEF Base, Session
  <2>3. \A n \in {0} \cup 1..produced : n < produced + 1 BY <1>1
  <2> QED BY <2>1, <2>2, <2>3
<1>3. 1..(produced + 1) = 1..produced \cup {produced + 1} BY <1>1
<1>4. Known(produced + 1, core.listed) = Known(produced, core.listed) \cup {produced + 1}
  BY <1>3 DEF Known
<1>5. Precede(Known(produced, core.listed), {produced + 1}, Below)
  BY <1>1, <1>2 DEF Precede, Below
<1> QED BY <1>1, <1>4, <1>5 DEF Base, Typed

LEMMA OutputKeeps ==
  ASSUME Base, Output, TypeOK'
  PROVE  Base'
<1> DEFINE chunk == produced + 1
           full == [core EXCEPT !.buffered = Append(@, chunk), !.gated = @ + 1]
<1>1. /\ core.listed /\ chunk \in Chunks /\ produced' = chunk
      /\ UNCHANGED <<flow, ipc, acks, page, screen, lost>>
  BY DEF Output, flowVars
<1>2. /\ wire \in Seq(Events) /\ emitting \in Seq(Seq(Events)) /\ core \in Session
      /\ core.buffered \in Seq(Chunks) /\ core.buffered \in Seq(Events)
      /\ core.gated \in 0..produced /\ produced \in 0..MaxChunks
  BY TypesOf DEF Base, Typed
<1>3. /\ Known(chunk, core.listed) = Known(produced, core.listed) \cup {chunk}
      /\ Precede(Known(produced, core.listed), {chunk}, Below)
      /\ Held \subseteq Known(produced, core.listed) /\ chunk \in Events
  BY <1>1, NewChunk
<1>4. Elsewhere /\ page'.writing = page.writing BY <1>1 DEF Elsewhere
<1>5. CASE /\ ~core.ready \/ core.paused
           /\ IF Overflows(full.gated) THEN Flush([full EXCEPT !.ready = TRUE])
              ELSE core' = full /\ UNCHANGED <<emitting, wire, slips>>
  <2>1. PICK c \in Session :
          /\ Flush(c) /\ c.listed /\ c.gated = core.gated + 1
          /\ c.buffered = Append(core.buffered, chunk)
    <3>0. DEFINE open == [full EXCEPT !.ready = TRUE]
    <3>1. /\ Append(core.buffered, chunk) \in Seq(Chunks)
          /\ core.gated + 1 \in 0..MaxChunks
      <4>1. core.gated + 1 \in 0..MaxChunks BY <1>1, <1>2, Numbers DEF Chunks
      <4> HIDE DEF chunk, Chunks
      <4> QED BY <1>1, <1>2, <4>1
    <3>2. /\ full \in Session /\ full.listed /\ full.gated = core.gated + 1
          /\ full.buffered = Append(core.buffered, chunk)
          /\ full.ready = core.ready /\ full.paused = core.paused
      BY <1>1, <1>2, <3>1 DEF Session
    <3>3. /\ open \in Session /\ open.listed /\ open.gated = core.gated + 1
          /\ open.buffered = Append(core.buffered, chunk)
      <4> HIDE DEF full
      <4> QED BY <3>2 DEF Session
    <3> HIDE DEF full
    <3>4. CASE Overflows(full.gated) BY <1>5, <3>3, <3>4
    <3>5. CASE ~Overflows(full.gated)
      <4>1. Flush(full) BY <1>5, <3>2, <3>5 DEF Flush
      <4> QED BY <3>2, <4>1
    <3> QED BY <3>4, <3>5
  <2>2. ToSet(c.buffered) = ToSet(core.buffered) \cup {chunk}
    BY <1>2, <1>3, <2>1, AppendElems
  <2>3. ToSet(core.buffered) \subseteq Held /\ InHand(emitting) \subseteq Held BY DEF Held
  <2>4. Sorted(c.buffered, Below)
    <3>1. c.buffered = core.buffered \o <<chunk>> /\ <<chunk>> \in Seq(Events)
      <4>1. \A s \in Seq(Events), e \in Events :
              Append(s, e) = s \o <<e>> /\ <<e>> \in Seq(Events)
        <5> HIDE DEF Events
        <5> QED OBVIOUS
      <4> QED BY <1>2, <1>3, <2>1, <4>1
    <3>2. ToSet(<<chunk>>) = {chunk} BY DEF ToSet
    <3>3. Precede(ToSet(core.buffered), {chunk}, Below)
      BY <1>3, <2>3 DEF Precede
    <3>4. Sorted(core.buffered, Below) BY DEF Base, Gate
    <3> QED BY <1>2, <3>1, <3>2, <3>3, <3>4, SortedShort, SortedConcat
  <2>5. Precede(InHand(emitting), ToSet(c.buffered), Below)
    BY <1>3, <2>2, <2>3 DEF Base, Gate, Precede
  <2>6. PICK now : Flushed(now, c)
    BY <1>2, <2>1, <2>4, <2>5, FlushSo DEF Base, Gate
  <2>7. Moves(now, {chunk})
    <3>1. ToSet(now) \cup Held' = Held \cup {chunk} BY <2>2, <2>6 DEF Flushed, Held
    <3>2. core'.listed = core.listed BY <1>1, <2>1, <2>6 DEF Flushed, Session
    <3> QED BY <1>1, <1>3, <2>6, <3>1, <3>2 DEF Moves, Flushed
  <2>8. (core.gated \in 0..produced)'
    <3>1. core'.gated \in {0, core.gated + 1} BY <2>1, <2>6 DEF Flushed
    <3>2. core.gated + 1 \in 0..(produced + 1) /\ 0 \in 0..(produced + 1) BY <1>2
    <3>3. produced' = produced + 1 BY <1>1
    <3> QED BY <3>1, <3>2, <3>3
  <2> QED BY <1>4, <2>6, <2>7, <2>8, MovesBase DEF Flushed
<1>6. CASE /\ core.ready /\ ~core.paused
           /\ wire' = Append(wire, chunk)
           /\ slips' = slips \cup Overtakes(<<chunk>>, emitting)
           /\ UNCHANGED <<core, emitting>>
  <2>1. /\ <<chunk>> \in Seq(Events) /\ ToSet(<<chunk>>) = {chunk}
        /\ Sorted(<<chunk>>, Below) /\ wire' = wire \o <<chunk>>
        /\ <<chunk>> # <<>>
    BY <1>2, <1>3, <1>6, SortedShort DEF ToSet
  <2>2. core.buffered = <<>> /\ Held' = Held /\ Held = InHand(emitting)
    <3>1. core.buffered = <<>> BY <1>6 DEF Base, Gate
    <3> QED BY <1>6, <3>1, ElemsOf, <1>2 DEF Held
  <2>3. Precede(InHand(emitting), {chunk}, Below) BY <1>3, <2>2 DEF Precede
  <2>4. Straight' => Straight /\ InHand(emitting) = {}
    BY <1>2, <1>6, <2>1, <2>3, Overtaking DEF Straight
  <2>5. Precede({chunk}, Held', Apart)
    <3>1. ASSUME NEW x \in Held' PROVE <<chunk, x>> \in Apart
      <4>1. <<x, chunk>> \in Below BY <2>2, <2>3, <3>1 DEF Precede
      <4>2. x \in Events /\ x < chunk BY <4>1 DEF Below
      <4> QED BY <1>2, <1>3, <4>2, Numbers DEF Apart
    <3> QED BY <3>1 DEF Precede
  <2>6. Straight' => Precede({chunk}, Held', Below) BY <2>2, <2>4 DEF Precede
  <2>7. Moves(<<chunk>>, {chunk})
    BY <1>1, <1>3, <1>6, <2>1, <2>2, <2>5, <2>6 DEF Moves
  <2>8. Gate' BY <1>6, <2>4 DEF Base, Gate
  <2>9. (core.gated \in 0..produced)' BY <1>1, <1>2, <1>6
  <2> QED BY <1>4, <2>7, <2>8, <2>9, MovesBase
<1> QED BY <1>5, <1>6 DEF Output

LEMMA DrainedKeeps ==
  ASSUME Base, Drained, TypeOK'
  PROVE  Base'
<1> DEFINE first == Head(emitting)
           others == Tail(emitting)
<1>1. /\ emitting # <<>> /\ Emits(first, others)
      /\ core' = [core EXCEPT !.gated = IF Waits(first) THEN @ ELSE 0]
      /\ UNCHANGED <<produced, flow, ipc, acks, page, screen, lost>>
  BY DEF Drained, flowVars
<1>2. /\ wire \in Seq(Events) /\ emitting \in Seq(Seq(Events)) /\ core \in Session
      /\ core.gated \in 0..produced /\ produced \in 0..MaxChunks
  BY TypesOf DEF Base, Typed
<1>3. /\ others \in Seq(Seq(Events)) /\ first \in Seq(Events)
      /\ InHand(emitting) = ToSet(first) \cup InHand(others)
      /\ first = emitting[1] /\ 1 \in DOMAIN emitting
      /\ \A i \in DOMAIN others : i + 1 \in DOMAIN emitting /\ others[i] = emitting[i + 1]
                                  /\ i \in Nat /\ i >= 1
  <2>1. DOMAIN others = 1..(Len(emitting) - 1) /\ Len(emitting) \in Nat
    BY <1>1, <1>2, InHandTail
  <2> QED BY <1>1, <1>2, <2>1, InHandTail
<1> HIDE DEF first, others
<1>4. /\ core'.buffered = core.buffered /\ core'.listed = core.listed
      /\ core'.ready = core.ready /\ core'.paused = core.paused
      /\ core'.gated \in {0, core.gated}
  BY <1>1, <1>2 DEF Session
<1>5. Sorted(first, Below) /\ Loops(others)
  <2>1. \A i, j \in DOMAIN others : i # j => i + 1 # j + 1 BY <1>3
  <2> QED BY <1>3, <2>1 DEF Base, Gate, Loops
<1>6. Precede(InHand(others), ToSet(first), Apart)
  <2>1. ASSUME NEW i \in DOMAIN others PROVE Precede(ToSet(others[i]), ToSet(first), Apart)
    <3>1. i + 1 # 1 BY <1>3, <2>1
    <3> QED BY <1>3, <2>1, <3>1 DEF Base, Gate, Loops
  <2> QED BY <2>1 DEF InHand, Precede
<1>7. PICK now : Emission(now, first, others)
  BY <1>1, <1>2, <1>3, <1>5, <1>6, EmitsSo
<1>8. ToSet(now) \cup InHand(emitting') = InHand(emitting)
  BY <1>3, <1>7 DEF Emission
<1>9. ASSUME Straight'
      PROVE  Straight /\ Alone(others) /\ (first = <<>> \/ InHand(others) = {})
  <2>1. Straight BY <1>7, <1>9 DEF Emission, Straight
  <2>2. Alone(emitting) BY <2>1 DEF Base, Gate
  <2>3. Alone(others)
    <3>1. \A i, j \in DOMAIN others : i + 1 = j + 1 => i = j BY <1>3
    <3> QED BY <1>3, <2>2, <3>1 DEF Alone
  <2>4. first # <<>> => \A i \in DOMAIN others : others[i] = <<>>
    <3>1. \A i \in DOMAIN others : i + 1 # 1 BY <1>3
    <3> QED BY <1>3, <2>2, <3>1 DEF Alone
  <2> QED BY <1>3, <2>1, <2>3, <2>4, InHandOf
<1>10. Held' = ToSet(core.buffered) \cup InHand(emitting') BY <1>4 DEF Held
<1>11. ToSet(now) \cup Held' = Held BY <1>8, <1>10 DEF Held
<1>12. /\ Precede(InHand(emitting), ToSet(core.buffered), Below)
       /\ Precede(InHand(emitting), ToSet(core.buffered), Apart)
  BY PrecedeApart DEF Base, Gate
<1>13. Precede(ToSet(now), Held', Apart)
  BY <1>7, <1>8, <1>10, <1>12 DEF Emission, Precede
<1>14. Straight' => Precede(ToSet(now), Held', Below)
  BY <1>7, <1>8, <1>9, <1>10, <1>12 DEF Emission, Precede
<1>15. Moves(now, {})
  <2>1. Known(produced', core'.listed) = Known(produced, core.listed) \cup {}
    BY <1>1, <1>4 DEF Known
  <2>2. Precede(Known(produced, core.listed), {}, Below) BY DEF Precede
  <2> QED BY <1>1, <1>7, <1>11, <1>13, <1>14, <2>1, <2>2 DEF Moves, Emission
<1>16. Gate'
  <2>1. Precede(InHand(emitting'), ToSet(core'.buffered), Below)
    BY <1>4, <1>8, <1>12 DEF Precede
  <2>2. Straight' => Alone(emitting') BY <1>7, <1>9 DEF Emission
  <2> QED BY <1>4, <1>7, <2>1, <2>2 DEF Base, Gate, Emission
<1>17. (core.gated \in 0..produced)' BY <1>1, <1>2, <1>4
<1>18. Elsewhere /\ page'.writing = page.writing BY <1>1 DEF Elsewhere
<1> QED BY <1>15, <1>16, <1>17, <1>18, MovesBase

LEMMA FinishKeeps ==
  ASSUME Base, Finish, TypeOK'
  PROVE  Base'
<1> DEFINE open == core.ready /\ ~core.paused
           b == IF open THEN core.buffered ELSE <<>>
           events == b \o <<Disconnected>>
<1>1. /\ core.listed
      /\ core' = [core EXCEPT !.listed = FALSE, !.buffered = <<>>]
      /\ Emits(events, emitting)
      /\ lost' = IF open THEN lost ELSE lost \cup ToSet(core.buffered)
      /\ UNCHANGED <<produced, flow, ipc, acks, page, screen>>
  BY DEF Finish, Ending, flowVars
<1>2. /\ wire \in Seq(Events) /\ emitting \in Seq(Seq(Events)) /\ core \in Session
      /\ core.gated \in 0..produced /\ produced \in 0..MaxChunks
      /\ core.buffered \in Seq(Events)
  BY TypesOf DEF Base, Typed
<1>3. b = <<>> /\ b \in Seq(Events) /\ (open => core.buffered = <<>>)
  BY <1>2 DEF Base, Gate
<1>4. /\ events = <<Disconnected>> /\ events \in Seq(Events)
      /\ ToSet(events) = {Disconnected} /\ Sorted(events, Below)
  <2>1. events = <<Disconnected>>
    <3>1. \A e : <<>> \o <<e>> = <<e>> OBVIOUS
    <3> QED BY <1>3, <3>1
  <2>2. Disconnected \in Events BY Numbers
  <2> HIDE DEF events
  <2>3. <<Disconnected>> \in Seq(Events) BY <2>2
  <2> QED BY <2>1, <2>3, SortedShort DEF ToSet
<1> HIDE DEF events, b
<1>5. /\ Known(produced, FALSE) = Known(produced, core.listed) \cup {Disconnected}
      /\ Precede(Known(produced, core.listed), {Disconnected}, Below)
  <2>1. Known(produced, core.listed) = {0} \cup 1..produced BY <1>1 DEF Known, Connected
  <2>2. Known(produced, core.listed) \subseteq Events
    BY <1>2, Numbers DEF Session
  <2>3. \A n \in Known(produced, core.listed) : n < Disconnected
    BY <1>2, <2>1, Numbers DEF Disconnected
  <2>4. Precede(Known(produced, core.listed), {Disconnected}, Below)
    BY <2>2, <2>3, Numbers DEF Precede, Below
  <2> QED BY <1>1, <2>4 DEF Known
<1>6. Precede(InHand(emitting), {Disconnected}, Below)
  <2>1. InHand(emitting) \subseteq Known(produced, core.listed) BY DEF Base, Typed, Held
  <2> QED BY <1>5, <2>1 DEF Precede
<1>7. PICK now : Emission(now, events, emitting)
  <2>1. Precede(InHand(emitting), ToSet(events), Apart) BY <1>4, <1>6, PrecedeApart
  <2> QED BY <1>1, <1>2, <1>4, <2>1, EmitsSo DEF Base, Gate
<1>8. /\ core'.buffered = <<>> /\ core'.listed = FALSE /\ core'.gated = core.gated
      /\ ToSet(core'.buffered) = {} /\ Sorted(core'.buffered, Below)
  BY <1>1, <1>2, NothingEmitted DEF Session
<1>9. Held' = InHand(emitting') BY <1>8 DEF Held
<1>10. ToSet(now) \cup Held' = {Disconnected} \cup InHand(emitting)
  BY <1>4, <1>7, <1>9 DEF Emission
<1>11. Held \cup {Disconnected} \subseteq ToSet(now) \cup Held' \cup lost'
  <2>1. ToSet(core.buffered) \subseteq lost'
    <3>1. CASE open
      <4>1. ToSet(core.buffered) = {} BY <1>3, <3>1, NothingEmitted
      <4> QED BY <4>1
    <3>2. CASE ~open BY <1>1, <3>2
    <3> QED BY <3>1, <3>2
  <2> QED BY <1>10, <2>1 DEF Held
<1>12. ASSUME Straight' PROVE Straight /\ InHand(emitting) = {}
  <2>1. ToSet(now) \subseteq {Disconnected} \cup InHand(emitting) BY <1>9, <1>10
  <2>2. now # <<>> /\ now \in Seq(Events) BY <1>4, <1>7 DEF Emission
  <2>3. "overtaken" \notin slips \cup Overtakes(now, emitting)
    BY <1>7, <1>12 DEF Emission, Straight
  <2>4. Precede(InHand(emitting), ToSet(now), Below)
    <3>1. wire' = wire \o SubSeq(events, 1, Written(events)) BY <1>1 DEF Emits
    <3>2. /\ SubSeq(events, 1, Written(events)) \in Seq(Events)
          /\ ToSet(SubSeq(events, 1, Written(events))) \subseteq ToSet(events)
      <4>1. Written(events) \in 0..Len(events) BY <1>2, <1>4, WrittenOf
      <4>2. events \in Seq(Events) BY <1>4
      <4> HIDE DEF Written
      <4> QED BY <4>1, <4>2, SplitElems
    <3>3. now = SubSeq(events, 1, Written(events))
      BY <1>2, <1>7, <3>1, <3>2, ConcatSame DEF Emission
    <3> QED BY <1>4, <1>6, <3>2, <3>3 DEF Precede
  <2> QED BY <1>2, <2>2, <2>3, <2>4, Overtaking DEF Straight
<1>13. Precede(ToSet(now), Held', Apart) BY <1>7, <1>9 DEF Emission
<1>14. Straight' => Precede(ToSet(now), Held', Below) BY <1>7, <1>9, <1>12 DEF Emission
<1>15. Moves(now, {Disconnected})
  <2>1. ToSet(now) \cup Held' \subseteq Held \cup {Disconnected} BY <1>10 DEF Held
  <2>2. lost \subseteq lost' BY <1>1
  <2> QED BY <1>1, <1>5, <1>7, <1>8, <1>11, <1>13, <1>14, <2>1, <2>2 DEF Moves, Emission
<1>16. Gate'
  <2>1. Precede(InHand(emitting'), ToSet(core'.buffered), Below) BY <1>8 DEF Precede
  <2>2. Straight' => Alone(emitting') BY <1>7, <1>12 DEF Emission, Base, Gate
  <2> QED BY <1>7, <1>8, <2>1, <2>2 DEF Gate, Emission
<1>17. (core.gated \in 0..produced)' BY <1>1, <1>2, <1>8
<1>18. Elsewhere /\ page'.writing = page.writing BY <1>1 DEF Elsewhere
<1> QED BY <1>15, <1>16, <1>17, <1>18, MovesBase

-----------------------------------------------------------------------------
(* The steps of main and of the page.                                      *)

(* What a step that is not the Session's leaves alone.                     *)
SessionStays == UNCHANGED <<produced, core, emitting, slips>>

LEMMA StaysGate ==
  ASSUME Gate, UNCHANGED <<core, emitting>>, Straight' => Straight
  PROVE  Gate' /\ Held' = Held
  BY DEF Gate, Held

LEMMA KindsOf ==
  ASSUME Base
  PROVE  /\ wire \in Seq(Events) /\ ipc \in Seq(Events) /\ acks \in Seq(Events)
         /\ screen \in Seq(Events) /\ emitting \in Seq(Seq(Events))
         /\ InStep(Apart) /\ (Straight => InStep(Below))
         /\ produced \in 0..MaxChunks
         /\ core.gated \in 0..produced /\ page.writing \in 0..Len(screen) /\ Len(screen) \in Nat
         /\ Held \cup ToSet(wire) \cup ToSet(ipc) \cup ToSet(screen) \cup ToSet(acks)
              \subseteq Known(produced, core.listed)
  BY TypesOf DEF Base, Typed

LEMMA PushKeeps ==
  ASSUME Base, Push, TypeOK'
  PROVE  Base'
<1>1. PICK n \in 1..MaxBurst :
        /\ n <= Len(wire)
        /\ wire' = SubSeq(wire, n + 1, Len(wire))
        /\ ipc' = ipc \o SubSeq(wire, 1, n)
  BY DEF Push
<1>2. UNCHANGED <<produced, core, emitting, acks, page, screen, lost, slips>>
  BY DEF Push, coreVars, history
<1>3. /\ wire \in Seq(Events) /\ ipc \in Seq(Events) /\ acks \in Seq(Events)
      /\ screen \in Seq(Events)
  BY KindsOf
<1>4. n \in 0..Len(wire)
  <2>1. Len(wire) \in Nat BY <1>3
  <2> QED BY <1>1, <2>1
<1>5. Gate' /\ Held' = Held BY <1>2, StaysGate DEF Base, Straight
<1>6. InStep(Apart)'
  <2>1. Pipe(Apart, Held, wire, ipc, screen, acks) BY DEF Base, InStep
  <2>2. Pipe(Apart, Held, wire', ipc', screen, acks)
    BY <1>1, <1>3, <1>4, <2>1, PipePush
  <2> QED BY <1>2, <1>5, <2>2 DEF InStep
<1>7. ASSUME Straight' PROVE InStep(Below)'
  <2>1. Pipe(Below, Held, wire, ipc, screen, acks) BY <1>2, <1>7 DEF Base, InStep, Straight
  <2>2. Pipe(Below, Held, wire', ipc', screen, acks)
    BY <1>1, <1>3, <1>4, <2>1, PipePush
  <2> QED BY <1>2, <1>5, <2>2 DEF InStep
<1>8. ToSet(ipc') \cup ToSet(wire') = ToSet(ipc) \cup ToSet(wire)
  <2>1. SubSeq(wire, 1, n) \in Seq(Events)
        /\ ToSet(wire) = ToSet(SubSeq(wire, 1, n)) \cup ToSet(wire')
    BY <1>1, <1>3, <1>4, SplitElems
  <2>2. ToSet(ipc') = ToSet(ipc) \cup ToSet(SubSeq(wire, 1, n))
    BY <1>1, <1>3, <2>1, ConcatElems
  <2> QED BY <2>1, <2>2
<1>9. Typed'
  <2>1. Held' \cup ToSet(wire') \cup ToSet(ipc') \cup ToSet(screen') \cup ToSet(acks')
          \subseteq Known(produced', core'.listed)
    BY <1>2, <1>5, <1>8, KindsOf
  <2>2. core'.gated \in 0..produced' /\ page'.writing \in 0..Len(screen')
    BY <1>2, KindsOf
  <2> QED BY <2>1, <2>2 DEF Typed
<1>10. Conserved' BY <1>2, <1>5, <1>8 DEF Base, Conserved, Straight
<1> QED BY <1>5, <1>6, <1>7, <1>9, <1>10 DEF Base

(* What is underway goes, or an acknowledgement is taken.                  *)
LEMMA FewerKeeps ==
  ASSUME Base, TypeOK', UNCHANGED <<produced, core, emitting, wire, screen, lost>>,
         Straight' <=> Straight,
         \/ ipc' = ipc /\ acks' = acks
         \/ ipc' = ipc /\ acks # <<>> /\ acks' = Tail(acks)
         \/ ipc' = <<>> /\ acks' = acks /\ ~page'.attached /\ page'.setup # "new",
         page'.status = page.status \/ page'.status # "disconnected",
         page'.attached \/ page'.setup = "new" => page.attached \/ page.setup = "new",
         page'.writing \in 0..Len(screen)
  PROVE  Base'
<1>1. /\ wire \in Seq(Events) /\ ipc \in Seq(Events) /\ acks \in Seq(Events)
      /\ screen \in Seq(Events)
  BY KindsOf
<1>2. Gate' /\ Held' = Held BY StaysGate DEF Base
<1>3. InStep(Apart)'
  <2>1. Pipe(Apart, Held, wire, ipc, screen, acks) BY DEF Base, InStep
  <2>2. Pipe(Apart, Held, wire, ipc', screen, acks') BY <1>1, <2>1, PipeFewer
  <2> QED BY <1>2, <2>2 DEF InStep
<1>4. ASSUME Straight' PROVE InStep(Below)'
  <2>1. Pipe(Below, Held, wire, ipc, screen, acks) BY <1>4 DEF Base, InStep
  <2>2. Pipe(Below, Held, wire, ipc', screen, acks') BY <1>1, <2>1, PipeFewer
  <2> QED BY <1>2, <2>2 DEF InStep
<1>5. ToSet(ipc') \subseteq ToSet(ipc) /\ ToSet(acks') \subseteq ToSet(acks)
  BY <1>1, TailElems, NothingEmitted
<1>6. Typed'
  <2>1. Held' \cup ToSet(wire') \cup ToSet(ipc') \cup ToSet(screen') \cup ToSet(acks')
          \subseteq Known(produced', core'.listed)
    BY <1>2, <1>5, KindsOf
  <2>2. core'.gated \in 0..produced' /\ page'.writing \in 0..Len(screen')
    BY KindsOf
  <2> QED BY <2>1, <2>2 DEF Typed
<1>7. Conserved'
  <2>1. page'.attached \/ page'.setup = "new" => ipc' = ipc OBVIOUS
  <2>2. page'.attached \/ page'.setup = "new" =>
          1..produced \subseteq ToSet(screen) \cup lost \cup ToSet(ipc') \cup ToSet(wire) \cup Held
    BY <2>1 DEF Base, Conserved
  <2>3. page'.status = "disconnected" =>
          ~core.listed /\ (Straight => 1..produced \subseteq ToSet(screen) \cup lost)
    BY DEF Base, Conserved
  <2> QED BY <1>2, <2>2, <2>3 DEF Conserved
<1> QED BY <1>2, <1>3, <1>4, <1>6, <1>7 DEF Base

Page == [setup : {"new", "asking", "connected", "failed", "marking", "marked", "gone"},
         attached : BOOLEAN, status : Statuses, outputPaused : BOOLEAN,
         writing : 0..MaxChunks, retry : BOOLEAN]

(* setOutputPaused changes the belief of the page and nothing else of it.  *)
LEMMA SettingPaused ==
  ASSUME NEW p, DOMAIN p = DOMAIN page, page \in Page, NEW v, SetOutputPaused(p, v)
  PROVE  /\ page'.attached = p.attached /\ page'.status = p.status
         /\ page'.writing = p.writing /\ page'.setup = p.setup
         /\ page'.outputPaused = v /\ page'.retry = (p.retry /\ ~v)
         /\ commands' = Append(commands, Call(v))
  BY DEF SetOutputPaused, Page

(* What a dispatched event does to the page.                               *)
LEMMA DispatchPage ==
  ASSUME Dispatch, page \in Page, ipc \in Seq(Events)
  PROVE  /\ ipc # <<>> /\ Head(ipc) \in Events
         /\ ipc' = Tail(ipc) /\ acks' = Append(acks, Head(ipc))
         /\ page'.attached = page.attached /\ page'.setup = page.setup
         /\ UNCHANGED <<produced, core, emitting, wire, slips>>
         /\ \/ /\ ~page.attached /\ screen' = screen /\ page' = page
               /\ lost' = IF Head(ipc) \in Chunks /\ page.setup = "new"
                          THEN lost \cup {Head(ipc)} ELSE lost
            \/ /\ page.attached /\ Head(ipc) \in Chunks /\ lost' = lost
               /\ screen' = Append(screen, Head(ipc))
               /\ page'.writing = page.writing + 1 /\ page'.status = page.status
            \/ /\ page.attached /\ Head(ipc) \notin Chunks /\ lost' = lost
               /\ screen' = screen /\ page'.writing = page.writing
               /\ page'.status = IF Head(ipc) = Connected THEN "connected" ELSE "disconnected"
<1>1. ipc # <<>> /\ ipc' = Tail(ipc) /\ acks' = Append(acks, Head(ipc))
      /\ UNCHANGED <<produced, core, emitting, wire, slips>>
  BY DEF Dispatch, coreVars
<1>2. Head(ipc) \in Events BY <1>1
<1>3. CASE /\ ~page.attached
           /\ lost' = IF Head(ipc) \in Chunks /\ page.setup = "new"
                      THEN lost \cup {Head(ipc)} ELSE lost
           /\ UNCHANGED <<page, commands, screen>>
  BY <1>1, <1>2, <1>3
<1>4. CASE /\ page.attached /\ Head(ipc) \in Chunks
           /\ screen' = Append(screen, Head(ipc))
           /\ LET p == [page EXCEPT !.writing = @ + 1]
              IN  IF ~p.outputPaused /\ p.writing >= ScreenHigh
                  THEN SetOutputPaused(p, TRUE)
                  ELSE page' = p /\ UNCHANGED commands
           /\ UNCHANGED lost
  <2> DEFINE p == [page EXCEPT !.writing = @ + 1]
  <2>1. /\ DOMAIN p = DOMAIN page /\ p.attached = page.attached /\ p.status = page.status
        /\ p.writing = page.writing + 1 /\ p.setup = page.setup
    BY DEF Page
  <2>2. SetOutputPaused(p, TRUE) \/ page' = p BY <1>4
  <2> HIDE DEF p
  <2>3. /\ page'.attached = page.attached /\ page'.status = page.status
        /\ page'.writing = page.writing + 1 /\ page'.setup = page.setup
    BY <2>1, <2>2, SettingPaused
  <2> QED BY <1>1, <1>2, <1>4, <2>3
<1>5. CASE /\ page.attached /\ Head(ipc) \notin Chunks
           /\ page' = [page EXCEPT !.status = IF Head(ipc) = Connected THEN "connected"
                                              ELSE "disconnected"]
           /\ UNCHANGED <<commands, screen, lost>>
  <2>1. /\ page'.attached = page.attached /\ page'.setup = page.setup
        /\ page'.writing = page.writing
        /\ page'.status = IF Head(ipc) = Connected THEN "connected" ELSE "disconnected"
    BY <1>5 DEF Page
  <2> QED BY <1>1, <1>2, <1>5, <2>1
<1> QED BY <1>3, <1>4, <1>5 DEF Dispatch

LEMMA DispatchKeeps ==
  ASSUME Base, Dispatch, TypeOK'
  PROVE  Base'
<1> DEFINE event == Head(ipc)
<1>1. /\ wire \in Seq(Events) /\ ipc \in Seq(Events) /\ acks \in Seq(Events)
      /\ screen \in Seq(Events) /\ page \in Page /\ produced \in 0..MaxChunks
  BY KindsOf DEF Base, Typed, TypeOK, Page
<1>2. /\ ipc # <<>> /\ event \in Events
      /\ ipc' = Tail(ipc) /\ acks' = Append(acks, event)
      /\ page'.attached = page.attached /\ page'.setup = page.setup
      /\ UNCHANGED <<produced, core, emitting, wire, slips>>
      /\ \/ /\ ~page.attached /\ screen' = screen /\ page' = page
            /\ lost' = IF event \in Chunks /\ page.setup = "new"
                       THEN lost \cup {event} ELSE lost
         \/ /\ page.attached /\ event \in Chunks /\ lost' = lost
            /\ screen' = Append(screen, event)
            /\ page'.writing = page.writing + 1 /\ page'.status = page.status
         \/ /\ page.attached /\ event \notin Chunks /\ lost' = lost
            /\ screen' = screen /\ page'.writing = page.writing
            /\ page'.status = IF event = Connected THEN "connected" ELSE "disconnected"
  BY <1>1, DispatchPage
<1>3. ToSet(ipc) = {event} \cup ToSet(Tail(ipc)) /\ Tail(ipc) \in Seq(Events)
  BY <1>1, <1>2, TailElems
<1>4. /\ ToSet(acks') = ToSet(acks) \cup {event}
      /\ ToSet(Append(screen, event)) = ToSet(screen) \cup {event}
  BY <1>1, <1>2, AppendElems
<1> HIDE DEF event
<1>5. Gate' /\ Held' = Held BY <1>2, StaysGate DEF Base, Straight
<1>6. screen' = screen \/ screen' = Append(screen, event) BY <1>2
<1>7. InStep(Apart)'
  <2>1. Pipe(Apart, Held, wire, ipc, screen, acks) BY DEF Base, InStep
  <2>2. Pipe(Apart, Held, wire, ipc', screen', acks')
    BY <1>1, <1>2, <1>6, <2>1, PipeDispatch DEF event
  <2> QED BY <1>2, <1>5, <2>2 DEF InStep
<1>8. ASSUME Straight' PROVE InStep(Below)'
  <2>1. Pipe(Below, Held, wire, ipc, screen, acks) BY <1>2, <1>8 DEF Base, InStep, Straight
  <2>2. Pipe(Below, Held, wire, ipc', screen', acks')
    BY <1>1, <1>2, <1>6, <2>1, PipeDispatch DEF event
  <2> QED BY <1>2, <1>5, <2>2 DEF InStep
<1>9. Typed'
  <2>1. Held' \cup ToSet(wire') \cup ToSet(ipc') \cup ToSet(screen') \cup ToSet(acks')
          \subseteq Known(produced', core'.listed)
    BY <1>2, <1>3, <1>4, <1>5, <1>6, KindsOf
  <2>2. core'.gated \in 0..produced' BY <1>2, KindsOf
  <2>3. page'.writing \in 0..Len(screen')
    <3>1. page.writing \in 0..Len(screen) /\ Len(screen) \in Nat BY KindsOf
    <3>2. Len(Append(screen, event)) = Len(screen) + 1 BY <1>1, <1>2
    <3> QED BY <1>2, <3>1, <3>2
  <2> QED BY <2>1, <2>2, <2>3 DEF Typed
<1>10. 1..produced \subseteq Chunks /\ \A n \in 1..produced : n # Disconnected
  BY <1>1, Numbers DEF Chunks, Disconnected
<1>11. ToSet(screen) \subseteq ToSet(screen') /\ lost \subseteq lost' BY <1>2, <1>4
<1>12. ASSUME page'.attached \/ page'.setup = "new", NEW n \in 1..produced
       PROVE  n \in ToSet(screen') \cup lost' \cup ToSet(ipc') \cup ToSet(wire) \cup Held
  <2>1. n \in ToSet(screen) \cup lost \cup ToSet(ipc) \cup ToSet(wire) \cup Held
    BY <1>2, <1>12 DEF Base, Conserved
  <2>2. CASE n # event BY <1>2, <1>3, <1>11, <2>1, <2>2
  <2>3. CASE n = event
    <3>1. event \in Chunks BY <1>10, <1>12, <2>3
    <3>2. event \in ToSet(screen') \cup lost' BY <1>2, <1>4, <1>12, <3>1
    <3> QED BY <2>3, <3>2
  <2> QED BY <2>2, <2>3
<1>13. ASSUME page'.status = "disconnected"
       PROVE  ~core.listed /\ (Straight => 1..produced \subseteq ToSet(screen') \cup lost')
  <2>1. CASE page.status = "disconnected"
    BY <1>11, <2>1 DEF Base, Conserved
  <2>2. CASE page.status # "disconnected"
    <3>1. page.attached /\ event \notin Chunks /\ event # Connected
      BY <1>2, <1>13, <2>2
    <3>2. event = Disconnected
      BY <1>2, <3>1, Numbers DEF Events, Chunks, Connected, Disconnected
    <3>3. Disconnected \in Known(produced, core.listed) BY <1>3, <3>2, KindsOf
    <3>4. ~core.listed BY <1>1, <3>3, Numbers DEF Known, Disconnected, Connected
    <3>5. ASSUME Straight, NEW n \in 1..produced PROVE n \in ToSet(screen') \cup lost'
      <4>1. n \in ToSet(screen') \cup lost' \cup ToSet(ipc') \cup ToSet(wire) \cup Held
        BY <1>2, <1>12, <3>1, <3>5
      <4>2. ASSUME n \in ToSet(ipc') \cup ToSet(wire) \cup Held PROVE FALSE
        <5>1. <<Disconnected, n>> \in Below
          <6>1. Disconnected \in ToSet(acks') BY <1>4, <3>2
          <6>2. InStep(Below)' BY <1>2, <1>8, <3>5 DEF Straight
          <6>3. Precede(ToSet(screen') \cup ToSet(acks'), ToSet(ipc') \cup ToSet(wire') \cup Held', Below)
            BY <6>2 DEF InStep, Pipe
          <6> QED BY <1>2, <1>5, <4>2, <6>1, <6>3 DEF Precede
        <5>2. n \in Nat /\ n <= MaxChunks BY <1>1, Numbers
        <5> QED BY <5>1, <5>2, Numbers DEF Below, Disconnected
      <4> QED BY <4>1, <4>2
    <3> QED BY <3>4, <3>5
  <2> QED BY <2>1, <2>2
<1>14. Conserved'
  BY <1>2, <1>5, <1>12, <1>13 DEF Conserved, Straight
<1> QED BY <1>5, <1>7, <1>8, <1>9, <1>14 DEF Base

-----------------------------------------------------------------------------
(* Types.                                                                  *)

Flow == [pending : SUBSET Events, paused : BOOLEAN, awaitingRenderer : BOOLEAN]
Calls == [paused : BOOLEAN, state : {"sent", "done", "failed"}]

CoreTypes == /\ produced \in 0..MaxChunks /\ core \in Session
             /\ emitting \in Seq(Seq(Events)) /\ wire \in Seq(Events) /\ lost \subseteq Chunks
MainTypes == flow \in Flow /\ ipc \in Seq(Events) /\ acks \in Seq(Events)
PageTypes == page \in Page /\ commands \in Seq(Calls) /\ screen \in Seq(Chunks)

LEMMA TypesAre == TypeOK <=> CoreTypes /\ MainTypes /\ PageTypes
  BY DEF TypeOK, CoreTypes, MainTypes, PageTypes, Session, Flow, Page, Calls

LEMMA TypesThen ==
  ASSUME CoreTypes', MainTypes', PageTypes'
  PROVE  TypeOK'
  BY DEF TypeOK, CoreTypes, MainTypes, PageTypes, Session, Flow, Page, Calls

LEMMA EmitsTypes ==
  ASSUME NEW events \in Seq(Events), NEW others \in Seq(Seq(Events)), wire \in Seq(Events),
         Emits(events, others)
  PROVE  wire' \in Seq(Events) /\ emitting' \in Seq(Seq(Events))
<1> DEFINE n == Written(events)
<1>1. n \in 0..Len(events) BY WrittenOf
<1>2. SubSeq(events, 1, n) \in Seq(Events) /\ SubSeq(events, n + 1, Len(events)) \in Seq(Events)
  BY <1>1, SplitElems
<1>3. wire \o SubSeq(events, 1, n) \in Seq(Events) BY <1>2
<1>4. Append(others, SubSeq(events, n + 1, Len(events))) \in Seq(Seq(Events))
  BY <1>2, InHandAppend
<1> QED BY <1>3, <1>4 DEF Emits

LEMMA ChunksAreEvents ==
  ASSUME NEW s \in Seq(Chunks)
  PROVE  s \in Seq(Events)
<1>1. Chunks \subseteq Events BY Numbers
<1> HIDE DEF Chunks, Events
<1> QED BY <1>1

LEMMA FlushTypes ==
  ASSUME NEW c \in Session, Flush(c), wire \in Seq(Events), emitting \in Seq(Seq(Events))
  PROVE  core' \in Session /\ wire' \in Seq(Events) /\ emitting' \in Seq(Seq(Events))
<1>1. c.buffered \in Seq(Events) BY ChunksAreEvents DEF Session
<1>2. CASE c.ready /\ ~c.paused
  <2>1. <<>> \in Seq(Chunks) /\ 0 \in 0..MaxChunks BY Numbers
  <2>2. core' \in Session BY <1>2, <2>1 DEF Flush, Spliced, Session
  <2> QED BY <1>1, <1>2, <2>2, EmitsTypes DEF Flush
<1>3. CASE ~(c.ready /\ ~c.paused) BY <1>3 DEF Flush
<1> QED BY <1>2, <1>3

LEMMA OutputTypes ==
  ASSUME Base, Output
  PROVE  TypeOK'
<1> DEFINE chunk == produced + 1
           full == [core EXCEPT !.buffered = Append(@, chunk), !.gated = @ + 1]
           open == [full EXCEPT !.ready = TRUE]
<1>1. /\ chunk \in Chunks /\ produced' = chunk
      /\ UNCHANGED <<flow, ipc, acks, page, commands, screen, lost>>
  BY DEF Output, flowVars
<1>2. CoreTypes /\ MainTypes /\ PageTypes BY TypesAre DEF Base, Typed
<1>3. full \in Session /\ open \in Session
  <2>1. core.buffered \in Seq(Chunks) /\ core.gated \in 0..produced /\ produced \in 0..MaxChunks
        /\ core \in Session
    BY TypesOf DEF Base, Typed
  <2>2. core.gated + 1 \in 0..MaxChunks BY <1>1, <2>1, Numbers DEF Chunks
  <2>3. Append(core.buffered, chunk) \in Seq(Chunks)
    <3> HIDE DEF chunk, Chunks
    <3> QED BY <1>1, <2>1
  <2>4. full \in Session BY <2>1, <2>2, <2>3 DEF Session
  <2> HIDE DEF full
  <2> QED BY <2>4 DEF Session
<1>4. core' \in Session /\ wire' \in Seq(Events) /\ emitting' \in Seq(Seq(Events))
  <2>1. CASE Flush(open) BY <1>2, <1>3, <2>1, FlushTypes DEF CoreTypes
  <2>2. CASE core' = full /\ UNCHANGED <<emitting, wire, slips>>
    BY <1>2, <1>3, <2>2 DEF CoreTypes
  <2>3. CASE wire' = Append(wire, chunk) /\ UNCHANGED <<core, emitting>>
    <3>1. chunk \in Events /\ wire \in Seq(Events) BY <1>1, <1>2, Numbers DEF CoreTypes
    <3>2. Append(wire, chunk) \in Seq(Events) BY <3>1, AppendElems
    <3> QED BY <1>2, <2>3, <3>2 DEF CoreTypes
  <2> HIDE DEF full, open
  <2> QED BY <2>1, <2>2, <2>3 DEF Output, full, open
<1>5. produced' \in 0..MaxChunks BY <1>1, Numbers DEF Chunks
<1>6. CoreTypes' BY <1>1, <1>2, <1>4, <1>5 DEF CoreTypes
<1>7. MainTypes' /\ PageTypes' BY <1>1, <1>2 DEF MainTypes, PageTypes
<1> QED BY <1>6, <1>7, TypesThen

LEMMA DrainedTypes ==
  ASSUME Base, Drained
  PROVE  TypeOK'
<1>1. CoreTypes /\ MainTypes /\ PageTypes BY TypesAre DEF Base, Typed
<1>2. /\ emitting # <<>> /\ Emits(Head(emitting), Tail(emitting))
      /\ core' = [core EXCEPT !.gated = IF Waits(Head(emitting)) THEN @ ELSE 0]
      /\ UNCHANGED <<produced, flow, ipc, acks, page, commands, screen, lost>>
  BY DEF Drained, flowVars
<1>3. Head(emitting) \in Seq(Events) /\ Tail(emitting) \in Seq(Seq(Events))
  BY <1>1, <1>2, InHandTail DEF CoreTypes
<1>4. wire' \in Seq(Events) /\ emitting' \in Seq(Seq(Events))
  BY <1>1, <1>2, <1>3, EmitsTypes DEF CoreTypes
<1>5. core' \in Session
  <2>1. (IF Waits(Head(emitting)) THEN core.gated ELSE 0) \in 0..MaxChunks
    BY <1>1, Numbers DEF CoreTypes, Session
  <2> QED BY <1>1, <1>2, <2>1 DEF CoreTypes, Session
<1>6. CoreTypes' BY <1>1, <1>2, <1>4, <1>5 DEF CoreTypes
<1>7. MainTypes' /\ PageTypes' BY <1>1, <1>2 DEF MainTypes, PageTypes
<1> QED BY <1>6, <1>7, TypesThen

LEMMA FinishTypes ==
  ASSUME Base, Finish
  PROVE  TypeOK'
<1> DEFINE open == core.ready /\ ~core.paused
<1>1. CoreTypes /\ MainTypes /\ PageTypes BY TypesAre DEF Base, Typed
<1>2. /\ core' = [core EXCEPT !.listed = FALSE, !.buffered = <<>>]
      /\ Emits(Ending(open), emitting)
      /\ lost' = IF open THEN lost ELSE lost \cup ToSet(core.buffered)
      /\ UNCHANGED <<produced, flow, ipc, acks, page, commands, screen>>
  BY DEF Finish, flowVars
<1>3. core.buffered \in Seq(Chunks) /\ core.buffered \in Seq(Events) /\ Disconnected \in Events
  BY TypesOf, Numbers DEF Base
<1>4. Ending(open) \in Seq(Events)
  <2>1. \A s \in Seq(Events), e \in Events : s \o <<e>> \in Seq(Events) /\ <<>> \o <<e>> \in Seq(Events)
    <3> HIDE DEF Events
    <3> QED OBVIOUS
  <2> QED BY <1>3, <2>1 DEF Ending
<1>5. wire' \in Seq(Events) /\ emitting' \in Seq(Seq(Events))
  BY <1>1, <1>2, <1>4, EmitsTypes DEF CoreTypes
<1>6. core' \in Session
  <2>1. <<>> \in Seq(Chunks) OBVIOUS
  <2> QED BY <1>1, <1>2, <2>1 DEF CoreTypes, Session
<1>7. ToSet(core.buffered) \subseteq Chunks
  <2> HIDE DEF Chunks
  <2> QED BY <1>3 DEF ToSet
<1>8. CoreTypes' BY <1>1, <1>2, <1>5, <1>6, <1>7 DEF CoreTypes
<1>9. MainTypes' /\ PageTypes' BY <1>1, <1>2 DEF MainTypes, PageTypes
<1> QED BY <1>8, <1>9, TypesThen

LEMMA PushTypes ==
  ASSUME Base, Push
  PROVE  TypeOK'
<1>1. CoreTypes /\ MainTypes /\ PageTypes BY TypesAre DEF Base, Typed
<1>2. UNCHANGED <<produced, core, emitting, acks, page, commands, screen, lost>>
  BY DEF Push, coreVars, history
<1>3. PICK n \in 1..MaxBurst :
        /\ n <= Len(wire)
        /\ wire' = SubSeq(wire, n + 1, Len(wire))
        /\ ipc' = ipc \o SubSeq(wire, 1, n)
        /\ flow' = [flow EXCEPT
             !.pending = @ \cup ToSet(SubSeq(wire, 1, n)),
             !.paused = Cardinality(flow.pending) + n >= FlowHigh]
  BY DEF Push
<1>4. wire \in Seq(Events) /\ ipc \in Seq(Events) /\ flow \in Flow
  BY <1>1 DEF CoreTypes, MainTypes
<1>5. n \in 0..Len(wire)
  <2>1. Len(wire) \in Nat BY <1>4
  <2> QED BY <1>3, <2>1
<1>6. SubSeq(wire, 1, n) \in Seq(Events) /\ wire' \in Seq(Events)
  BY <1>3, <1>4, <1>5, SplitElems
<1>7. ToSet(SubSeq(wire, 1, n)) \subseteq Events BY <1>6, ElemsOf
<1>8. ipc' \in Seq(Events) BY <1>3, <1>4, <1>6
<1>9. flow' \in Flow
  <2>1. flow.pending \cup ToSet(SubSeq(wire, 1, n)) \in SUBSET Events BY <1>4, <1>7 DEF Flow
  <2>2. (Cardinality(flow.pending) + n >= FlowHigh) \in BOOLEAN OBVIOUS
  <2> QED BY <1>3, <1>4, <2>1, <2>2 DEF Flow
<1>10. CoreTypes' BY <1>1, <1>2, <1>6 DEF CoreTypes
<1>11. MainTypes' /\ PageTypes' BY <1>1, <1>2, <1>8, <1>9 DEF MainTypes, PageTypes
<1> QED BY <1>10, <1>11, TypesThen

(* setOutputPaused keeps the types. *)
LEMMA SettingTypes ==
  ASSUME NEW p \in Page, NEW v \in BOOLEAN, SetOutputPaused(p, v), commands \in Seq(Calls)
  PROVE  page' \in Page /\ commands' \in Seq(Calls)
<1>1. Call(v) \in Calls BY DEF Call, Calls
<1>2. commands' \in Seq(Calls) BY <1>1 DEF SetOutputPaused
<1>3. page' \in Page BY DEF SetOutputPaused, Page
<1> QED BY <1>2, <1>3

LEMMA DispatchTypes ==
  ASSUME Base, Dispatch
  PROVE  TypeOK'
<1> DEFINE event == Head(ipc)
           p == [page EXCEPT !.writing = @ + 1]
<1>1. CoreTypes /\ MainTypes /\ PageTypes BY TypesAre DEF Base, Typed
<1>2. /\ ipc # <<>> /\ ipc' = Tail(ipc) /\ acks' = Append(acks, event)
      /\ UNCHANGED <<produced, core, emitting, wire, flow>>
  BY DEF Dispatch, coreVars
<1>3. event \in Events /\ Tail(ipc) \in Seq(Events) /\ Append(acks, event) \in Seq(Events)
  BY <1>1, <1>2, TailElems, AppendElems DEF MainTypes
<1>4. MainTypes' BY <1>1, <1>2, <1>3 DEF MainTypes
<1> HIDE DEF event
<1>5. CASE /\ ~page.attached
           /\ lost' = IF event \in Chunks /\ page.setup = "new" THEN lost \cup {event} ELSE lost
           /\ UNCHANGED <<page, commands, screen>>
  <2>1. CoreTypes' BY <1>1, <1>2, <1>5 DEF CoreTypes
  <2>2. PageTypes' BY <1>1, <1>5 DEF PageTypes
  <2> QED BY <1>4, <2>1, <2>2, TypesThen
<1>6. CASE /\ page.attached /\ event \in Chunks
           /\ screen' = Append(screen, event)
           /\ \/ SetOutputPaused(p, TRUE)
              \/ page' = p /\ UNCHANGED commands
           /\ UNCHANGED lost
  <2>1. screen \in Seq(Chunks) /\ screen \in Seq(Events) /\ page \in Page
        /\ page.writing \in 0..Len(screen)
    BY <1>1, ChunksAreEvents DEF PageTypes, Base, Typed
  <2>2. Append(screen, event) \in Seq(Chunks) /\ Len(Append(screen, event)) = Len(screen) + 1
        /\ Len(screen) \in Nat
    <3> HIDE DEF Chunks
    <3> QED BY <1>6, <2>1
  <2>3. Len(screen) + 1 <= MaxChunks
    <3>1. Pipe(Apart, Held, wire, ipc, screen, acks) BY DEF Base, InStep
    <3>2. Sorted(Append(screen, event), Apart)
      BY <1>1, <1>2, <2>1, <3>1, PipeDispatch DEF event, Pipe, CoreTypes, MainTypes
    <3>3. IsFiniteSet(Chunks) /\ Cardinality(Chunks) = MaxChunks
      BY Numbers, FS_Interval DEF Chunks
    <3> QED BY <2>2, <3>2, <3>3, ShortEnough
  <2>4. p \in Page
    <3>1. page.writing + 1 \in 0..MaxChunks BY <2>1, <2>2, <2>3, Numbers
    <3> QED BY <2>1, <3>1 DEF Page
  <2> HIDE DEF p
  <2>5. page' \in Page /\ commands' \in Seq(Calls)
    BY <1>1, <1>6, <2>4, SettingTypes DEF PageTypes
  <2>6. PageTypes' BY <1>6, <2>2, <2>5 DEF PageTypes
  <2>7. CoreTypes' BY <1>1, <1>2, <1>6 DEF CoreTypes
  <2> QED BY <1>4, <2>6, <2>7, TypesThen
<1>7. CASE /\ page' = [page EXCEPT !.status = IF event = Connected THEN "connected"
                                              ELSE "disconnected"]
           /\ UNCHANGED <<commands, screen, lost>>
  <2>1. page' \in Page BY <1>1, <1>7 DEF PageTypes, Page, Statuses
  <2>2. PageTypes' BY <1>1, <1>7, <2>1 DEF PageTypes
  <2>3. CoreTypes' BY <1>1, <1>2, <1>7 DEF CoreTypes
  <2> QED BY <1>4, <2>2, <2>3, TypesThen
<1> QED BY <1>5, <1>6, <1>7 DEF Dispatch, event

(* A step that changes the page and its calls alone, or the faults.        *)
LEMMA PageOnly ==
  ASSUME Base, UNCHANGED <<produced, core, emitting, wire, flow, ipc, acks, screen, lost>>,
         page' \in Page, commands' \in Seq(Calls)
  PROVE  TypeOK'
<1>1. CoreTypes /\ MainTypes /\ PageTypes BY TypesAre DEF Base, Typed
<1>2. CoreTypes' /\ MainTypes' /\ PageTypes'
  BY <1>1 DEF CoreTypes, MainTypes, PageTypes
<1> QED BY <1>2, TypesThen

LEMMA AckTypes ==
  ASSUME Base, Ack
  PROVE  TypeOK'
<1>1. CoreTypes /\ MainTypes /\ PageTypes BY TypesAre DEF Base, Typed
<1>2. /\ acks # <<>> /\ acks' = Tail(acks)
      /\ UNCHANGED <<produced, core, emitting, wire, ipc, page, commands, screen, lost>>
  BY DEF Ack, coreVars, history
<1>3. Tail(acks) \in Seq(Events) BY <1>1, <1>2, TailElems DEF MainTypes
<1>4. flow' \in Flow
  <2> DEFINE left == flow.pending \ {Head(acks)}
  <2>1. flow \in Flow BY <1>1 DEF MainTypes
  <2>2. flow' = flow
        \/ flow' = [flow EXCEPT
             !.pending = left,
             !.paused = @ /\ (flow.awaitingRenderer \/ Cardinality(left) > FlowLow)]
    BY DEF Ack
  <2>3. left \in SUBSET Events BY <2>1 DEF Flow
  <2> HIDE DEF left
  <2>4. (flow.paused /\ (flow.awaitingRenderer \/ Cardinality(left) > FlowLow)) \in BOOLEAN
    OBVIOUS
  <2> QED BY <2>1, <2>2, <2>3, <2>4 DEF Flow
<1>5. CoreTypes' /\ MainTypes' /\ PageTypes'
  BY <1>1, <1>2, <1>3, <1>4 DEF CoreTypes, MainTypes, PageTypes
<1> QED BY <1>5, TypesThen

-----------------------------------------------------------------------------
(* The remaining steps.                                                    *)

(* A step of the page: the page and its calls change, nothing of the       *)
(* output moves.                                                           *)
PageStep ==
  /\ UNCHANGED <<produced, core, emitting, wire, flow, ipc, acks, screen, lost>>
  /\ page' \in Page /\ commands' \in Seq(Calls)
  /\ Straight' <=> Straight
  /\ page'.status = page.status \/ page'.status # "disconnected"
  /\ page'.attached \/ page'.setup = "new" => page.attached \/ page.setup = "new"
  /\ page'.writing \in 0..page.writing

LEMMA PageStepKeeps ==
  ASSUME Base, PageStep
  PROVE  Base'
<1>1. TypeOK' BY PageOnly DEF PageStep
<1>2. page.writing \in 0..Len(screen) /\ Len(screen) \in Nat BY KindsOf
<1>3. page'.writing \in 0..Len(screen)
  <2>1. page'.writing \in 0..page.writing BY DEF PageStep
  <2> QED BY <1>2, <2>1
<1> QED BY <1>1, <1>3, FewerKeeps DEF PageStep

LEMMA PageKinds ==
  ASSUME Base
  PROVE  page \in Page /\ commands \in Seq(Calls) /\ page.writing \in Nat
         /\ page.writing \in 0..page.writing /\ 0 \in 0..page.writing
<1>1. page \in Page /\ commands \in Seq(Calls) BY TypesAre DEF Base, Typed, PageTypes
<1>2. page.writing \in Nat BY <1>1, Numbers DEF Page
<1> QED BY <1>1, <1>2

LEMMA SetupSteps ==
  ASSUME Base, Listen \/ ServeStatus \/ Reconcile
  PROVE  PageStep
<1>1. page \in Page /\ commands \in Seq(Calls) /\ page.writing \in 0..page.writing
  BY PageKinds
<1>2. UNCHANGED <<produced, core, emitting, wire, flow, ipc, acks, screen, lost, slips, commands>>
  BY DEF Listen, ServeStatus, Reconcile, coreVars, flowVars, history
<1>3. page' \in Page /\ page'.writing = page.writing
      /\ (page'.status = page.status \/ page'.status # "disconnected")
      /\ (page'.attached \/ page'.setup = "new" => page.attached \/ page.setup = "new")
  <2>1. CASE Listen BY <1>1, <2>1 DEF Listen, Page
  <2>2. CASE ServeStatus BY <1>1, <2>2 DEF ServeStatus, Page
  <2>3. CASE Reconcile
    <3>1. Reconciled \in Statuses /\ (Reconciled = page.status \/ Reconciled # "disconnected")
      BY <1>1 DEF Reconciled, Page, Statuses
    <3>2. page' = [page EXCEPT !.setup = "marking", !.status = Reconciled] BY <2>3 DEF Reconcile
    <3> QED BY <1>1, <3>1, <3>2 DEF Page
  <2> QED BY <2>1, <2>2, <2>3
<1> QED BY <1>1, <1>2, <1>3 DEF PageStep, Straight

(* A step that may set the pause, from a page that is p otherwise.         *)
LEMMA SettingStep ==
  ASSUME Base, NEW p \in Page, NEW v \in BOOLEAN,
         UNCHANGED <<produced, core, emitting, wire, flow, ipc, acks, screen, lost, slips>>,
         SetOutputPaused(p, v) \/ (page' = p /\ UNCHANGED commands),
         p.status = page.status,
         p.attached \/ p.setup = "new" => page.attached \/ page.setup = "new",
         p.writing \in 0..page.writing
  PROVE  PageStep
<1>1. page \in Page /\ commands \in Seq(Calls) BY PageKinds
<1>2. page' \in Page /\ commands' \in Seq(Calls) BY <1>1, SettingTypes
<1>3. DOMAIN p = DOMAIN page BY <1>1 DEF Page
<1>4. /\ page'.attached = p.attached /\ page'.status = p.status
      /\ page'.writing = p.writing /\ page'.setup = p.setup
  BY <1>1, <1>3, SettingPaused
<1> QED BY <1>2, <1>4 DEF PageStep, Straight

LEMMA ParsedStep ==
  ASSUME Base, Parsed
  PROVE  PageStep
<1> DEFINE p == [page EXCEPT !.writing = @ - 1]
<1>1. page \in Page /\ page.writing \in Nat BY PageKinds
<1>2. /\ page.writing > 0
      /\ UNCHANGED <<produced, core, emitting, wire, flow, ipc, acks, screen, lost, slips>>
      /\ SetOutputPaused(p, FALSE) \/ (page' = p /\ UNCHANGED commands)
  BY DEF Parsed, coreVars, flowVars, history
<1>3. page.writing - 1 \in 0..page.writing /\ page.writing - 1 \in 0..MaxChunks
  BY <1>1, <1>2, Numbers DEF Page
<1>4. p \in Page /\ p.status = page.status /\ p.attached = page.attached
      /\ p.setup = page.setup /\ p.writing = page.writing - 1
  BY <1>1, <1>3 DEF Page
<1> HIDE DEF p
<1> QED BY <1>2, <1>3, <1>4, SettingStep

LEMMA RetryStep ==
  ASSUME Base, Retry
  PROVE  PageStep
<1> DEFINE p == [page EXCEPT !.retry = FALSE]
<1>1. page \in Page /\ page.writing \in 0..page.writing BY PageKinds
<1>2. /\ UNCHANGED <<produced, core, emitting, wire, flow, ipc, acks, screen, lost, slips>>
      /\ SetOutputPaused(p, FALSE) \/ (page' = p /\ UNCHANGED commands)
  BY DEF Retry, coreVars, flowVars, history
<1>3. p \in Page /\ p.status = page.status /\ p.attached = page.attached
      /\ p.setup = page.setup /\ p.writing = page.writing
  BY <1>1 DEF Page
<1> HIDE DEF p
<1> QED BY <1>1, <1>2, <1>3, SettingStep

LEMMA DetachStep ==
  ASSUME Base, Detach
  PROVE  PageStep
<1> DEFINE p == [page EXCEPT !.attached = FALSE, !.retry = FALSE, !.writing = 0,
                             !.setup = IF @ = "new" THEN "gone" ELSE @]
<1>1. page \in Page /\ 0 \in 0..page.writing BY PageKinds
<1>2. /\ UNCHANGED <<produced, core, emitting, wire, flow, ipc, acks, screen, lost, slips>>
      /\ SetOutputPaused(p, FALSE) \/ (page' = p /\ UNCHANGED commands)
  BY DEF Detach, coreVars, flowVars, history
<1>3. p \in Page /\ p.status = page.status /\ p.attached = FALSE
      /\ p.setup # "new" /\ p.writing = 0
  <2>1. (IF page.setup = "new" THEN "gone" ELSE page.setup)
          \in {"asking", "connected", "failed", "marking", "marked", "gone"}
    BY <1>1 DEF Page
  <2>2. 0 \in 0..MaxChunks BY Numbers
  <2> QED BY <1>1, <2>1, <2>2 DEF Page
<1> HIDE DEF p
<1> QED BY <1>1, <1>2, <1>3, SettingStep

LEMMA CallSteps ==
  ASSUME Base, PauseFails \/ PauseReturns
  PROVE  PageStep
<1>1. page \in Page /\ commands \in Seq(Calls) /\ page.writing \in 0..page.writing
  BY PageKinds
<1>2. UNCHANGED <<produced, core, emitting, wire, flow, ipc, acks, screen, lost>>
  BY DEF PauseFails, PauseReturns, coreVars, flowVars, history
<1>3. CASE PauseFails
  <2>1. commands # <<>> /\ commands' = [commands EXCEPT ![1].state = "failed"]
        /\ UNCHANGED <<page, slips>>
    BY <1>3 DEF PauseFails, history
  <2>2. commands' \in Seq(Calls)
    <3>1. commands[1] \in Calls /\ 1 \in 1..Len(commands) BY <1>1, <2>1
    <3>2. [commands[1] EXCEPT !.state = "failed"] \in Calls BY <3>1 DEF Calls
    <3> HIDE DEF Calls
    <3> QED BY <1>1, <2>1, <3>1, <3>2
  <2> QED BY <1>1, <1>2, <2>1, <2>2 DEF PageStep, Straight
<1>4. CASE PauseReturns
  <2> DEFINE call == Head(commands)
  <2>1. commands # <<>> /\ commands' = Tail(commands) /\ slips' \subseteq slips \cup {"forgotten"}
        /\ slips \subseteq slips'
    BY <1>4 DEF PauseReturns
  <2>2. commands' \in Seq(Calls) BY <1>1, <2>1
  <2>3. page' \in Page /\ page'.writing = page.writing /\ page'.status = page.status
        /\ page'.attached = page.attached /\ page'.setup = page.setup
    <3>1. \/ page' = [page EXCEPT !.retry = @ /\ (call.paused \/ page.outputPaused)]
          \/ page' = [page EXCEPT !.outputPaused = FALSE]
          \/ page' = [page EXCEPT !.retry = @ \/ Retries(call)]
          \/ page' = page
      BY <1>4 DEF PauseReturns
    <3>2. /\ (page.retry /\ (call.paused \/ page.outputPaused)) \in BOOLEAN
          /\ (page.retry \/ Retries(call)) \in BOOLEAN
      OBVIOUS
    <3> HIDE DEF call
    <3> QED BY <1>1, <3>1, <3>2 DEF Page
  <2> QED BY <1>1, <1>2, <2>1, <2>2, <2>3 DEF PageStep, Straight
<1> QED BY <1>3, <1>4

LEMMA NavigationKeeps ==
  ASSUME Base, Navigation
  PROVE  Base'
<1>1. CoreTypes /\ MainTypes /\ PageTypes BY TypesAre DEF Base, Typed
<1>2. /\ UNCHANGED <<produced, core, emitting, wire, acks, screen, lost, slips>>
      /\ flow' = Navigating /\ ipc' = <<>>
      /\ page' = [setup |-> IF page.setup = "marking" THEN "marking" ELSE "gone",
                  attached |-> FALSE, status |-> page.status,
                  outputPaused |-> FALSE, writing |-> 0, retry |-> FALSE]
      /\ commands' = IF commands # <<>> /\ Head(commands).state = "sent"
                     THEN <<Head(commands)>> ELSE <<>>
  BY DEF Navigation, coreVars, history
<1>3. commands' \in Seq(Calls)
  <2>1. commands \in Seq(Calls) BY <1>1 DEF PageTypes
  <2> HIDE DEF Calls
  <2> QED BY <1>2, <2>1
<1>4. /\ page' \in Page /\ page'.attached = FALSE /\ page'.setup # "new"
      /\ page'.writing = 0 /\ page'.status = page.status
  <2>1. 0 \in 0..MaxChunks BY Numbers
  <2>2. page.status \in Statuses BY <1>1 DEF PageTypes, Page
  <2> QED BY <1>2, <2>1, <2>2 DEF Page
<1>5. flow' \in Flow BY <1>2 DEF Navigating, Flow
<1>6. <<>> \in Seq(Events) OBVIOUS
<1>7. CoreTypes' /\ MainTypes' /\ PageTypes'
  BY <1>1, <1>2, <1>3, <1>4, <1>5, <1>6 DEF CoreTypes, MainTypes, PageTypes
<1>8. 0 \in 0..Len(screen) BY KindsOf
<1> QED BY <1>2, <1>4, <1>7, <1>8, TypesThen, FewerKeeps DEF Straight

LEMMA MainKeeps ==
  ASSUME Base, Ack \/ PageReady
  PROVE  Base'
<1>1. CoreTypes /\ MainTypes /\ PageTypes BY TypesAre DEF Base, Typed
<1>2. UNCHANGED <<produced, core, emitting, wire, ipc, page, commands, screen, lost, slips>>
  BY DEF Ack, PageReady, coreVars, history
<1>3. TypeOK'
  <2>1. CASE Ack BY <2>1, AckTypes
  <2>2. CASE PageReady
    <3>1. flow' = [flow EXCEPT !.awaitingRenderer = FALSE, !.paused = FALSE] /\ acks' = acks
      BY <2>2 DEF PageReady, Ready
    <3>2. flow' \in Flow BY <1>1, <3>1 DEF MainTypes, Flow
    <3>3. CoreTypes' /\ MainTypes' /\ PageTypes'
      BY <1>1, <1>2, <3>1, <3>2 DEF CoreTypes, MainTypes, PageTypes
    <3> QED BY <3>3, TypesThen
  <2> QED BY <2>1, <2>2
<1>4. acks' = acks \/ (acks # <<>> /\ acks' = Tail(acks)) BY DEF Ack, PageReady
<1>5. page'.writing \in 0..Len(screen) BY <1>2, KindsOf
<1> QED BY <1>2, <1>3, <1>4, <1>5, FewerKeeps DEF Straight

(* mark_session_ready and set_session_output_paused, in the Session.       *)
LEMMA ServedKeeps ==
  ASSUME Base, MarkReady \/ ServePause
  PROVE  Base'
<1>1. CoreTypes /\ MainTypes /\ PageTypes BY TypesAre DEF Base, Typed
<1>2. UNCHANGED <<produced, flow, ipc, acks, screen, lost>>
  BY DEF MarkReady, ServePause, flowVars
<1>3. /\ page' \in Page /\ page'.attached = page.attached /\ page'.status = page.status
      /\ page'.writing = page.writing
      /\ (page'.setup = "new" => page.setup = "new")
  <2>1. CASE MarkReady BY <1>1, <2>1 DEF MarkReady, PageTypes, Page
  <2>2. CASE ServePause BY <1>1, <2>2 DEF ServePause, PageTypes, Page
  <2> QED BY <2>1, <2>2
<1>4. commands' \in Seq(Calls)
  <2>1. CASE MarkReady BY <1>1, <2>1 DEF MarkReady, PageTypes
  <2>2. CASE ServePause
    <3>1. commands # <<>> /\ commands \in Seq(Calls)
          /\ commands' = [commands EXCEPT ![1].state = IF core.listed THEN "done" ELSE "failed"]
      BY <1>1, <2>2 DEF ServePause, PageTypes
    <3>2. commands[1] \in Calls /\ 1 \in 1..Len(commands) BY <3>1
    <3>3. [commands[1] EXCEPT !.state = IF core.listed THEN "done" ELSE "failed"] \in Calls
      BY <3>2 DEF Calls
    <3> HIDE DEF Calls
    <3> QED BY <3>1, <3>2, <3>3
  <2> QED BY <2>1, <2>2
<1>5. CASE UNCHANGED <<core, emitting, wire, slips>>
  <2>1. PageStep
    BY <1>2, <1>3, <1>4, <1>5, PageKinds DEF PageStep, Straight
  <2> QED BY <2>1, PageStepKeeps
<1>6. ASSUME core.listed, NEW c \in Session, c.listed, c.buffered = core.buffered,
             c.gated = core.gated, Flush(c)
      PROVE  Base'
  <2>1. core' \in Session /\ wire' \in Seq(Events) /\ emitting' \in Seq(Seq(Events))
    BY <1>1, <1>6, FlushTypes DEF CoreTypes
  <2>2. CoreTypes' BY <1>1, <1>2, <2>1 DEF CoreTypes
  <2>3. MainTypes' /\ PageTypes' BY <1>1, <1>2, <1>3, <1>4 DEF MainTypes, PageTypes
  <2>4. TypeOK' BY <2>2, <2>3, TypesThen
  <2>5. Elsewhere BY <1>2, <1>3 DEF Elsewhere
  <2> QED BY <1>2, <1>3, <1>6, <2>4, <2>5, FlushMoves
<1>7. core \in Session BY <1>1 DEF CoreTypes
<1>8. CASE MarkReady /\ core.listed
  <2> DEFINE c == [core EXCEPT !.ready = TRUE]
  <2>1. Flush(c) BY <1>8 DEF MarkReady
  <2>2. c \in Session /\ c.listed = core.listed /\ c.buffered = core.buffered
        /\ c.gated = core.gated
    BY <1>7 DEF Session
  <2> HIDE DEF c
  <2> QED BY <1>6, <1>8, <2>1, <2>2
<1>9. CASE ServePause /\ core.listed
  <2> DEFINE c == [core EXCEPT !.paused = FALSE]
             d == [core EXCEPT !.paused = TRUE]
  <2>1. /\ c \in Session /\ c.listed = core.listed /\ c.buffered = core.buffered
        /\ c.gated = core.gated
        /\ d \in Session /\ d.listed = core.listed /\ d.buffered = core.buffered
        /\ d.gated = core.gated /\ d.paused = TRUE
    BY <1>7 DEF Session
  <2>2. (core' = d /\ UNCHANGED <<emitting, wire, slips>>) \/ Flush(c)
    BY <1>9 DEF ServePause
  <2> HIDE DEF c, d
  <2>3. Flush(d) \/ Flush(c) BY <2>1, <2>2 DEF Flush
  <2> QED BY <1>6, <1>9, <2>1, <2>3
<1>10. CASE ~core.listed
  <2>1. UNCHANGED <<core, emitting, wire, slips>>
    BY <1>10 DEF MarkReady, ServePause
  <2> QED BY <1>5, <2>1
<1> QED BY <1>8, <1>9, <1>10

LEMMA BaseInit ==
  ASSUME Init
  PROVE  Base
<1>1. /\ produced = 0 /\ emitting = <<>> /\ wire = <<Connected>> /\ ipc = <<>> /\ acks = <<>>
      /\ commands = <<>> /\ screen = <<>> /\ lost = {} /\ slips = {}
      /\ core = [listed |-> TRUE, ready |-> FALSE, paused |-> FALSE,
                 buffered |-> <<>>, gated |-> 0]
      /\ flow = [pending |-> {}, paused |-> FALSE, awaitingRenderer |-> FALSE]
      /\ page = [setup |-> "new", attached |-> FALSE, status |-> "connecting",
                 outputPaused |-> FALSE, writing |-> 0, retry |-> FALSE]
  BY DEF Init
<1>2. /\ core.buffered = <<>> /\ core.gated = 0 /\ core.listed = TRUE /\ core.ready = FALSE
      /\ page.writing = 0 /\ page.status = "connecting"
  BY <1>1
<1>3. wire \in Seq(Events) /\ ToSet(wire) = {Connected}
  <2>1. Connected \in Events BY Numbers
  <2> HIDE DEF Events, Connected
  <2>2. <<Connected>> \in Seq(Events) BY <2>1
  <2>3. ToSet(<<Connected>>) = {Connected} BY DEF ToSet
  <2> QED BY <1>1, <2>2, <2>3
<1>4. TypeOK
  <2>1. 0 \in 0..MaxChunks /\ <<>> \in Seq(Chunks) /\ <<>> \in Seq(Events)
        /\ <<>> \in Seq(Seq(Events)) /\ <<>> \in Seq(Calls)
    BY Numbers
  <2>2. CoreTypes BY <1>1, <1>3, <2>1 DEF CoreTypes, Session
  <2>3. MainTypes BY <1>1, <2>1 DEF MainTypes, Flow
  <2>4. PageTypes BY <1>1, <2>1 DEF PageTypes, Page, Statuses
  <2> QED BY <2>2, <2>3, <2>4, TypesAre
<1>5. ToSet(<<>>) = {} /\ \A R : Sorted(<<>>, R) BY NothingEmitted, SortedShort
<1>6. InHand(emitting) = {} BY <1>1 DEF InHand
<1>7. Held = {} BY <1>2, <1>5, <1>6 DEF Held
<1>8. DOMAIN emitting = {} BY <1>1
<1>9. Typed
  <2>1. core.gated \in 0..produced /\ page.writing \in 0..Len(screen)
    <3>1. Len(screen) = 0 BY <1>1
    <3> QED BY <1>1, <1>2, <3>1
  <2>2. Held \cup ToSet(wire) \cup ToSet(ipc) \cup ToSet(screen) \cup ToSet(acks)
          \subseteq Known(produced, core.listed)
    BY <1>1, <1>3, <1>5, <1>7 DEF Known
  <2> QED BY <1>4, <2>1, <2>2 DEF Typed
<1>10. Gate
  <2>1. Loops(emitting) /\ Alone(emitting) BY <1>8 DEF Loops, Alone
  <2> QED BY <1>2, <1>5, <1>6, <2>1 DEF Gate, Precede
<1>11. ASSUME NEW R PROVE InStep(R)
  <2>1. Sorted(wire, R) BY <1>1, SortedShort
  <2>2. Pipe(R, {}, wire, <<>>, <<>>, <<>>) BY <1>5, <2>1 DEF Pipe, Precede
  <2> QED BY <1>1, <1>7, <2>2 DEF InStep
<1>12. Conserved
  <2>1. 1..produced = {} BY <1>1
  <2> QED BY <1>2, <2>1 DEF Conserved
<1> QED BY <1>9, <1>10, <1>11, <1>12 DEF Base

LEMMA BaseNext ==
  ASSUME Base, [Next]_vars
  PROVE  Base'
<1>1. CASE Output BY <1>1, OutputTypes, OutputKeeps
<1>2. CASE Drained BY <1>2, DrainedTypes, DrainedKeeps
<1>3. CASE Finish BY <1>3, FinishTypes, FinishKeeps
<1>4. CASE Push BY <1>4, PushTypes, PushKeeps
<1>5. CASE Ack \/ PageReady BY <1>5, MainKeeps
<1>6. CASE Navigation BY <1>6, NavigationKeeps
<1>7. CASE Listen \/ ServeStatus \/ Reconcile BY <1>7, SetupSteps, PageStepKeeps
<1>8. CASE MarkReady \/ ServePause BY <1>8, ServedKeeps
<1>9. CASE Dispatch BY <1>9, DispatchTypes, DispatchKeeps
<1>10. CASE Parsed BY <1>10, ParsedStep, PageStepKeeps
<1>11. CASE Retry BY <1>11, RetryStep, PageStepKeeps
<1>12. CASE Detach BY <1>12, DetachStep, PageStepKeeps
<1>13. CASE PauseFails \/ PauseReturns BY <1>13, CallSteps, PageStepKeeps
<1>14. CASE UNCHANGED vars
  <2>1. UNCHANGED <<produced, core, emitting, wire, flow, ipc, acks, screen, lost, slips,
                    page, commands>>
    BY <1>14 DEF vars, coreVars, flowVars, history
  <2>2. PageStep BY <2>1, PageKinds DEF PageStep, Straight
  <2> QED BY <2>2, PageStepKeeps
<1> QED BY <1>1, <1>2, <1>3, <1>4, <1>5, <1>6, <1>7, <1>8, <1>9, <1>10, <1>11, <1>12, <1>13,
           <1>14 DEF Next, Controller

(* The invariant: in its five places the output is without repetition, and *)
(* in order until it overtakes a flush, and none is lost but as recorded.  *)
THEOREM BaseHolds == Spec => []Base
<1>1. Init => Base BY BaseInit
<1>2. Base /\ [Next]_vars => Base' BY BaseNext
<1> QED BY <1>1, <1>2, PTL DEF Spec

(* Every variable keeps its type: terminal.ts never counts more gated      *)
(* output than the shell has written, and the controller never waits for   *)
(* more callbacks of xterm than it has handed chunks to it.                *)
THEOREM TypeCorrect == Spec => []TypeOK
<1>1. Base => TypeOK BY DEF Base, Typed
<1> QED BY <1>1, BaseHolds, PTL

LEMMA BaseOrder ==
  ASSUME Base
  PROVE  OrderKept
<1> SUFFICES ASSUME Straight PROVE InOrder /\ (page.status = "disconnected" =>
               \A n \in 1..produced : n \in ToSet(screen) \cup lost)
  BY DEF OrderKept, Straight
<1>1. Sorted(screen, Below) BY DEF Base, InStep, Pipe
<1>2. InOrder BY <1>1 DEF InOrder, Sorted, Below
<1>3. page.status = "disconnected" => 1..produced \subseteq ToSet(screen) \cup lost
  BY DEF Base, Conserved
<1> QED BY <1>2, <1>3

(* Until output overtakes a flush, the screen shows the chunks in the      *)
(* order in which the shell wrote them and none twice, and a session that  *)
(* is shown to have ended has shown all of them but those recorded in      *)
(* lost, for every number of chunks, buffer and credit, and whatever fails *)
(* or is reloaded.                                                         *)
THEOREM StaysInOrder == Spec => []OrderKept
<1>1. Base => OrderKept BY BaseOrder
<1> QED BY <1>1, BaseHolds, PTL

(* Even then no chunk is shown twice: it is emitted once, and whatever is  *)
(* overtaken, paused, reloaded or tried again.                             *)
THEOREM NeverTwice == Spec => [](\A i, j \in DOMAIN screen : screen[i] = screen[j] => i = j)
<1>1. ASSUME Base
      PROVE  \A i, j \in DOMAIN screen : screen[i] = screen[j] => i = j
  <2>1. Sorted(screen, Apart) BY <1>1 DEF Base, InStep, Pipe
  <2>2. screen \in Seq(Events) BY <1>1, KindsOf
  <2>3. ASSUME NEW i \in DOMAIN screen, NEW j \in DOMAIN screen, screen[i] = screen[j] PROVE i = j
    <3>1. i \in Nat /\ j \in Nat BY <2>2
    <3>2. ~(i < j) BY <2>1, <2>3 DEF Sorted, Apart
    <3>3. ~(j < i) BY <2>1, <2>3 DEF Sorted, Apart
    <3> QED BY <3>1, <3>2, <3>3
  <2> QED BY <2>3
<1> QED BY <1>1, BaseHolds, PTL

-----------------------------------------------------------------------------
(* The credits.                                                            *)

LEMMA EventsFinite ==
  ASSUME NEW S, S \subseteq Events
  PROVE  IsFiniteSet(S) /\ Cardinality(S) \in Nat
<1>1. IsFiniteSet(Events) BY Numbers, FS_Interval DEF Events, Connected, Disconnected
<1>2. IsFiniteSet(S) BY <1>1, FS_Subset
<1> QED BY <1>2, FS_CardinalityType

LEMMA Bounds ==
  MaxBurst \in Nat /\ MaxBurst > 0 /\ FlowHigh \in Nat /\ FlowLow \in Nat /\ FlowLow < FlowHigh
  BY OutputAssumption

LEMMA Empty == Cardinality({}) = 0 /\ IsFiniteSet({})
  BY FS_EmptySet

LEMMA FewElems ==
  ASSUME NEW s \in Seq(Events)
  PROVE  Cardinality(ToSet(s)) <= Len(s)
<1>1. ToSet(s) = {s[i] : i \in 1..Len(s)} BY DEF ToSet
<1> QED BY <1>1, FewElements

(* What is underway is not more than the credits it has.                   *)
LEMMA Underway ==
  ASSUME Base, Credits
  PROVE  /\ flow \in Flow /\ Cardinality(flow.pending) \in Nat /\ IsFiniteSet(flow.pending)
         /\ Len(ipc) \in Nat /\ Len(ipc) <= Cardinality(flow.pending)
<1>1. flow \in Flow BY TypesAre DEF Base, Typed, MainTypes
<1>2. flow.pending \subseteq Events BY <1>1 DEF Flow
<1>3. IsFiniteSet(flow.pending) /\ Cardinality(flow.pending) \in Nat BY <1>2, EventsFinite
<1>4. ipc \in Seq(Events) /\ Sorted(ipc, Apart) BY KindsOf DEF InStep, Pipe
<1>5. ipc \in Seq(flow.pending)
  <2>1. ToSet(ipc) \subseteq flow.pending BY DEF Credits
  <2>2. \A i \in DOMAIN ipc : ipc[i] \in flow.pending BY <2>1 DEF ToSet
  <2> HIDE DEF Events
  <2> QED BY <1>4, <2>2
<1>6. Len(ipc) <= Cardinality(flow.pending) BY <1>3, <1>4, <1>5, ShortEnough
<1> QED BY <1>1, <1>3, <1>4, <1>6

LEMMA CreditsPush ==
  ASSUME Base, Credits, Push
  PROVE  Credits'
<1>1. PICK n \in 1..MaxBurst :
        /\ n <= Len(wire)
        /\ ipc' = ipc \o SubSeq(wire, 1, n)
        /\ flow' = [flow EXCEPT
             !.pending = @ \cup ToSet(SubSeq(wire, 1, n)),
             !.paused = Cardinality(flow.pending) + n >= FlowHigh]
  BY DEF Push
<1> DEFINE s == SubSeq(wire, 1, n)
<1>2. ~flow.paused /\ acks' = acks BY DEF Push
<1>3. wire \in Seq(Events) /\ ipc \in Seq(Events) BY KindsOf
<1>4. s \in Seq(Events) /\ Len(s) = n
  <2>1. n \in 0..Len(wire)
    <3>1. Len(wire) \in Nat BY <1>3
    <3> QED BY <1>1, <3>1
  <2> QED BY <1>3, <2>1
<1> HIDE DEF s
<1>5. /\ flow \in Flow /\ Cardinality(flow.pending) \in Nat /\ IsFiniteSet(flow.pending)
      /\ Len(ipc) \in Nat /\ Len(ipc) <= Cardinality(flow.pending)
  BY Underway
<1>6. /\ flow'.pending = flow.pending \cup ToSet(s)
      /\ flow'.paused = (Cardinality(flow.pending) + n >= FlowHigh)
      /\ flow'.awaitingRenderer = flow.awaitingRenderer
  BY <1>1, <1>5 DEF Flow, s
<1>7. ToSet(ipc') = ToSet(ipc) \cup ToSet(s) BY <1>1, <1>3, <1>4, ConcatElems DEF s
<1>8. Len(ipc') = Len(ipc) + n BY <1>1, <1>3, <1>4 DEF s
<1>9. Cardinality(flow.pending) < FlowHigh BY <1>2 DEF Credits
<1>10. Cardinality(flow'.pending) <= Cardinality(flow.pending) + n
       /\ Cardinality(flow'.pending) \in Nat
  <2>1. IsFiniteSet(ToSet(s)) /\ Cardinality(ToSet(s)) \in Nat
    BY <1>4, ElemsOf, EventsFinite
  <2>2. Cardinality(ToSet(s)) <= n BY <1>4, FewElems
  <2>3. /\ IsFiniteSet(flow.pending \cup ToSet(s))
        /\ Cardinality(flow.pending \cup ToSet(s))
             = Cardinality(flow.pending) + Cardinality(ToSet(s))
               - Cardinality(flow.pending \cap ToSet(s))
    BY <1>5, <2>1, FS_Union
  <2>4. Cardinality(flow.pending \cap ToSet(s)) \in Nat
    <3>1. flow.pending \cap ToSet(s) \subseteq Events BY <1>4, ElemsOf
    <3> QED BY <3>1, EventsFinite
  <2>5. Cardinality(flow.pending \cup ToSet(s)) \in Nat BY <2>3, FS_CardinalityType
  <2>6. \A a, b, c, d, m \in Nat : a = b + c - d /\ c <= m => a <= b + m OBVIOUS
  <2>7. n \in Nat OBVIOUS
  <2>8. Cardinality(flow.pending \cup ToSet(s)) <= Cardinality(flow.pending) + n
    BY <1>5, <2>1, <2>2, <2>3, <2>4, <2>5, <2>6, <2>7
  <2> QED BY <1>6, <2>5, <2>8
<1>11. ~flow'.paused => Cardinality(flow'.pending) < FlowHigh
  <2>1. CASE Cardinality(flow.pending) + n >= FlowHigh BY <1>6, <2>1
  <2>2. CASE ~(Cardinality(flow.pending) + n >= FlowHigh)
    BY <1>1, <1>5, <1>10, <2>2, Bounds
  <2> QED BY <2>1, <2>2
<1>12. ~flow'.awaitingRenderer BY <1>2, <1>6 DEF Credits
<1>13. Len(ipc') < FlowHigh + MaxBurst BY <1>1, <1>5, <1>8, <1>9, Bounds
<1>14. ToSet(ipc') \subseteq flow'.pending /\ flow'.pending \subseteq ToSet(ipc') \cup ToSet(acks')
  BY <1>2, <1>6, <1>7 DEF Credits
<1> QED BY <1>11, <1>12, <1>13, <1>14 DEF Credits

LEMMA CreditsAck ==
  ASSUME Base, Credits, Ack
  PROVE  Credits'
<1> DEFINE e == Head(acks)
           left == flow.pending \ {e}
<1>1. /\ acks # <<>> /\ acks' = Tail(acks) /\ ipc' = ipc
      /\ IF e \notin flow.pending THEN flow' = flow
         ELSE flow' = [flow EXCEPT
                !.pending = left,
                !.paused = @ /\ (flow.awaitingRenderer \/ Cardinality(left) > FlowLow)]
  BY DEF Ack
<1>2. acks \in Seq(Events) /\ ipc \in Seq(Events) BY KindsOf
<1>3. ToSet(acks) = {e} \cup ToSet(acks') BY <1>1, <1>2, TailElems
<1>4. e \notin ToSet(ipc)
  <2>1. Precede(ToSet(acks), ToSet(ipc), Apart) BY KindsOf DEF InStep, Pipe, Precede
  <2> QED BY <1>3, <2>1 DEF Precede, Apart
<1>5. /\ flow \in Flow /\ Cardinality(flow.pending) \in Nat /\ IsFiniteSet(flow.pending)
  BY Underway
<1>6. Cardinality(left) <= Cardinality(flow.pending) /\ Cardinality(left) \in Nat
  <2>1. left \in SUBSET flow.pending OBVIOUS
  <2> HIDE DEF left
  <2>2. Cardinality(left) <= Cardinality(flow.pending) /\ IsFiniteSet(left)
    BY <1>5, <2>1, FS_Subset
  <2> QED BY <2>2, FS_CardinalityType
<1>7. CASE e \notin flow.pending
  <2>1. flow' = flow BY <1>1, <1>7
  <2>2. flow.pending \subseteq ToSet(ipc) \cup ToSet(acks')
    BY <1>3, <1>7 DEF Credits
  <2> QED BY <1>1, <2>1, <2>2 DEF Credits
<1>8. CASE e \in flow.pending
  <2>1. flow' = [flow EXCEPT
                  !.pending = left,
                  !.paused = @ /\ (flow.awaitingRenderer \/ Cardinality(left) > FlowLow)]
    BY <1>1, <1>8
  <2>2. flow'.pending = left /\ flow'.awaitingRenderer = flow.awaitingRenderer
    BY <1>5, <2>1 DEF Flow
  <2>3. flow'.paused = (flow.paused /\ (flow.awaitingRenderer \/ Cardinality(left) > FlowLow))
    <3> HIDE DEF left
    <3> QED BY <1>5, <2>1 DEF Flow
  <2>4. ToSet(ipc) \subseteq left /\ left \subseteq ToSet(ipc) \cup ToSet(acks')
    BY <1>3, <1>4 DEF Credits
  <2>5. flow.awaitingRenderer => flow'.paused /\ left = {}
    BY <2>3 DEF Credits
  <2>6. ~flow'.paused => Cardinality(left) < FlowHigh
    <3>1. ~flow.paused => Cardinality(flow.pending) < FlowHigh BY DEF Credits
    <3>2. ~flow'.paused => ~flow.paused \/ ~(Cardinality(left) > FlowLow) BY <2>3
    <3> HIDE DEF left
    <3> QED BY <1>5, <1>6, <3>1, <3>2, Bounds
  <2>7. ipc' = ipc /\ Len(ipc) < FlowHigh + MaxBurst BY <1>1 DEF Credits
  <2> HIDE DEF left, e
  <2>8. ToSet(ipc') \subseteq flow'.pending /\ flow'.pending \subseteq ToSet(ipc') \cup ToSet(acks')
    BY <2>2, <2>4, <2>7
  <2>9. ~flow'.paused => Cardinality(flow'.pending) < FlowHigh BY <2>2, <2>6
  <2>10. flow'.awaitingRenderer => flow'.paused /\ flow'.pending = {} BY <2>2, <2>5
  <2>11. Len(ipc') < FlowHigh + MaxBurst BY <2>7
  <2> QED BY <2>8, <2>9, <2>10, <2>11 DEF Credits
<1> QED BY <1>7, <1>8

LEMMA CreditsNext ==
  ASSUME Base, Credits, [Next]_vars
  PROVE  Credits'
<1>1. CASE Push BY <1>1, CreditsPush
<1>2. CASE Ack BY <1>2, CreditsAck
<1>3. CASE Dispatch
  <2>1. /\ ipc # <<>> /\ ipc' = Tail(ipc) /\ acks' = Append(acks, Head(ipc)) /\ flow' = flow
    BY <1>3 DEF Dispatch
  <2>2. ipc \in Seq(Events) /\ acks \in Seq(Events) BY KindsOf
  <2>3. ToSet(ipc) = {Head(ipc)} \cup ToSet(ipc') /\ Head(ipc) \in Events
    BY <2>1, <2>2, TailElems
  <2>4. ToSet(acks') = ToSet(acks) \cup {Head(ipc)} BY <2>1, <2>2, <2>3, AppendElems
  <2>5. Len(ipc') < FlowHigh + MaxBurst
    <3>1. Len(ipc) \in Nat /\ Len(ipc') = Len(ipc) - 1 BY <2>1, <2>2
    <3>2. Len(ipc) < FlowHigh + MaxBurst BY DEF Credits
    <3> QED BY <3>1, <3>2, Bounds
  <2>6. ToSet(ipc') \subseteq flow.pending /\ flow.pending \subseteq ToSet(ipc') \cup ToSet(acks')
    BY <2>3, <2>4 DEF Credits
  <2> QED BY <2>1, <2>5, <2>6 DEF Credits
<1>4. CASE Navigation
  <2>1. flow' = Navigating /\ ipc' = <<>> BY <1>4 DEF Navigation
  <2>2. flow'.pending = {} /\ flow'.paused /\ flow'.awaitingRenderer
    BY <2>1 DEF Navigating
  <2>3. ToSet(ipc') = {} /\ Len(ipc') = 0 BY <2>1, NothingEmitted
  <2> QED BY <2>2, <2>3, Bounds DEF Credits
<1>5. CASE PageReady
  <2>1. /\ flow.awaitingRenderer /\ ipc' = ipc /\ acks' = acks
        /\ flow' = [flow EXCEPT !.awaitingRenderer = FALSE, !.paused = FALSE]
    BY <1>5 DEF PageReady, Ready
  <2>2. flow \in Flow BY Underway
  <2>3. flow'.pending = flow.pending /\ ~flow'.awaitingRenderer BY <2>1, <2>2 DEF Flow
  <2>4. flow.pending = {} BY <2>1 DEF Credits
  <2>5. flow'.pending = {} /\ Cardinality(flow'.pending) < FlowHigh
    BY <2>3, <2>4, Empty, Bounds
  <2> QED BY <2>1, <2>3, <2>5 DEF Credits
<1>6. CASE UNCHANGED <<flow, ipc, acks>> BY <1>6 DEF Credits
<1>7. \/ Push \/ Ack \/ Dispatch \/ Navigation \/ PageReady
      \/ UNCHANGED <<flow, ipc, acks>>
  BY DEF Next, Controller, Output, Drained, Finish, Listen, ServeStatus, Reconcile, MarkReady,
         Parsed, ServePause, PauseReturns, Retry, PauseFails, Detach, vars, flowVars
<1> QED BY <1>1, <1>2, <1>3, <1>4, <1>5, <1>6, <1>7

(* TerminalFlow holds credits for what is underway to this page or has     *)
(* come back unread, a reload forgets those of the page that has gone, and *)
(* the backlog exceeds the limit by less than one read of the socket.      *)
THEOREM CreditsCorrect == Spec => []CreditsExact
<1>1. Init => Credits
  <2> SUFFICES ASSUME Init PROVE Credits OBVIOUS
  <2>1. /\ flow.pending = {} /\ ~flow.awaitingRenderer /\ ipc = <<>>
    BY DEF Init
  <2> QED BY <2>1, NothingEmitted, Empty, Bounds DEF Credits
<1>2. Base /\ Credits /\ [Next]_vars => Credits' BY CreditsNext
<1>3. Credits => CreditsExact BY DEF Credits, CreditsExact
<1> QED BY <1>1, <1>2, <1>3, BaseHolds, PTL DEF Spec

-----------------------------------------------------------------------------
(* The pauses.                                                             *)

(* A call is made: it waits behind those that have been made before.       *)
LEMMA CallAdded ==
  ASSUME commands \in Seq(Calls), NEW v \in BOOLEAN, NEW after, after = Append(commands, Call(v))
  PROVE  /\ after # <<>> /\ after[Len(after)].paused = v
         /\ (\A i \in DOMAIN commands : i > 1 => commands[i].state = "sent") =>
              \A i \in DOMAIN after : i > 1 => after[i].state = "sent"
         /\ commands # <<>> => Head(after) = Head(commands)
         /\ commands = <<>> => Head(after).state = "sent"
<1>1. Call(v) \in Calls /\ Call(v).paused = v /\ Call(v).state = "sent" BY DEF Call, Calls
<1>2. Len(commands) \in Nat /\ DOMAIN commands = 1..Len(commands) OBVIOUS
<1> DEFINE x == Call(v)
<1> HIDE DEF x, Calls
<1>3. /\ Len(after) = Len(commands) + 1 /\ DOMAIN after = 1..(Len(commands) + 1)
      /\ after[Len(commands) + 1] = x
      /\ \A i \in 1..Len(commands) : after[i] = commands[i]
  BY <1>1, <1>2 DEF x
<1>4. Head(after) = after[1] BY <1>3
<1>5. commands # <<>> => Head(commands) = commands[1] /\ 1 \in 1..Len(commands) OBVIOUS
<1>6. commands = <<>> => Len(commands) = 0 OBVIOUS
<1>7. after # <<>> BY <1>2, <1>3
<1> QED BY <1>1, <1>2, <1>3, <1>4, <1>5, <1>6, <1>7 DEF x

(* A call has been served or has failed; or it has returned.               *)
LEMMA CallAnswered ==
  ASSUME commands \in Seq(Calls), commands # <<>>, NEW v \in {"done", "failed"}, NEW after,
         after = [commands EXCEPT ![1].state = v]
  PROVE  /\ after # <<>> /\ Len(after) = Len(commands)
         /\ after[Len(after)].paused = commands[Len(commands)].paused
         /\ Head(after).paused = Head(commands).paused /\ Head(after).state = v
         /\ \A i \in DOMAIN after : i > 1 => i \in DOMAIN commands /\ after[i] = commands[i]
<1>1. /\ Len(commands) \in Nat /\ Len(commands) > 0 /\ DOMAIN commands = 1..Len(commands)
      /\ Head(commands) = commands[1]
      /\ \A i \in 1..Len(commands) : commands[i] \in Calls
  OBVIOUS
<1> DEFINE x == [commands[1] EXCEPT !.state = v]
<1>2. x.paused = commands[1].paused /\ x.state = v /\ x \in Calls BY <1>1 DEF Calls
<1> HIDE DEF x, Calls
<1>3. /\ after = [commands EXCEPT ![1] = x] BY DEF x
<1>4. /\ Len(after) = Len(commands) /\ DOMAIN after = 1..Len(commands) /\ after \in Seq(Calls)
      /\ after[1] = x /\ \A i \in 1..Len(commands) : i # 1 => after[i] = commands[i]
  BY <1>1, <1>2, <1>3
<1>5. Head(after) = after[1] /\ after # <<>> BY <1>1, <1>4
<1> QED BY <1>1, <1>2, <1>4, <1>5

LEMMA CallReturned ==
  ASSUME commands \in Seq(Calls), commands # <<>>, NEW after, after = Tail(commands)
  PROVE  /\ after # <<>> => after[Len(after)] = commands[Len(commands)]
         /\ after = <<>> => commands[Len(commands)] = Head(commands)
         /\ (\A i \in DOMAIN commands : i > 1 => commands[i].state = "sent") =>
              \A i \in DOMAIN after : after[i].state = "sent"
         /\ after # <<>> => Len(commands) \in 2..Len(commands)
         /\ after # <<>> => Head(after) = after[1] /\ 1 \in DOMAIN after
<1>1. /\ Len(commands) \in Nat /\ Len(commands) > 0 /\ DOMAIN commands = 1..Len(commands)
      /\ Head(commands) = commands[1]
  OBVIOUS
<1>2. /\ Len(after) = Len(commands) - 1 /\ DOMAIN after = 1..(Len(commands) - 1)
      /\ after \in Seq(Calls)
  OBVIOUS
<1>3. \A i \in 1..(Len(commands) - 1) : after[i] = commands[i + 1] OBVIOUS
<1>4. after = <<>> <=> Len(commands) = 1
  <2>1. \A s \in Seq(Calls) : s = <<>> <=> Len(s) = 0 OBVIOUS
  <2>2. after = <<>> <=> Len(after) = 0 BY ONLY <1>2, <2>1
  <2> QED BY <1>1, <1>2, <2>2
<1>5. after # <<>> => Len(commands) - 1 \in 1..(Len(commands) - 1) BY <1>1, <1>4
<1>6. after # <<>> => after[Len(after)] = commands[Len(commands)]
  BY <1>1, <1>2, <1>3, <1>5
<1>7. \A i \in DOMAIN after : i + 1 \in DOMAIN commands /\ i + 1 > 1 /\ after[i] = commands[i + 1]
  BY <1>1, <1>2, <1>3
<1>8. after # <<>> => Head(after) = after[1] /\ 1 \in DOMAIN after BY <1>1, <1>2, <1>4
<1>9. after # <<>> => Len(commands) \in 2..Len(commands) BY <1>1, <1>4
<1> QED BY <1>1, <1>4, <1>6, <1>7, <1>8, <1>9

(* The controller sets the pause, its page being p otherwise.              *)
LEMMA SettingBelieved ==
  ASSUME Base, Believed, NEW p \in Page, NEW v \in BOOLEAN, SetOutputPaused(p, v),
         p.setup # "new", p.retry => page.retry, p.status = page.status, p.attached => page.attached,
         UNCHANGED <<core, slips>>
  PROVE  Believed'
<1>1. page \in Page /\ commands \in Seq(Calls) BY PageKinds
<1>2. DOMAIN p = DOMAIN page BY <1>1 DEF Page
<1>3. /\ page'.attached = p.attached /\ page'.setup = p.setup
      /\ page'.outputPaused = v /\ page'.retry = (p.retry /\ ~v)
      /\ commands' = Append(commands, Call(v))
  BY <1>1, <1>2, SettingPaused
<1>4. /\ commands' # <<>> /\ commands'[Len(commands')].paused = v
      /\ (\A i \in DOMAIN commands : i > 1 => commands[i].state = "sent") =>
            \A i \in DOMAIN commands' : i > 1 => commands'[i].state = "sent"
      /\ commands # <<>> => Head(commands') = Head(commands)
      /\ commands = <<>> => Head(commands').state = "sent"
  BY <1>1, <1>3, CallAdded
<1>5. \A i \in DOMAIN commands' : i > 1 => commands'[i].state = "sent"
  BY <1>4 DEF Believed
<1>6. core'.listed /\ Head(commands').state = "done" => core'.paused = Head(commands').paused
  <2>1. CASE commands = <<>> BY <1>4, <2>1
  <2>2. CASE commands # <<>> BY <1>4, <2>2 DEF Believed
  <2> QED BY <2>1, <2>2
<1>7. page'.retry => ~page'.outputPaused /\ page'.status # "connecting"
  <2>1. page.retry => page.status # "connecting" BY DEF Believed
  <2>2. p.retry \in BOOLEAN /\ p.attached \in BOOLEAN BY DEF Page
  <2>3. page'.status = p.status BY <1>1, <1>2 DEF SetOutputPaused, Page
  <2> QED BY <1>3, <2>1, <2>2, <2>3
<1>8. page'.setup # "new" BY <1>3
<1>9. page'.outputPaused <=> commands'[Len(commands')].paused BY <1>3, <1>4
<1> QED BY <1>4, <1>5, <1>6, <1>7, <1>8, <1>9 DEF Believed

LEMMA BelievedUntouched ==
  ASSUME Base, Believed,
         UNCHANGED commands, "forgotten" \notin slips' => "forgotten" \notin slips,
         core'.paused = core.paused, core'.listed => core.listed,
         page'.outputPaused = page.outputPaused, page'.retry = page.retry,
         page'.attached => page.attached \/ (page.setup = "new" /\ page'.setup # "new"),
         page'.setup = "new" => page.setup = "new",
         page.status = "disconnected" => page'.status = "disconnected" \/ ~core.listed,
         page.status # "connecting" => page'.status # "connecting"
  PROVE  Believed'
<1>1. page.setup = "new" =>
        ~page.attached /\ ~page.retry /\ ~page.outputPaused /\ commands = <<>> /\ ~core.paused
  BY DEF Believed
<1>0. core.paused \in BOOLEAN /\ page.outputPaused \in BOOLEAN
  BY PageKinds, TypesOf DEF Base, Page, Session
<1>2. page'.setup = "new" =>
        ~page'.attached /\ ~page'.retry /\ ~page'.outputPaused /\ commands' = <<>> /\ ~core'.paused
  BY <1>1
<1>3. \A i \in DOMAIN commands' : i > 1 => commands'[i].state = "sent" BY DEF Believed
<1>4. page'.retry => ~page'.outputPaused /\ page'.status # "connecting" BY DEF Believed
<1>5. commands' # <<>> /\ page'.attached /\ "forgotten" \notin slips' =>
        (page'.outputPaused <=> commands'[Len(commands')].paused)
  BY <1>1 DEF Believed
<1>6. commands' # <<>> /\ core'.listed /\ Head(commands').state = "done" =>
        core'.paused = Head(commands').paused
  BY DEF Believed
<1>7. commands' = <<>> /\ page'.attached /\ core'.listed /\ "forgotten" \notin slips' =>
        core'.paused = page'.outputPaused \/ page'.retry \/ page'.status = "disconnected"
  <2>1. ASSUME commands' = <<>>, page'.attached, core'.listed, "forgotten" \notin slips', page.attached
        PROVE  core.paused = page.outputPaused \/ page.retry \/ page.status = "disconnected"
    BY <2>1 DEF Believed
  <2>2. page.setup = "new" => core.paused = page.outputPaused BY <1>0, <1>1
  <2> QED BY <2>1, <2>2
<1> QED BY <1>2, <1>3, <1>4, <1>5, <1>6, <1>7 DEF Believed

LEMMA BelievedServe ==
  ASSUME Base, Believed, ServePause
  PROVE  Believed'
<1>1. commands \in Seq(Calls) /\ commands # <<>> /\ page \in Page BY PageKinds DEF ServePause
<1>2. /\ Head(commands).state = "sent" /\ page' = page
      /\ commands' = [commands EXCEPT ![1].state = IF core.listed THEN "done" ELSE "failed"]
  BY DEF ServePause
<1> DEFINE v == IF core.listed THEN "done" ELSE "failed"
<1>3. v \in {"done", "failed"} OBVIOUS
<1>4. /\ commands' # <<>> /\ Len(commands') = Len(commands)
      /\ commands'[Len(commands')].paused = commands[Len(commands)].paused
      /\ Head(commands').paused = Head(commands).paused /\ Head(commands').state = v
      /\ \A i \in DOMAIN commands' : i > 1 => i \in DOMAIN commands /\ commands'[i] = commands[i]
  BY <1>1, <1>2, <1>3, CallAnswered
<1>5. core'.listed = core.listed /\ (core.listed => core'.paused = Head(commands).paused)
  <2>1. core \in Session BY TypesOf DEF Base
  <2>2. Head(commands).paused \in BOOLEAN
    <3>1. Head(commands) \in Calls BY <1>1
    <3> QED BY <3>1 DEF Calls
  <2>3. CASE ~core.listed BY <2>3 DEF ServePause
  <2>4. CASE core.listed /\ Head(commands).paused
    BY <2>1, <2>2, <2>4 DEF ServePause, Session
  <2>5. CASE core.listed /\ ~Head(commands).paused
    <3> DEFINE c == [core EXCEPT !.paused = FALSE]
    <3>1. Flush(c) BY <2>5 DEF ServePause
    <3>2. c \in Session /\ c.listed = core.listed /\ c.paused = FALSE BY <2>1 DEF Session
    <3> HIDE DEF c
    <3>3. core'.listed = c.listed /\ core'.paused = c.paused
      BY <3>1, <3>2 DEF Flush, Spliced, Session
    <3> QED BY <2>2, <2>5, <3>2, <3>3
  <2> QED BY <2>3, <2>4, <2>5
<1>7. "forgotten" \notin slips' => "forgotten" \notin slips
  BY DEF ServePause, Flush, Emits, Overtakes
<1>8. page.setup # "new" BY <1>1 DEF Believed
<1>9. \A i \in DOMAIN commands' : i > 1 => commands'[i].state = "sent"
  BY <1>4 DEF Believed
<1>10. core'.listed /\ Head(commands').state = "done" => core'.paused = Head(commands').paused
  BY <1>4, <1>5
<1>11. page.attached /\ "forgotten" \notin slips' =>
         (page.outputPaused <=> commands'[Len(commands')].paused)
  BY <1>1, <1>4, <1>7 DEF Believed
<1> QED BY <1>2, <1>4, <1>8, <1>9, <1>10, <1>11 DEF Believed

LEMMA BelievedFails ==
  ASSUME Base, Believed, PauseFails
  PROVE  Believed'
<1>1. commands \in Seq(Calls) /\ commands # <<>> BY PageKinds DEF PauseFails
<1>2. /\ page' = page /\ core' = core /\ slips' = slips
      /\ commands' = [commands EXCEPT ![1].state = "failed"]
  BY DEF PauseFails, coreVars, history
<1>3. /\ commands' # <<>> /\ Len(commands') = Len(commands)
      /\ commands'[Len(commands')].paused = commands[Len(commands)].paused
      /\ Head(commands').paused = Head(commands).paused /\ Head(commands').state = "failed"
      /\ \A i \in DOMAIN commands' : i > 1 => i \in DOMAIN commands /\ commands'[i] = commands[i]
  BY <1>1, <1>2, CallAnswered
<1>4. \A i \in DOMAIN commands' : i > 1 => commands'[i].state = "sent"
  BY <1>3 DEF Believed
<1>5. page.setup # "new" BY <1>1 DEF Believed
<1>6. page.attached /\ "forgotten" \notin slips =>
         (page.outputPaused <=> commands'[Len(commands')].paused)
  BY <1>1, <1>3 DEF Believed
<1>7. page.retry => ~page.outputPaused /\ page.status # "connecting" BY DEF Believed
<1> QED BY <1>2, <1>3, <1>4, <1>5, <1>6, <1>7 DEF Believed

LEMMA BelievedReturns ==
  ASSUME Base, Believed, PauseReturns
  PROVE  Believed'
<1> DEFINE call == Head(commands)
           last == commands[Len(commands)]
<1>1. /\ commands \in Seq(Calls) /\ commands # <<>> /\ page \in Page /\ core \in Session
      /\ call \in Calls
  BY PageKinds, TypesOf DEF PauseReturns, Base
<1>2. /\ call.state # "sent" /\ commands' = Tail(commands) /\ core' = core
      /\ slips' = slips \cup (IF page.attached /\ call.state = "failed" /\ Forgets(call)
                              THEN {"forgotten"} ELSE {})
  BY DEF PauseReturns, coreVars
<1>3. \/ /\ page.attached /\ call.state = "done"
         /\ page' = [page EXCEPT !.retry = @ /\ (call.paused \/ page.outputPaused)]
      \/ /\ page.attached /\ call.state = "failed" /\ call.paused
         /\ page' = [page EXCEPT !.outputPaused = FALSE]
      \/ /\ page.attached /\ call.state = "failed" /\ ~call.paused
         /\ page' = [page EXCEPT !.retry = @ \/ Retries(call)]
      \/ ~page.attached /\ page' = page
  BY DEF PauseReturns
<1>4. /\ commands' # <<>> => commands'[Len(commands')] = last
      /\ commands' = <<>> => last = call
      /\ \A i \in DOMAIN commands' : commands'[i].state = "sent"
      /\ commands' # <<>> => Len(commands) \in 2..Len(commands)
      /\ commands' # <<>> => Head(commands').state = "sent"
  <2>1. \A i \in DOMAIN commands : i > 1 => commands[i].state = "sent" BY DEF Believed
  <2> QED BY <1>1, <1>2, <2>1, CallReturned
<1>5. /\ call.state \in {"done", "failed"} /\ call.paused \in BOOLEAN
      /\ page.outputPaused \in BOOLEAN /\ page.retry \in BOOLEAN /\ page.attached \in BOOLEAN
      /\ core.paused \in BOOLEAN
  BY <1>1, <1>2 DEF Calls, Page, Session
<1> HIDE DEF call, last
<1>6. /\ page'.attached = page.attached /\ page'.setup = page.setup /\ page'.status = page.status
      /\ page'.outputPaused \in BOOLEAN /\ page'.retry \in BOOLEAN
      /\ page'.outputPaused => page.outputPaused
      /\ page.attached /\ call.state = "failed" /\ call.paused => ~page'.outputPaused
      /\ ~(page.attached /\ call.state = "failed" /\ call.paused) =>
            page'.outputPaused = page.outputPaused
  BY <1>1, <1>3, <1>5 DEF Page
<1>7. Retries(call) => ~page.outputPaused /\ page.status # "connecting" BY DEF Retries
<1>8. page'.retry => ~page'.outputPaused /\ page'.status # "connecting"
  <2>1. page.retry => ~page.outputPaused /\ page.status # "connecting" BY DEF Believed
  <2>2. page'.retry => page.retry \/ Retries(call)
    <3>1. CASE page' = [page EXCEPT !.retry = @ /\ (call.paused \/ page.outputPaused)]
      BY <1>1, <1>5, <3>1 DEF Page
    <3>2. CASE page' = [page EXCEPT !.outputPaused = FALSE] BY <1>1, <3>2 DEF Page
    <3>3. CASE page' = [page EXCEPT !.retry = @ \/ Retries(call)]
      BY <1>1, <1>5, <3>3 DEF Page
    <3>4. CASE page' = page BY <3>4
    <3> QED BY <1>3, <3>1, <3>2, <3>3, <3>4
  <2> QED BY <1>6, <1>7, <2>1, <2>2
<1>9. ASSUME page.attached, "forgotten" \notin slips'
      PROVE  "forgotten" \notin slips /\ ~(call.state = "failed" /\ Forgets(call))
             /\ (page.outputPaused <=> last.paused)
  <2>1. "forgotten" \notin slips /\ ~(call.state = "failed" /\ Forgets(call)) BY <1>2, <1>9
  <2> QED BY <1>1, <1>9, <2>1 DEF Believed, last
<1>10. ASSUME commands' # <<>>, page.attached, "forgotten" \notin slips'
       PROVE  page'.outputPaused <=> commands'[Len(commands')].paused
  <2>1. CASE call.state = "failed" /\ call.paused
    <3>1. ~(page.outputPaused /\ \E i \in 2..Len(commands) : commands[i].paused)
      BY <1>9, <1>10, <2>1 DEF Forgets
    <3>2. Len(commands) \in 2..Len(commands) BY <1>4, <1>10
    <3>3. ~last.paused BY <1>9, <1>10, <3>1, <3>2 DEF last
    <3> QED BY <1>4, <1>6, <1>10, <2>1, <3>3
  <2>2. CASE ~(call.state = "failed" /\ call.paused)
    BY <1>4, <1>6, <1>9, <1>10, <2>2
  <2> QED BY <2>1, <2>2
<1>11. ASSUME commands' = <<>>, page.attached, core.listed, "forgotten" \notin slips'
       PROVE  core.paused = page'.outputPaused \/ page'.retry \/ page'.status = "disconnected"
  <2>1. last = call /\ (page.outputPaused <=> call.paused) BY <1>4, <1>9, <1>11
  <2>2. CASE call.state = "done"
    <3>1. core.paused = call.paused BY <1>1, <1>11, <2>2 DEF Believed, call
    <3> QED BY <1>5, <1>6, <2>1, <2>2, <3>1
  <2>3. CASE call.state = "failed" /\ call.paused
    <3>1. ~core.paused BY <1>9, <1>11, <2>1, <2>3 DEF Forgets
    <3>2. ~page'.outputPaused BY <1>6, <1>11, <2>3
    <3> QED BY <1>5, <1>6, <3>1, <3>2
  <2>4. CASE call.state = "failed" /\ ~call.paused
    <3>1. page.status # "connecting" /\ ~page.outputPaused
      BY <1>9, <1>11, <2>1, <2>4 DEF Forgets
    <3>2. page' = [page EXCEPT !.retry = @ \/ Retries(call)] BY <1>3, <1>11, <2>4
    <3>3. page.status = "connected" => Retries(call) BY <2>4, <3>1 DEF Retries
    <3>4. page.status \in {"connecting", "connected", "disconnected"}
      BY <1>1 DEF Page, Statuses
    <3>5. page.status = "connected" => page'.retry BY <1>1, <3>2, <3>3 DEF Page
    <3> QED BY <1>6, <3>1, <3>4, <3>5
  <2> QED BY <1>5, <2>2, <2>3, <2>4
<1>12. page.setup # "new" BY <1>1 DEF Believed
<1>13. \A i \in DOMAIN commands' : i > 1 => commands'[i].state = "sent" BY <1>4
<1>14. commands' # <<>> => Head(commands').state # "done" BY <1>4
<1> QED BY <1>2, <1>6, <1>8, <1>10, <1>11, <1>12, <1>13, <1>14 DEF Believed

(* The Session's own steps, and those of the page that make no call.       *)
LEMMA BelievedQuiet ==
  ASSUME Base, Believed,
         \/ Output \/ Drained \/ Finish \/ Push \/ Ack \/ PageReady
         \/ Listen \/ ServeStatus \/ Reconcile \/ MarkReady
         \/ UNCHANGED vars
  PROVE  Believed'
<1>1. page \in Page /\ core \in Session BY PageKinds, TypesOf DEF Base
<1>2. commands' = commands
  BY DEF Output, Drained, Finish, Push, Ack, PageReady, Listen, ServeStatus, Reconcile,
         MarkReady, vars
<1>3. "forgotten" \in slips' <=> "forgotten" \in slips
  BY DEF Output, Drained, Finish, Push, Ack, PageReady, Listen, ServeStatus, Reconcile,
         MarkReady, vars, history, Flush, Emits, Overtakes
<1>4. core'.paused = core.paused /\ (core'.listed => core.listed)
  <2>1. ASSUME NEW c, core' = c \/ core' = Spliced(c), DOMAIN c = DOMAIN core
        PROVE  core'.paused = c.paused /\ core'.listed = c.listed
    BY <1>1, <2>1 DEF Spliced, Session
  <2>2. CASE Output
    <3> DEFINE full == [core EXCEPT !.buffered = Append(@, produced + 1), !.gated = @ + 1]
               open == [full EXCEPT !.ready = TRUE]
    <3>1. core' = core \/ core' = full \/ core' = open \/ core' = Spliced(open)
      BY <2>2 DEF Output, Flush
    <3>2. /\ DOMAIN full = DOMAIN core /\ full.paused = core.paused /\ full.listed = core.listed
          /\ DOMAIN open = DOMAIN core /\ open.paused = core.paused /\ open.listed = core.listed
      BY <1>1 DEF Session
    <3> HIDE DEF full, open
    <3> QED BY <2>1, <3>1, <3>2
  <2>3. CASE Drained BY <1>1, <2>3 DEF Drained, Session
  <2>4. CASE Finish BY <1>1, <2>4 DEF Finish, Session
  <2>5. CASE MarkReady
    <3> DEFINE c == [core EXCEPT !.ready = TRUE]
    <3>1. core' = core \/ core' = c \/ core' = Spliced(c) BY <2>5 DEF MarkReady, Flush
    <3>2. DOMAIN c = DOMAIN core /\ c.paused = core.paused /\ c.listed = core.listed
      BY <1>1 DEF Session
    <3> HIDE DEF c
    <3> QED BY <2>1, <3>1, <3>2
  <2>6. CASE core' = core BY <2>6
  <2> QED BY <2>2, <2>3, <2>4, <2>5, <2>6
        DEF Push, Ack, PageReady, Listen, ServeStatus, Reconcile, vars, coreVars
<1>5. /\ page'.outputPaused = page.outputPaused /\ page'.retry = page.retry
      /\ page'.attached => page.attached \/ (page.setup = "new" /\ page'.setup # "new")
      /\ page'.setup = "new" => page.setup = "new"
      /\ page.status = "disconnected" => page'.status = "disconnected"
      /\ page.status # "connecting" => page'.status # "connecting"
  <2>1. CASE Listen BY <1>1, <2>1 DEF Listen, Page
  <2>2. CASE ServeStatus BY <1>1, <2>2 DEF ServeStatus, Page
  <2>3. CASE Reconcile
    <3>1. page.status # "connecting" => Reconciled = page.status BY DEF Reconciled
    <3> QED BY <1>1, <2>3, <3>1 DEF Reconcile, Page
  <2>4. CASE MarkReady BY <1>1, <2>4 DEF MarkReady, Page
  <2>5. CASE page' = page BY <2>5
  <2> QED BY <2>1, <2>2, <2>3, <2>4, <2>5
        DEF Output, Drained, Finish, Push, Ack, PageReady, vars
<1> QED BY <1>2, <1>3, <1>4, <1>5, BelievedUntouched

(* An event that is dispatched, and a chunk that has been parsed.          *)
LEMMA BelievedShown ==
  ASSUME Base, Believed, Dispatch \/ Parsed
  PROVE  Believed'
<1>1. page \in Page /\ ipc \in Seq(Events) /\ page.writing \in Nat BY PageKinds, KindsOf
<1>2. core' = core /\ slips' = slips BY DEF Dispatch, Parsed, coreVars, history
<1>3. CASE UNCHANGED commands /\ page'.outputPaused = page.outputPaused /\ page'.retry = page.retry
           /\ page'.attached = page.attached /\ page'.setup = page.setup
           /\ (page.status = "disconnected" => page'.status = "disconnected" \/ ~core.listed)
           /\ (page.status # "connecting" => page'.status # "connecting")
  BY <1>2, <1>3, BelievedUntouched
<1>4. ASSUME NEW p \in Page, NEW v \in BOOLEAN, SetOutputPaused(p, v),
             p.attached = page.attached, p.setup = page.setup, p.retry = page.retry,
             p.status = page.status, page.attached
      PROVE  Believed'
  <2>1. page.setup # "new" BY <1>4 DEF Believed
  <2> QED BY <1>2, <1>4, <2>1, SettingBelieved
<1>5. CASE Parsed
  <2> DEFINE p == [page EXCEPT !.writing = @ - 1]
  <2>1. /\ page.attached /\ page.writing > 0
        /\ SetOutputPaused(p, FALSE) \/ (page' = p /\ UNCHANGED commands)
    BY <1>5 DEF Parsed
  <2>2. page.writing - 1 \in 0..MaxChunks BY <1>1, <2>1, Numbers DEF Page
  <2>3. /\ p \in Page /\ p.attached = page.attached /\ p.setup = page.setup
        /\ p.retry = page.retry /\ p.outputPaused = page.outputPaused /\ p.status = page.status
    BY <1>1, <2>2 DEF Page
  <2> HIDE DEF p
  <2> QED BY <1>3, <1>4, <2>1, <2>3
<1>6. CASE Dispatch
  <2> DEFINE p == [page EXCEPT !.writing = @ + 1]
  <2>1. \/ UNCHANGED <<page, commands>>
        \/ /\ page.attached
           /\ SetOutputPaused(p, TRUE) \/ (page' = p /\ UNCHANGED commands)
        \/ /\ UNCHANGED commands /\ page.attached /\ Head(ipc) \notin Chunks /\ ipc # <<>>
           /\ page' = [page EXCEPT !.status = IF Head(ipc) = Connected THEN "connected"
                                              ELSE "disconnected"]
    BY <1>6 DEF Dispatch
  <2>2. CASE UNCHANGED <<page, commands>> BY <1>3, <2>2
  <2>3. CASE page.attached /\ SetOutputPaused(p, TRUE)
    <3>1. page'.writing = page.writing + 1
      BY <1>1, <2>3 DEF SetOutputPaused, Page
    <3>2. page'.writing \in 0..MaxChunks
      <4>1. TypeOK' BY <1>6, DispatchTypes
      <4> QED BY <4>1 DEF TypeOK
    <3>3. /\ p \in Page /\ p.attached = page.attached /\ p.setup = page.setup
          /\ p.retry = page.retry /\ p.status = page.status
      BY <1>1, <3>1, <3>2 DEF Page
    <3> HIDE DEF p
    <3> QED BY <1>4, <2>3, <3>3
  <2>4. CASE page' = p /\ UNCHANGED commands
    <3>1. /\ page'.attached = page.attached /\ page'.setup = page.setup
          /\ page'.retry = page.retry /\ page'.outputPaused = page.outputPaused
          /\ page'.status = page.status
      BY <1>1, <2>4 DEF Page
    <3> QED BY <1>3, <2>4, <3>1
  <2>5. CASE /\ UNCHANGED commands
             /\ page' = [page EXCEPT !.status = IF Head(ipc) = Connected THEN "connected"
                                                ELSE "disconnected"]
    <3>1. /\ page'.attached = page.attached /\ page'.setup = page.setup
          /\ page'.retry = page.retry /\ page'.outputPaused = page.outputPaused
          /\ page'.status # "connecting"
      BY <1>1, <2>5 DEF Page
    <3>2. page.status = "disconnected" => ~core.listed BY DEF Base, Conserved
    <3> QED BY <1>3, <2>5, <3>1, <3>2
  <2> HIDE DEF p
  <2> QED BY <2>1, <2>2, <2>3, <2>4, <2>5
<1> QED BY <1>5, <1>6

(* The retry, and the controller that lets go.                             *)
LEMMA BelievedOther ==
  ASSUME Base, Believed, Retry \/ Detach \/ Navigation
  PROVE  Believed'
<1>1. page \in Page /\ commands \in Seq(Calls) BY PageKinds
<1>2. core' = core /\ slips' = slips BY DEF Retry, Detach, Navigation, coreVars, history
<1>3. CASE Retry
  <2> DEFINE p == [page EXCEPT !.retry = FALSE]
  <2>1. /\ page.retry
        /\ IF page.attached /\ ~page.outputPaused /\ page.status = "connected"
           THEN SetOutputPaused(p, FALSE)
           ELSE page' = p /\ UNCHANGED commands
    BY <1>3 DEF Retry
  <2>2. /\ p \in Page /\ p.attached = page.attached /\ p.setup = page.setup
        /\ p.retry = FALSE /\ p.outputPaused = page.outputPaused /\ p.status = page.status
    BY <1>1 DEF Page
  <2> HIDE DEF p
  <2>3. CASE SetOutputPaused(p, FALSE)
    <3>1. page.setup # "new" BY <2>1 DEF Believed
    <3> QED BY <1>2, <2>2, <2>3, <3>1, SettingBelieved
  <2>4. CASE /\ page' = p /\ UNCHANGED commands
             /\ ~(page.attached /\ ~page.outputPaused /\ page.status = "connected")
    <3>1. ~page.outputPaused /\ page.setup # "new" BY <2>1 DEF Believed
    <3>2. page.attached => page.status = "disconnected"
      <4>1. page.attached => page.status # "connected" BY <2>4, <3>1
      <4>2. page.status # "connecting" BY <2>1 DEF Believed
      <4> QED BY <1>1, <4>1, <4>2 DEF Page, Statuses
    <3> QED BY <1>2, <2>2, <2>4, <3>1, <3>2 DEF Believed
  <2> QED BY <2>1, <2>3, <2>4
<1>4. CASE Detach
  <2> DEFINE p == [page EXCEPT !.attached = FALSE, !.retry = FALSE, !.writing = 0,
                               !.setup = IF @ = "new" THEN "gone" ELSE @]
  <2>1. SetOutputPaused(p, FALSE) \/ (page' = p /\ UNCHANGED commands)
    BY <1>4 DEF Detach
  <2>2. /\ p \in Page /\ p.attached = FALSE /\ p.setup # "new" /\ p.retry = FALSE
        /\ p.status = page.status
    <3>1. (IF page.setup = "new" THEN "gone" ELSE page.setup)
            \in {"asking", "connected", "failed", "marking", "marked", "gone"}
      BY <1>1 DEF Page
    <3>2. 0 \in 0..MaxChunks BY Numbers
    <3> QED BY <1>1, <3>1, <3>2 DEF Page
  <2> HIDE DEF p
  <2>3. CASE SetOutputPaused(p, FALSE) BY <1>2, <2>2, <2>3, SettingBelieved
  <2>4. CASE page' = p /\ UNCHANGED commands
    <3>1. ~page'.attached /\ page'.setup # "new" /\ ~page'.retry BY <2>2, <2>4
    <3>2. \A i \in DOMAIN commands' : i > 1 => commands'[i].state = "sent"
      BY <2>4 DEF Believed
    <3>3. commands' # <<>> /\ core'.listed /\ Head(commands').state = "done" =>
            core'.paused = Head(commands').paused
      BY <1>2, <2>4 DEF Believed
    <3> QED BY <3>1, <3>2, <3>3 DEF Believed
  <2> QED BY <2>1, <2>3, <2>4
<1>5. CASE Navigation
  <2>1. /\ page'.attached = FALSE /\ page'.retry = FALSE /\ page'.setup # "new"
        /\ commands' = IF commands # <<>> /\ Head(commands).state = "sent"
                       THEN <<Head(commands)>> ELSE <<>>
    BY <1>5 DEF Navigation
  <2>2. CASE commands' = <<>>
    <3>1. DOMAIN commands' = {} BY <2>2
    <3> QED BY <2>1, <2>2, <3>1 DEF Believed
  <2>3. CASE commands' = <<Head(commands)>> /\ Head(commands).state = "sent"
    <3>1. DOMAIN commands' = {1} /\ Head(commands') = Head(commands) BY <2>3
    <3> QED BY <2>1, <2>3, <3>1 DEF Believed
  <2> QED BY <2>1, <2>2, <2>3
<1> QED BY <1>3, <1>4, <1>5


LEMMA BelievedNext ==
  ASSUME Base, Believed, [Next]_vars
  PROVE  Believed'
<1>1. CASE ServePause BY <1>1, BelievedServe
<1>2. CASE PauseFails BY <1>2, BelievedFails
<1>3. CASE PauseReturns BY <1>3, BelievedReturns
<1>4. CASE Dispatch \/ Parsed BY <1>4, BelievedShown
<1>5. CASE Retry \/ Detach \/ Navigation BY <1>5, BelievedOther
<1>6. CASE \/ Output \/ Drained \/ Finish \/ Push \/ Ack \/ PageReady
           \/ Listen \/ ServeStatus \/ Reconcile \/ MarkReady
           \/ UNCHANGED vars
  BY <1>6, BelievedQuiet
<1> QED BY <1>1, <1>2, <1>3, <1>4, <1>5, <1>6 DEF Next, Controller

(* When no call is under way and none is to be tried again, the Session is *)
(* paused exactly when its controller believes so, in whatever order calls *)
(* are made, served, fail and return, and whatever is reloaded, but for    *)
(* the failures that Forgets describes.                                    *)
THEOREM PausesAgree == Spec => []PauseAgrees
<1>1. Init => Believed
  <2> SUFFICES ASSUME Init PROVE Believed OBVIOUS
  <2>1. /\ commands = <<>> /\ ~core.paused /\ ~page.attached /\ ~page.retry
        /\ ~page.outputPaused
    BY DEF Init
  <2>2. DOMAIN commands = {} BY <2>1
  <2> QED BY <2>1, <2>2 DEF Believed
<1>2. Base /\ Believed /\ [Next]_vars => Believed' BY BelievedNext
<1>3. Believed => PauseAgrees BY DEF Believed, PauseAgrees
<1> QED BY <1>1, <1>2, <1>3, BaseHolds, PTL DEF Spec
=============================================================================
