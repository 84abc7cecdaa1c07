------------------------- MODULE AgentRuntime_proofs -------------------------
(***************************************************************************)
(* Theorems about AgentRuntime, for any messages, kinds of calls, bounds,  *)
(* and, but for the last but one of them, whether or not appends fail.     *)
(*                                                                         *)
(* The proofs have three parts: what the Inbox computes, which is a        *)
(* recursion over the log; what every step does to the queue and the Turn, *)
(* as one of a dozen forms (Serves, Decides, TurnForm, Restarts, Commit),  *)
(* which is all that the rest needs to know of the actions; and the        *)
(* invariants, each shown for those forms.                                 *)
(***************************************************************************)
EXTENDS AgentRuntime, SequenceTheorems, Induction

LOCAL INSTANCE SequencesExt

Given == Messages \cup {Goal}
Types == CommandTypes \cup TurnTypes
Words == {"", "requested", "dispatched"} \cup Statuses \cup Verdicts \cup Kinds \cup Lanes \cup Modes

LEMMA EventsAre == Events = [type : Types, id : Nat, what : Words, messages : Seq(Given)]
BY DEF Events, Types, Words, Given

-----------------------------------------------------------------------------
(* The Inbox.                                                              *)

(* Without drops what is taken and leaves the rest in order.               *)
LEMMA WithoutDefined ==
  ASSUME NEW M, NEW s \in Seq(M), NEW taken
  PROVE  \E kept \in [0..Len(s) -> Seq(M)] :
           /\ Without(s, taken) = kept[Len(s)]
           /\ kept[0] = <<>>
           /\ \A i \in 1..Len(s) :
                kept[i] = IF Contains(taken, s[i]) THEN kept[i - 1] ELSE Append(kept[i - 1], s[i])
<1> DEFINE T == Seq(M)
           n == Len(s)
           none == <<>>
           step(i, t) == IF Contains(taken, s[i]) THEN t ELSE Append(t, s[i])
           next == [i \in 1..n |-> [t \in T |-> step(i, t)]]
           Def(f) == f = [i \in 0..n |->
                            IF i = 0 THEN <<>>
                            ELSE IF Contains(taken, s[i]) THEN f[i - 1]
                            ELSE Append(f[i - 1], s[i])]
           kept == CHOOSE f : Def(f)
<1>1. Without(s, taken) = kept[n]
  BY DEF Without
<1>2. n \in Nat /\ none \in T
  OBVIOUS
<1>3. \A i \in 1..n, t \in T : step(i, t) \in T
  OBVIOUS
<1>4. \A f : Def(f) <=> f = [i \in 0..n |-> IF i = 0 THEN none ELSE step(i, f[i - 1])]
  OBVIOUS
<1> HIDE DEF T, n, none, step, Def
<1>5. (\A i \in 1..n, t \in T : next[i][t] = step(i, t)) /\ next \in [1..n -> [T -> T]]
  BY <1>3
<1> HIDE DEF next
<1>6. PICK f : Solves(f, T, none, n, next)
  <2>1. Recurrence(T, none, n, next)
    BY <1>2, <1>5 DEF Recurrence
  <2> QED  BY <2>1, Recursion
<1>7. Def(f)
  <2>1. \A i \in 0..n : f[i] = IF i = 0 THEN none ELSE step(i, f[i - 1])
    BY <1>2, <1>5, <1>6 DEF Solves
  <2>2. f = [i \in 0..n |-> f[i]]
    BY <1>6 DEF Solves
  <2>3. f = [i \in 0..n |-> IF i = 0 THEN none ELSE step(i, f[i - 1])]
    BY <2>1, <2>2, Zenon
  <2> QED  BY <1>4, <2>3
<1>8. kept = [i \in 0..n |-> IF i = 0 THEN none ELSE step(i, kept[i - 1])]
  BY <1>4, <1>7
<1> HIDE DEF kept
<1>9. kept[0] = none /\ \A i \in 1..n : kept[i] = step(i, kept[i - 1])
  BY <1>2, <1>8
<1> DEFINE S == {i \in Nat : i <= n => kept[i] \in T}
<1>10. 0 \in S /\ \A i \in Nat : i \in S => i + 1 \in S
  BY <1>2, <1>3, <1>9
<1>11. \A i \in 0..n : i \in S
  <2> HIDE DEF S
  <2> QED  BY <1>2, <1>10, SetInduction
<1>12. kept \in [0..n -> T]
  <2>1. \A i \in 0..n : kept[i] \in T
    BY <1>2, <1>11
  <2>2. kept = [i \in 0..n |-> kept[i]]
    BY <1>8
  <2> QED  BY <2>1, <2>2
<1> QED  BY <1>1, <1>9, <1>12 DEF T, n, none, step

LEMMA WithoutType ==
  ASSUME NEW M, NEW s \in Seq(M), NEW taken
  PROVE  Without(s, taken) \in Seq(M)
<1>1. Len(s) \in 0..Len(s)
  OBVIOUS
<1> QED  BY <1>1, WithoutDefined

(* What is in X occurs once in s.                                          *)
SingleOf(s, X) == \A i, j \in DOMAIN s : s[i] \in X /\ s[i] = s[j] => i = j

(* Every element of t is one of s that is not taken.                       *)
Remains(t, s, taken) ==
  \A k \in DOMAIN t : ~Contains(taken, t[k]) /\ \E h \in DOMAIN s : t[k] = s[h]

LEMMA WithoutKeeps ==
  ASSUME NEW M, NEW s \in Seq(M), NEW taken, NEW X
  PROVE  /\ Remains(Without(s, taken), s, taken)
         /\ SingleOf(s, X) => SingleOf(Without(s, taken), X)
<1>1. PICK kept \in [0..Len(s) -> Seq(M)] :
        /\ Without(s, taken) = kept[Len(s)]
        /\ kept[0] = <<>>
        /\ \A i \in 1..Len(s) :
             kept[i] = IF Contains(taken, s[i]) THEN kept[i - 1] ELSE Append(kept[i - 1], s[i])
  BY WithoutDefined
<1> DEFINE n == Len(s)
           From(t, i) == \A k \in DOMAIN t : ~Contains(taken, t[k]) /\ \E h \in 1..i : t[k] = s[h]
           Good(i) == From(kept[i], i) /\ (SingleOf(s, X) => SingleOf(kept[i], X))
           S == {i \in Nat : i <= n => Good(i)}
<1>2. n \in Nat /\ DOMAIN s = 1..n
  OBVIOUS
<1>3. 0 \in S
  <2>1. DOMAIN kept[0] = {}
    BY <1>1
  <2> QED  BY <2>1 DEF SingleOf
<1>4. ASSUME NEW i \in Nat, i \in S PROVE i + 1 \in S
  <2> SUFFICES ASSUME i + 1 <= n PROVE Good(i + 1)
    OBVIOUS
  <2>1. /\ i + 1 \in 1..n /\ (i + 1) - 1 = i /\ i \in 0..n /\ Good(i)
    BY <1>2, <1>4
  <2> DEFINE x == s[i + 1]
             t == kept[i]
             u == kept[i + 1]
  <2>2. u = IF Contains(taken, x) THEN t ELSE Append(t, x)
    BY <1>1, <2>1
  <2>3. t \in Seq(M) /\ x \in M
    BY <1>2, <2>1
  <2>4. From(t, i) /\ (SingleOf(s, X) => SingleOf(t, X))
    BY <2>1
  <2>5. CASE Contains(taken, x)
    BY <2>1, <2>2, <2>4, <2>5
  <2>6. CASE ~Contains(taken, x)
    <3> HIDE DEF t, u, n
    <3>1. /\ Len(t) \in Nat /\ DOMAIN t = 1..Len(t) /\ DOMAIN u = 1..Len(t) + 1
          /\ u[Len(t) + 1] = x /\ \A k \in 1..Len(t) : u[k] = t[k]
      BY <2>2, <2>3, <2>6
    <3>2. \A k \in DOMAIN u : \/ k \in DOMAIN t /\ u[k] = t[k]
                              \/ k = Len(t) + 1 /\ u[k] = x
      BY <3>1
    <3>3. From(u, i + 1)
      <4>1. 1..i \subseteq 1..(i + 1) /\ i + 1 \in 1..(i + 1)
        BY <2>1
      <4> QED  BY <2>4, <2>6, <3>2, <4>1
    <3>4. ASSUME SingleOf(s, X) PROVE SingleOf(u, X)
      <4>1. \A k \in DOMAIN t : t[k] \in X => t[k] # x
        <5> SUFFICES ASSUME NEW k \in DOMAIN t, t[k] \in X, t[k] = x PROVE FALSE
          OBVIOUS
        <5>1. PICK h \in 1..i : t[k] = s[h]
          BY <2>4
        <5>2. h \in DOMAIN s /\ i + 1 \in DOMAIN s /\ h # i + 1
          BY <1>2, <2>1
        <5> QED  BY <3>4, <5>1, <5>2 DEF SingleOf
      <4> HIDE DEF x
      <4> QED  BY <2>4, <3>2, <3>4, <4>1 DEF SingleOf
    <3> QED  BY <3>3, <3>4 DEF u
  <2> QED  BY <2>5, <2>6
<1>5. n \in S
  <2> HIDE DEF S
  <2> QED  BY <1>2, <1>3, <1>4, SetInduction
<1>6. Good(n)
  BY <1>2, <1>5
<1> QED  BY <1>1, <1>2, <1>6 DEF Remains

Boxes == [Lanes -> Seq(Given)]

LEMMA SpliceType ==
  ASSUME NEW inbox \in Boxes, NEW event \in Events
  PROVE  Splice(inbox, event) \in Boxes
<1>1. CASE event.type = "inbox/enqueued" /\ event.what \in Lanes
  <2>1. inbox[event.what] \o event.messages \in Seq(Given)
    BY <1>1, EventsAre DEF Boxes
  <2> QED  BY <1>1, <2>1 DEF Splice, Boxes
<1>2. CASE event.type = "inbox/claimed" /\ event.what \in Lanes
  <2>1. Without(inbox[event.what], event.messages) \in Seq(Given)
    BY <1>2, WithoutType DEF Boxes
  <2> QED  BY <1>2, <2>1 DEF Splice, Boxes
<1>3. CASE event.what \notin Lanes
  BY <1>3 DEF Splice, Boxes
<1>4. CASE event.type \notin {"inbox/enqueued", "inbox/claimed"}
  BY <1>4 DEF Splice
<1> QED  BY <1>1, <1>2, <1>3, <1>4

(* The Inbox follows the recursion of its definition.                      *)
LEMMA InboxDefined ==
  ASSUME log \in Seq(Events)
  PROVE  /\ InboxAt \in [0..Len(log) -> Boxes]
         /\ InboxAt[0] = [lane \in Lanes |-> <<>>]
         /\ \A n \in 1..Len(log) : InboxAt[n] = Splice(InboxAt[n - 1], log[n])
<1> DEFINE n == Len(log)
           none == [lane \in Lanes |-> <<>>]
           step(i, t) == Splice(t, log[i])
           next == [i \in 1..n |-> [t \in Boxes |-> step(i, t)]]
           Def(f) == f = [i \in 0..n |-> IF i = 0 THEN none ELSE step(i, f[i - 1])]
<1>1. InboxAt = CHOOSE f : Def(f)
  BY DEF InboxAt
<1>2. n \in Nat /\ none \in Boxes
  BY DEF Boxes
<1>3. \A i \in 1..n, t \in Boxes : step(i, t) \in Boxes
  BY SpliceType
<1> HIDE DEF n, none, step
<1>5. (\A i \in 1..n, t \in Boxes : next[i][t] = step(i, t)) /\ next \in [1..n -> [Boxes -> Boxes]]
  BY <1>3
<1> HIDE DEF next
<1>6. PICK f : Solves(f, Boxes, none, n, next)
  <2>1. Recurrence(Boxes, none, n, next)
    BY <1>2, <1>5 DEF Recurrence
  <2> QED  BY <2>1, Recursion
<1>7. Def(f)
  <2>1. \A i \in 0..n : f[i] = IF i = 0 THEN none ELSE step(i, f[i - 1])
    BY <1>2, <1>5, <1>6 DEF Solves
  <2>2. f = [i \in 0..n |-> f[i]]
    BY <1>6 DEF Solves
  <2> QED  BY <2>1, <2>2, Zenon
<1>8. Def(InboxAt)
  BY <1>1, <1>7
<1>9. InboxAt[0] = none /\ \A i \in 1..n : InboxAt[i] = step(i, InboxAt[i - 1])
  BY <1>2, <1>8
<1> DEFINE S == {i \in Nat : i <= n => InboxAt[i] \in Boxes}
<1>10. 0 \in S /\ \A i \in Nat : i \in S => i + 1 \in S
  BY <1>2, <1>3, <1>9
<1>11. \A i \in 0..n : i \in S
  <2> HIDE DEF S
  <2> QED  BY <1>2, <1>10, SetInduction
<1>12. InboxAt \in [0..n -> Boxes]
  <2>1. \A i \in 0..n : InboxAt[i] \in Boxes
    BY <1>2, <1>11
  <2>2. InboxAt = [i \in 0..n |-> InboxAt[i]]
    BY <1>8
  <2> QED  BY <2>1, <2>2
<1> QED  BY <1>9, <1>12 DEF n, none, step

LEMMA InboxType ==
  ASSUME log \in Seq(Events)
  PROVE  Inbox \in Boxes
<1>1. Len(log) \in 0..Len(log)
  OBVIOUS
<1> QED  BY <1>1, InboxDefined DEF Inbox

LEMMA EventType ==
  ASSUME NEW type \in Types, NEW id \in Nat, NEW what \in Words, NEW messages \in Seq(Given)
  PROVE  /\ Event(type, id, what, messages) \in Events
         /\ Event(type, id, what, messages).type = type
         /\ Event(type, id, what, messages).id = id
         /\ Event(type, id, what, messages).what = what
         /\ Event(type, id, what, messages).messages = messages
BY EventsAre DEF Event

LEMMA AboutType ==
  ASSUME NEW type \in Types, NEW id \in Nat, NEW what \in Words
  PROVE  /\ About(type, id, what) \in Events
         /\ About(type, id, what).type = type
         /\ About(type, id, what).id = id
         /\ About(type, id, what).what = what
BY EventsAre DEF About, Event

(* What a Step appends.                                                    *)
Claiming == {"step/start", "inbox/claimed", "user/message"}

LEMMA ClaimingTypes ==
  ASSUME NEW id \in Nat, NEW messages \in Seq(Given)
  PROVE  /\ About("turn/start", id, "") \in Events
         /\ About("turn/start", id, "").type = "turn/start"
         /\ About("turn/start", id, "").id = id
         /\ About("step/start", id, "") \in Events
         /\ About("step/start", id, "").type \in Claiming
         /\ Event("inbox/claimed", id, "nextTurn", messages) \in Events
         /\ Event("inbox/claimed", id, "nextTurn", messages).type \in Claiming
         /\ Event("inbox/claimed", id, "nextStep", messages) \in Events
         /\ Event("inbox/claimed", id, "nextStep", messages).type \in Claiming
         /\ Event("user/message", id, "", messages) \in Events
         /\ Event("user/message", id, "", messages).type \in Claiming
<1>1. About("turn/start", id, "") \in Events /\ About("step/start", id, "") \in Events
  <2>1. "turn/start" \in Types /\ "step/start" \in Types /\ "" \in Words
    BY DEF Types, TurnTypes, Words
  <2> QED  BY <2>1, AboutType
<1>2. /\ Event("inbox/claimed", id, "nextTurn", messages) \in Events
      /\ Event("inbox/claimed", id, "nextStep", messages) \in Events
      /\ Event("user/message", id, "", messages) \in Events
  BY EventsAre DEF Types, TurnTypes, Words, Lanes, Event
<1> QED  BY <1>1, <1>2 DEF About, Event, Claiming

LEMMA StepEventsShape ==
  ASSUME log \in Seq(Events), NEW id \in Nat, NEW step \in Nat
  PROVE  /\ StepEvents(id, step) \in Seq(Events)
         /\ \A j \in DOMAIN StepEvents(id, step) :
              StepEvents(id, step)[j].type \in Claiming \cup {"turn/start"}
         /\ step > 0 => \A j \in DOMAIN StepEvents(id, step) :
                          StepEvents(id, step)[j].type \in Claiming
         /\ step = 0 =>
              /\ Len(StepEvents(id, step)) > 0
              /\ StepEvents(id, step)[1].type = "turn/start"
              /\ StepEvents(id, step)[1].id = id
              /\ \A j \in DOMAIN StepEvents(id, step) :
                   StepEvents(id, step)[j].type = "turn/start" => j = 1
<1> DEFINE queued == IF step = 0 THEN Inbox["nextTurn"] ELSE <<>>
           steps  == Inbox["nextStep"]
           given  == IF step > 0 THEN steps
                     ELSE IF queued = <<>> /\ Places({"user/message"}) = {} THEN <<Goal>>
                     ELSE queued
           Rest == {e \in Events : e.type \in Claiming}
           a == IF step = 0 THEN <<About("turn/start", id, "")>> ELSE <<>>
           b == <<About("step/start", id, "")>>
           c == IF queued # <<>> THEN <<Event("inbox/claimed", id, "nextTurn", queued)>> ELSE <<>>
           d == IF steps # <<>> THEN <<Event("inbox/claimed", id, "nextStep", steps)>> ELSE <<>>
           e == [i \in 1..Len(given) |-> Event("user/message", id, "", <<given[i]>>)]
           whole == StepEvents(id, step)
<1>1. queued \in Seq(Given) /\ steps \in Seq(Given) /\ given \in Seq(Given)
  <2>1. Inbox["nextTurn"] \in Seq(Given) /\ Inbox["nextStep"] \in Seq(Given)
    BY InboxType DEF Boxes, Lanes
  <2>2. <<Goal>> \in Seq(Given) /\ <<>> \in Seq(Given)
    BY DEF Given
  <2> QED  BY <2>1, <2>2
<1>2. whole = a \o b \o c \o d \o e
  BY DEF StepEvents
<1> HIDE DEF queued, steps, given
<1> HIDE DEF Rest
<1>3. b \in Seq(Rest) /\ c \in Seq(Rest) /\ d \in Seq(Rest) /\ e \in Seq(Rest)
  <2>1. \A x \in Events : x.type \in Claiming => x \in Rest
    BY DEF Rest
  <2>2. <<>> \in Seq(Given) /\ Len(given) \in Nat
        /\ \A i \in 1..Len(given) : <<given[i]>> \in Seq(Given)
    BY <1>1
  <2> DEFINE start  == About("step/start", id, "")
             turns  == Event("inbox/claimed", id, "nextTurn", queued)
             taken  == Event("inbox/claimed", id, "nextStep", steps)
             user(i) == Event("user/message", id, "", <<given[i]>>)
  <2>3. start \in Rest
    BY <2>1, <2>2, ClaimingTypes
  <2>4. turns \in Rest
    BY <1>1, <2>1, ClaimingTypes
  <2>5. taken \in Rest
    BY <1>1, <2>1, ClaimingTypes
  <2>6. \A i \in 1..Len(given) : user(i) \in Rest
    BY <2>1, <2>2, ClaimingTypes
  <2>7. /\ b = <<start>> /\ c = (IF queued # <<>> THEN <<turns>> ELSE <<>>)
        /\ d = (IF steps # <<>> THEN <<taken>> ELSE <<>>)
        /\ e = [i \in 1..Len(given) |-> user(i)]
    OBVIOUS
  <2> HIDE DEF b, c, d, e, start, turns, taken, user
  <2> QED  BY <2>2, <2>3, <2>4, <2>5, <2>6, <2>7
<1>4. Rest \subseteq Events /\ \A x \in Rest : x.type \in Claiming /\ x.type # "turn/start"
  BY DEF Rest, Claiming
<1> HIDE DEF b, c, d, e
<1>5. CASE step = 0
  <2>1. a = <<About("turn/start", id, "")>>
    BY <1>5
  <2>2. /\ About("turn/start", id, "") \in Events /\ About("turn/start", id, "").type = "turn/start"
        /\ About("turn/start", id, "").id = id
    <3>1. <<>> \in Seq(Given)
      OBVIOUS
    <3> QED  BY <3>1, ClaimingTypes
  <2> DEFINE first == About("turn/start", id, "")
             Starts(s) == /\ s \in Seq(Events) /\ Len(s) > 0
                          /\ s[1].type = "turn/start" /\ s[1].id = id
                          /\ \A j \in DOMAIN s : j # 1 => s[j].type \in Claiming
  <2>3. Starts(a)
    <3>1. a = <<first>> /\ first \in Events /\ first.type = "turn/start" /\ first.id = id
      BY <2>1, <2>2
    <3> HIDE DEF a, first
    <3> QED  BY <3>1
  <2>4. ASSUME NEW s, NEW t \in Seq(Rest), Starts(s)
        PROVE  Starts(s \o t)
    <3>1. t \in Seq(Events) /\ s \o t \in Seq(Events) /\ Len(s \o t) = Len(s) + Len(t)
      BY <1>4, <2>4
    <3>2. (s \o t)[1] = s[1]
      BY <2>4, <3>1
    <3>3. ASSUME NEW j \in DOMAIN (s \o t), j # 1
          PROVE  (s \o t)[j].type \in Claiming
      <4>1. CASE j <= Len(s)
        BY <2>4, <3>1, <3>3, <4>1
      <4>2. CASE j > Len(s)
        <5>1. j - Len(s) \in DOMAIN t /\ (s \o t)[j] = t[j - Len(s)]
          BY <2>4, <3>1, <4>2
        <5> QED  BY <1>4, <5>1
      <4> QED  BY <4>1, <4>2, <3>1
    <3> QED  BY <2>4, <3>1, <3>2, <3>3
  <2> HIDE DEF Starts, a
  <2>5. Starts(whole)
    BY <1>2, <1>3, <2>3, <2>4
  <2> QED  BY <1>5, <2>5 DEF Starts, Claiming
<1>6. CASE step # 0
  <2>1. a = <<>>
    BY <1>6
  <2>2. a \in Seq(Rest)
    <3> HIDE DEF a
    <3> QED  BY <2>1
  <2> HIDE DEF a
  <2>3. whole \in Seq(Rest)
    <3>1. \A s, t \in Seq(Rest) : s \o t \in Seq(Rest)
      OBVIOUS
    <3> QED  BY <1>2, <1>3, <2>2, <3>1
  <2>4. whole \in Seq(Events) /\ \A j \in DOMAIN whole : whole[j].type \in Claiming
    BY <1>4, <2>3
  <2> QED  BY <1>6, <2>4
<1> QED  BY <1>5, <1>6

-----------------------------------------------------------------------------
(* The invariants.                                                         *)

(* What the entries of the queue are.  The Turn's entry carries what its   *)
(* place in runTurn says; a decision is alone in its entry; no other       *)
(* command appends anything about calls, or starts or ends a Turn.         *)
InCall   == {"calling", "requesting", "waiting", "deaf", "dispatching", "executing",
             "completing", "recording"}
Quitting == {"failing", "ending"}

PlainTypes == CommandTypes \ {"tool/approval"}

(* The event belongs where the Turn is.                                    *)
Suits(t, event) ==
  /\ event.type \in TurnTypes
  /\ event.type = "turn/start" => t.pc = "claiming" /\ ~t.turnOpen /\ event.id = t.id
  /\ event.type = "user/message" => t.pc = "claiming"
  /\ event.type = "turn/end" => t.pc \in Quitting /\ event.id = t.id
  /\ event.type = "session/ended" => t.pc \in Quitting
  /\ event.type = "tool/call" =>
       t.pc = "calling" /\ event.id = t.call /\ event.what = Head(t.calls)
  /\ event.type = "tool/approval" =>
       t.pc = "requesting" /\ event.id = t.call /\ event.what = "requested"
  /\ event.type = "tool/execution" =>
       t.pc = "dispatching" /\ event.id = t.call /\ event.what = "dispatched"

(* What the Turn awaits.                                                   *)
Owes(t, events) ==
  /\ t.pc \notin Resting
  /\ \A j \in DOMAIN events : Suits(t, events[j])
  /\ t.pc = "claiming" /\ ~t.turnOpen =>
       /\ Len(events) > 0 /\ events[1].type = "turn/start"
       /\ \A j \in DOMAIN events : events[j].type = "turn/start" => j = 1
  /\ t.pc = "dispatching" => Len(events) = 1 /\ events[1].type = "tool/execution"
  /\ t.pc \in Quitting /\ t.turnOpen => \E j \in DOMAIN events : events[j].type = "turn/end"

ProperOf(t, n, entry) ==
  \/ /\ entry.then = "turn"
     /\ t # None /\ Owes(t, entry.events)
  \/ /\ entry.then \in Verdicts
     /\ \E c \in 1..n : entry.events = <<About("tool/approval", c, entry.then)>>
  \/ /\ entry.then \in Replies
     /\ \A j \in DOMAIN entry.events : entry.events[j].type \in PlainTypes

Proper(entry) == ProperOf(turn, ids, entry)

(* The head of the queue, once shown, is the end of the log.               *)
HeadInLog ==
  LET events == queue[1].events IN
  /\ Len(events) <= Len(log)
  /\ \A j \in DOMAIN events : log[Len(log) - Len(events) + j] = events[j]

Owned ==
  /\ shown => queue # <<>> /\ queue[1].then # "rename" /\ HeadInLog
  /\ \A k \in DOMAIN queue : Proper(queue[k])
  /\ \A k, l \in DOMAIN queue : queue[k].then = "turn" /\ queue[l].then = "turn" => k = l

(* The Turn, and the decision that is waited for: a call is open to one    *)
(* only when its request is in the log.                                    *)
Held ==
  /\ turn # None =>
       /\ turn.id \in 1..ids /\ turn.call \in 0..ids
       /\ turn.pc \in InCall => turn.call > 0 /\ turn.calls # <<>>
       /\ turn.pc = "deaf" => turn.aborted
       /\ turn.pc \notin Quitting \cup {"claiming"} => turn.turnOpen
  /\ pendingDecision # None =>
       /\ pendingDecision \in 1..ids
       /\ turn # None /\ turn.call = pendingDecision => turn.pc \notin {"calling", "requesting"}

TurnShown == shown /\ queue[1].then = "turn"

(* The entry ends the Session.                                             *)
Ends(entry) == \E j \in DOMAIN entry.events : entry.events[j].type = "session/ended"

(* The entry submits no message.                                           *)
IsEnqueue(event) == event.type = "inbox/enqueued"
Quiet(entry) == \A j \in DOMAIN entry.events : ~IsEnqueue(entry.events[j])

MayRefuse == archived \/ AppendsFail

-----------------------------------------------------------------------------
(* What a step does.                                                       *)

Queues == Seq(Entries)

PlainEntry(entry) ==
  /\ entry.then \in Replies
  /\ \A j \in DOMAIN entry.events : entry.events[j].type \in PlainTypes

(* d entries leave the queue at its head, the new ones are appended.       *)
Slides(d, new) ==
  /\ d \in {0, 1} /\ d <= Len(queue) /\ new \in Seq(Entries)
  /\ queue' \in Queues
  /\ Len(queue') = Len(queue) - d + Len(new)
  /\ \A k \in 1..Len(queue) - d : queue'[k] = queue[k + d]
  /\ \A k \in 1..Len(new) : queue'[Len(queue) - d + k] = new[k]
  /\ d = 0 => shown' = shown
  /\ d = 1 => shown' = FALSE
  /\ UNCHANGED <<log, boots>>

ClaimsNow(t, events) ==
  t.pc = "claiming" => \E step \in Nat : events = StepEvents(t.id, step)

(* The Turn, none of whose appends is left in the queue, appends events,   *)
(* at the beginning of a Step those that claim the Inbox as it is; what a  *)
(* command appends before it ends the Session only of a Turn that has been *)
(* aborted.                                                                *)
Awaits(d, events) ==
  /\ \E new :
       /\ Slides(d, new)
       /\ Len(new) > 0 /\ new[Len(new)] = Entry(events, "turn")
       /\ \A k \in 1..Len(new) - 1 :
            PlainEntry(new[k]) /\ Quiet(new[k]) /\ (Ends(new[k]) => turn'.aborted)
  /\ \A k \in DOMAIN queue : k > d => queue[k].then # "turn"
  /\ turn' \in TurnRecord /\ Owes(turn', events)
  /\ ClaimsNow(turn', events)

(* A command, or the end of its append.                                    *)
Serves ==
  /\ \E d, new :
       /\ Slides(d, new)
       /\ d = 1 => queue[1].then # "turn"
       /\ \A k \in DOMAIN new :
            PlainEntry(new[k]) /\ (Ends(new[k]) => turn' = None \/ turn'.aborted)
       /\ \/ \A k \in DOMAIN new : Quiet(new[k])
          \/ \E m \in Messages, lane \in Lanes : Enqueue(m, lane)
  /\ turn' = turn \/ (turn # None /\ turn' = [turn EXCEPT !.aborted = TRUE])
  /\ UNCHANGED <<pendingDecision, effects, ids>>

Decides ==
  /\ pendingDecision # None /\ pendingDecision' = None
  /\ \E status \in Verdicts :
       Slides(0, <<Entry(<<About("tool/approval", pendingDecision, status)>>, status)>>)
  /\ UNCHANGED <<turn, effects, ids>>

(* The Turn goes on without an append.                                     *)
Arrives(pc) ==
  /\ turn # None /\ TurnShown /\ turn.pc = pc
  /\ Slides(1, <<>>)
  /\ UNCHANGED ids

Claims ==
  /\ Arrives("claiming")
  /\ turn' = [turn EXCEPT !.pc = "asking", !.turnOpen = TRUE, !.stepOpen = TRUE]
  /\ UNCHANGED <<pendingDecision, effects>>

Waiting ==
  /\ Arrives("requesting")
  /\ \/ turn' = [turn EXCEPT !.pc = "waiting"]
     \/ turn' = [turn EXCEPT !.pc = "deaf"] /\ turn.aborted
  /\ pendingDecision' \in {pendingDecision, turn.call}
  /\ UNCHANGED effects

Executes ==
  /\ Arrives("dispatching") /\ ~turn.aborted
  /\ turn' = [turn EXCEPT !.pc = "executing"]
  /\ effects' = Append(effects, turn.call)
  /\ UNCHANGED pendingDecision

Leaves ==
  /\ queue # <<>> /\ queue[1].then = "turn"
  /\ turn # None /\ turn.pc \in Quitting /\ (shown \/ MayRefuse)
  /\ Slides(1, <<>>)
  /\ turn' = None
  /\ UNCHANGED <<pendingDecision, effects, ids>>

(* The Turn appends.                                                       *)
Begins ==
  /\ turn = None /\ turn' = NewTurn(ids + 1) /\ ids' = ids + 1
  /\ \E d, events : Awaits(d, events)
  /\ UNCHANGED <<pendingDecision, effects>>

MakesCall ==
  /\ turn # None /\ turn.turnOpen /\ turn.pc \notin Quitting
  /\ turn'.pc = "calling" /\ turn'.call = ids + 1 /\ turn'.calls # <<>>
  /\ turn'.id = turn.id /\ turn'.turnOpen = turn.turnOpen /\ turn'.aborted = turn.aborted
  /\ ids' = ids + 1
  /\ \E d, events : Awaits(d, events)
  /\ UNCHANGED <<pendingDecision, effects>>

Requests ==
  /\ turn # None /\ TurnShown /\ turn.pc = "calling"
  /\ turn' = [turn EXCEPT !.pc = "requesting"]
  /\ \E events : Awaits(1, events)
  /\ UNCHANGED <<pendingDecision, effects, ids>>

Dispatching ==
  /\ turn # None /\ shown
  /\ \/ /\ TurnShown /\ turn.pc = "calling"
        /\ Head(turn.calls) = "command" => PermissionMode # "requestApproval"
     \/ /\ Waits(turn)
        /\ queue[1].then = "approved" /\ queue[1].events[1].id = turn.call
  /\ turn' = [turn EXCEPT !.pc = "dispatching"]
  /\ \E events : Awaits(1, events)
  /\ UNCHANGED <<pendingDecision, effects, ids>>

Advances ==
  /\ turn # None
  /\ (turn.turnOpen /\ turn.pc \notin Quitting) \/ MayRefuse
  /\ turn'.pc \in {"claiming", "answering", "completing", "recording", "stopping",
                   "finishing", "continuing", "ending", "failing"}
  /\ turn'.pc \in InCall => turn.pc \in InCall /\ turn'.calls = turn.calls
  /\ turn.pc \in Quitting => turn'.pc \in Quitting
  /\ turn'.id = turn.id /\ turn'.call = turn.call /\ turn'.turnOpen = turn.turnOpen
  /\ turn'.turnOpen \/ turn'.pc = "failing"
  /\ turn.aborted => turn'.aborted
  /\ \E d, events : Awaits(d, events)
  /\ pendingDecision' \in {pendingDecision, None}
  /\ UNCHANGED <<effects, ids>>

(* The process dies.                                                       *)
Restarts ==
  /\ \/ log' = log
     \/ /\ queue # <<>> /\ ~shown /\ ~archived
        /\ \E k \in 1..Len(queue[1].events) : log' = log \o SubSeq(queue[1].events, 1, k)
  /\ queue' = <<>> /\ shown' = FALSE
  /\ turn' = None /\ pendingDecision' = None
  /\ boots' = Append(boots, Len(log'))
  /\ UNCHANGED <<effects, ids>>

Sundry ==
  /\ archived' \in BOOLEAN /\ (archived => archived')
  /\ pendingQuestion' \in Nat \cup {None}
  /\ starting' \in Nat
  /\ requests' \in 0..MaxRequests

TurnForm ==
  \/ Claims \/ Waiting \/ Executes \/ Leaves
  \/ Begins \/ MakesCall \/ Requests \/ Dispatching \/ Advances

Form ==
  /\ Sundry
  /\ Serves \/ Decides \/ TurnForm

Base == TypeOK /\ Owned /\ Held

-----------------------------------------------------------------------------
(* Queues.                                                                 *)

LEMMA EntryType ==
  ASSUME NEW events \in Seq(Events), NEW then \in {"turn"} \cup Verdicts \cup Replies
  PROVE  Entry(events, then) \in Entries
BY DEF Entry, Entries

LEMMA SlidesOn ==
  ASSUME queue \in Queues, NEW new \in Seq(Entries), queue' = queue \o new,
         UNCHANGED <<shown, log, boots>>, shown \in BOOLEAN
  PROVE  Slides(0, new)
BY DEF Slides, Queues

LEMMA SlidesOff ==
  ASSUME queue \in Queues, queue # <<>>, NEW new \in Seq(Entries), queue' = Tail(queue) \o new,
         shown' = FALSE, UNCHANGED <<log, boots>>
  PROVE  Slides(1, new)
<1> DEFINE rest == Tail(queue)
<1>1. /\ rest \in Queues /\ Len(rest) = Len(queue) - 1 /\ Len(queue) \in Nat /\ Len(queue) > 0
      /\ \A k \in 1..Len(queue) - 1 : rest[k] = queue[k + 1]
  BY DEF Queues
<1> HIDE DEF rest
<1>2. queue' = rest \o new
  BY DEF rest
<1>3. queue' \in Queues /\ Len(queue') = Len(rest) + Len(new)
  BY <1>1, <1>2 DEF Queues
<1>4. \A k \in 1..Len(rest) : queue'[k] = rest[k]
  BY <1>1, <1>2 DEF Queues
<1>5. \A k \in 1..Len(new) : queue'[Len(rest) + k] = new[k]
  BY <1>1, <1>2 DEF Queues
<1>6. \A k \in 1..Len(queue) - 1 : queue'[k] = queue[k + 1]
  BY <1>1, <1>4
<1>7. Len(queue') = Len(queue) - 1 + Len(new)
  BY <1>1, <1>3
<1>8. \A k \in 1..Len(new) : queue'[Len(queue) - 1 + k] = new[k]
  BY <1>1, <1>5
<1> QED  BY <1>1, <1>3, <1>6, <1>7, <1>8 DEF Slides

LEMMA TailSlides ==
  ASSUME queue \in Queues, queue # <<>>, queue' = Tail(queue),
         shown' = FALSE, UNCHANGED <<log, boots>>
  PROVE  Slides(1, <<>>)
<1>1. Tail(queue) \in Queues /\ <<>> \in Seq(Entries)
  BY DEF Queues
<1>2. queue' = Tail(queue) \o <<>>
  BY <1>1 DEF Queues
<1> QED  BY <1>1, <1>2, SlidesOff

LEMMA AppendIs ==
  ASSUME NEW q \in Queues, NEW entry \in Entries
  PROVE  Append(q, entry) = q \o <<entry>> /\ <<entry>> \in Seq(Entries)
BY DEF Queues

(* The Turn's entry is put at the end.                                     *)
LEMMA GoesOn ==
  ASSUME queue \in Queues, shown \in BOOLEAN, UNCHANGED <<shown, log, boots>>,
         \A k \in DOMAIN queue : queue[k].then # "turn",
         NEW t \in TurnRecord, NEW pc \in Points, NEW events \in Seq(Events),
         NEW plain \in Seq(Entries),
         \A k \in DOMAIN plain :
           PlainEntry(plain[k]) /\ Quiet(plain[k]) /\ (Ends(plain[k]) => t.aborted),
         Goes(t, pc, events, queue \o plain),
         Owes([t EXCEPT !.pc = pc], events), ClaimsNow([t EXCEPT !.pc = pc], events)
  PROVE  Awaits(0, events) /\ turn' = [t EXCEPT !.pc = pc]
<1> DEFINE entry == Entry(events, "turn")
           new == Append(plain, entry)
<1>1. turn' = [t EXCEPT !.pc = pc] /\ turn' \in TurnRecord /\ turn'.aborted = t.aborted
  BY DEF Goes, TurnRecord
<1>2. entry \in Entries
  BY DEF Entry, Entries
<1>3. queue' = Append(queue \o plain, entry)
  BY DEF Goes
<1> HIDE DEF entry
<1>4. /\ queue' = queue \o new /\ new \in Seq(Entries) /\ Len(new) = Len(plain) + 1
      /\ new[Len(new)] = entry /\ \A k \in 1..Len(plain) : new[k] = plain[k]
  <2>1. Append(queue \o plain, entry) = (queue \o plain) \o <<entry>>
    BY <1>2, AppendIsConcat, ConcatProperties DEF Queues
  <2>2. (queue \o plain) \o <<entry>> = queue \o (plain \o <<entry>>)
    BY <1>2, ConcatAssociative DEF Queues
  <2>3. new = plain \o <<entry>>
    BY <1>2, AppendIsConcat
  <2>4. /\ new \in Seq(Entries) /\ Len(new) = Len(plain) + 1
        /\ new[Len(new)] = entry /\ \A k \in 1..Len(plain) : new[k] = plain[k]
    BY <1>2
  <2> HIDE DEF new
  <2> QED  BY <1>3, <2>1, <2>2, <2>3, <2>4
<1> HIDE DEF new
<1>5. Slides(0, new)
  BY <1>4, SlidesOn
<1>6. /\ Len(new) > 0
      /\ \A k \in 1..Len(new) - 1 :
           PlainEntry(new[k]) /\ Quiet(new[k]) /\ (Ends(new[k]) => turn'.aborted)
  <2>1. Len(plain) \in Nat /\ DOMAIN plain = 1..Len(plain)
    OBVIOUS
  <2> QED  BY <1>1, <1>4, <2>1
<1> QED  BY <1>1, <1>4, <1>5, <1>6 DEF Awaits, entry

LEMMA GoesOff ==
  ASSUME queue \in Queues, queue # <<>>, shown' = FALSE, UNCHANGED <<log, boots>>,
         \A k \in DOMAIN queue : k > 1 => queue[k].then # "turn",
         NEW t \in TurnRecord, NEW pc \in Points, NEW events \in Seq(Events),
         Goes(t, pc, events, Tail(queue)),
         Owes([t EXCEPT !.pc = pc], events), ClaimsNow([t EXCEPT !.pc = pc], events)
  PROVE  Awaits(1, events) /\ turn' = [t EXCEPT !.pc = pc]
<1> DEFINE entry == Entry(events, "turn")
           rest == Tail(queue)
<1>1. turn' = [t EXCEPT !.pc = pc] /\ turn' \in TurnRecord
  BY DEF Goes, TurnRecord
<1>2. entry \in Entries /\ rest \in Queues
  BY DEF Entry, Entries, Queues
<1>3. queue' = Append(rest, entry)
  BY DEF Goes
<1>4. queue' = rest \o <<entry>> /\ <<entry>> \in Seq(Entries)
  <2> HIDE DEF entry, rest
  <2> QED  BY <1>2, <1>3, AppendIs
<1>5. Slides(1, <<entry>>)
  <2> HIDE DEF entry
  <2> QED  BY <1>4, SlidesOff
<1>6. Len(<<entry>>) = 1 /\ <<entry>>[1] = entry
  OBVIOUS
<1> DEFINE new == <<entry>>
<1>7. \E n : /\ Slides(1, n)
             /\ Len(n) > 0 /\ n[Len(n)] = entry
             /\ \A k \in 1..Len(n) - 1 :
                  PlainEntry(n[k]) /\ Quiet(n[k]) /\ (Ends(n[k]) => turn'.aborted)
  <2>1. Slides(1, new) /\ Len(new) = 1 /\ new[1] = entry
    BY <1>5, <1>6
  <2> HIDE DEF new, entry
  <2>2. Len(new) > 0 /\ new[Len(new)] = entry
    BY <2>1
  <2>3. \A k \in 1..Len(new) - 1 :
          PlainEntry(new[k]) /\ Quiet(new[k]) /\ (Ends(new[k]) => turn'.aborted)
    BY <2>1
  <2> WITNESS new
  <2> QED  BY <2>1, <2>2, <2>3
<1> HIDE DEF entry
<1> QED  BY <1>1, <1>7 DEF Awaits, entry

(* No entry of the Turn is in the queue while it rests, or is not there;   *)
(* only the head can be one when the head is one.                          *)
LEMMA TurnFree ==
  ASSUME Owned, queue \in Queues
  PROVE  /\ turn = None \/ turn.pc \in Resting => \A k \in DOMAIN queue : queue[k].then # "turn"
         /\ queue # <<>> /\ queue[1].then = "turn" =>
              /\ turn # None /\ turn.pc \notin Resting
              /\ \A k \in DOMAIN queue : k > 1 => queue[k].then # "turn"
         /\ shown => queue # <<>>
<1>1. \A k \in DOMAIN queue : queue[k].then = "turn" => turn # None /\ turn.pc \notin Resting
  <2> SUFFICES ASSUME NEW k \in DOMAIN queue, queue[k].then = "turn"
               PROVE  turn # None /\ turn.pc \notin Resting
    OBVIOUS
  <2>1. Proper(queue[k])
    BY DEF Owned
  <2> QED  BY <2>1 DEF Proper, ProperOf, Owes, Verdicts, Replies
<1>2. queue # <<>> => 1 \in DOMAIN queue
  BY DEF Queues
<1>3. queue # <<>> /\ queue[1].then = "turn" => \A k \in DOMAIN queue : k > 1 => queue[k].then # "turn"
  BY <1>2 DEF Owned
<1> QED  BY <1>1, <1>2, <1>3 DEF Owned

(* The Turn's continuation.                                                *)
LEMMA Continues ==
  ASSUME Base, NEW pc, TurnResumes(pc)
  PROVE  /\ turn # None /\ turn \in TurnRecord /\ turn.pc = pc /\ turn.pc \notin Resting
         /\ queue \in Queues /\ queue # <<>> /\ shown' = FALSE /\ UNCHANGED <<log, boots>>
         /\ TurnShown
         /\ \A k \in DOMAIN queue : k > 1 => queue[k].then # "turn"
         /\ UNCHANGED <<archived, starting, requests>>
<1>1. queue \in Queues /\ queue # <<>> /\ Head(queue).then = "turn" /\ shown
  BY DEF Base, TypeOK, Queues, TurnResumes, Resumes
<1>2. queue[1].then = "turn"
  BY <1>1 DEF Queues
<1> QED  BY <1>1, <1>2, TurnFree DEF Base, TypeOK, TurnResumes, Resumes, TurnShown, clientVars

-----------------------------------------------------------------------------
(* The forms, action by action.                                            *)

(* The events that the actions append are events.                          *)
LEMMA EventsHere ==
  ASSUME NEW id \in Nat
  PROVE  /\ About("step/end", id, "") \in Events
         /\ About("turn/end", id, "") \in Events
         /\ About("assistant/message", id, "") \in Events
         /\ About("question/requested", id, "") \in Events
         /\ About("question/answered", id, "") \in Events
         /\ About("question/cancelled", id, "") \in Events
         /\ About("tool/approval", id, "requested") \in Events
         /\ About("tool/execution", id, "dispatched") \in Events
         /\ \A kind \in Kinds : About("tool/call", id, kind) \in Events
         /\ \A status \in Statuses \cup Verdicts : About("tool/result", id, status) \in Events
         /\ \A status \in Verdicts : About("tool/approval", id, status) \in Events
<1>1. About("step/end", id, "") \in Events
  <2>1. "step/end" \in Types /\ "" \in Words
    BY DEF Types, TurnTypes, CommandTypes, Words
  <2> QED  BY <2>1, AboutType
<1>2. About("turn/end", id, "") \in Events
  <2>1. "turn/end" \in Types /\ "" \in Words
    BY DEF Types, TurnTypes, CommandTypes, Words
  <2> QED  BY <2>1, AboutType
<1>3. About("assistant/message", id, "") \in Events
  <2>1. "assistant/message" \in Types /\ "" \in Words
    BY DEF Types, TurnTypes, CommandTypes, Words
  <2> QED  BY <2>1, AboutType
<1>4. About("question/requested", id, "") \in Events
  <2>1. "question/requested" \in Types /\ "" \in Words
    BY DEF Types, TurnTypes, CommandTypes, Words
  <2> QED  BY <2>1, AboutType
<1>5. About("question/answered", id, "") \in Events
  <2>1. "question/answered" \in Types /\ "" \in Words
    BY DEF Types, TurnTypes, CommandTypes, Words
  <2> QED  BY <2>1, AboutType
<1>6. About("question/cancelled", id, "") \in Events
  <2>1. "question/cancelled" \in Types /\ "" \in Words
    BY DEF Types, TurnTypes, CommandTypes, Words
  <2> QED  BY <2>1, AboutType
<1>7. About("tool/approval", id, "requested") \in Events
  <2>1. "tool/approval" \in Types /\ "requested" \in Words
    BY DEF Types, TurnTypes, CommandTypes, Words
  <2> QED  BY <2>1, AboutType
<1>8. About("tool/execution", id, "dispatched") \in Events
  <2>1. "tool/execution" \in Types /\ "dispatched" \in Words
    BY DEF Types, TurnTypes, CommandTypes, Words
  <2> QED  BY <2>1, AboutType
<1>9. \A kind \in Kinds : About("tool/call", id, kind) \in Events
  <2>1. "tool/call" \in Types /\ Kinds \subseteq Words
    BY DEF Types, TurnTypes, CommandTypes, Words
  <2> QED  BY <2>1, AboutType
<1>10. \A status \in Statuses \cup Verdicts : About("tool/result", id, status) \in Events
  <2>1. "tool/result" \in Types /\ Statuses \cup Verdicts \subseteq Words
    BY DEF Types, TurnTypes, CommandTypes, Words
  <2> QED  BY <2>1, AboutType
<1>11. \A status \in Verdicts : About("tool/approval", id, status) \in Events
  <2>1. "tool/approval" \in Types /\ Verdicts \subseteq Words
    BY DEF Types, TurnTypes, CommandTypes, Words
  <2> QED  BY <2>1, AboutType
<1> QED  BY <1>1, <1>2, <1>3, <1>4, <1>5, <1>6, <1>7, <1>8, <1>9, <1>10, <1>11

LEMMA SessionEventsHere ==
  /\ \A status \in Statuses : Status(status) \in Events /\ Status(status).type = "agent/status"
  /\ \A status \in Statuses :
       SessionEnded(status) \in Events /\ SessionEnded(status).type = "session/ended"
  /\ \A mode \in Modes :
       /\ About("session/permission_changed", 0, mode) \in Events
       /\ About("session/permission_changed", 0, mode).type = "session/permission_changed"
  /\ About("session/resumed", 0, "idle") \in Events
  /\ About("session/resumed", 0, "idle").type = "session/resumed"
  /\ \A m \in Messages, lane \in Lanes :
       /\ Event("inbox/enqueued", 0, lane, <<m>>) \in Events
       /\ Event("inbox/enqueued", 0, lane, <<m>>).type = "inbox/enqueued"
<1>1. \A status \in Statuses : Status(status) \in Events /\ Status(status).type = "agent/status"
  <2>1. "agent/status" \in Types /\ Statuses \subseteq Words
    BY DEF Types, TurnTypes, CommandTypes, Words
  <2>2. \A status \in Statuses : Status(status) \in Events
    BY <2>1, AboutType DEF Status
  <2> QED  BY <2>2 DEF Status, About, Event
<1>2. \A status \in Statuses :
        SessionEnded(status) \in Events /\ SessionEnded(status).type = "session/ended"
  <2>1. "session/ended" \in Types /\ Statuses \subseteq Words
    BY DEF Types, TurnTypes, CommandTypes, Words
  <2>2. \A status \in Statuses : SessionEnded(status) \in Events
    BY <2>1, AboutType DEF SessionEnded
  <2> QED  BY <2>2 DEF SessionEnded, About, Event
<1>3. \A mode \in Modes :
        /\ About("session/permission_changed", 0, mode) \in Events
        /\ About("session/permission_changed", 0, mode).type = "session/permission_changed"
  <2>1. "session/permission_changed" \in Types /\ Modes \subseteq Words
    BY DEF Types, CommandTypes, Words
  <2>2. \A mode \in Modes : About("session/permission_changed", 0, mode) \in Events
    BY <2>1, AboutType
  <2> QED  BY <2>2 DEF About, Event
<1>4. /\ About("session/resumed", 0, "idle") \in Events
      /\ About("session/resumed", 0, "idle").type = "session/resumed"
  <2>1. "session/resumed" \in Types /\ "idle" \in Words
    BY DEF Types, CommandTypes, Words, Statuses
  <2>2. About("session/resumed", 0, "idle") \in Events
    BY <2>1, AboutType
  <2> QED  BY <2>2 DEF About, Event
<1>5. \A m \in Messages, lane \in Lanes :
        /\ Event("inbox/enqueued", 0, lane, <<m>>) \in Events
        /\ Event("inbox/enqueued", 0, lane, <<m>>).type = "inbox/enqueued"
  <2>1. "inbox/enqueued" \in Types /\ Lanes \subseteq Words
    BY DEF Types, CommandTypes, Words
  <2>2. \A m \in Messages : <<m>> \in Seq(Given)
    BY DEF Given
  <2>3. \A m \in Messages, lane \in Lanes : Event("inbox/enqueued", 0, lane, <<m>>) \in Events
    BY <2>1, <2>2, EventType
  <2> QED  BY <2>3 DEF Event
<1> QED  BY <1>1, <1>2, <1>3, <1>4, <1>5

(* One event of the Turn.                                                  *)
LEMMA OwesOne ==
  ASSUME NEW t, NEW event \in Events, Suits(t, event), t.pc \notin Resting, t.pc # "claiming",
         t.pc \notin Quitting, t.pc = "dispatching" => event.type = "tool/execution"
  PROVE  Owes(t, <<event>>) /\ <<event>> \in Seq(Events) /\ ClaimsNow(t, <<event>>)
BY DEF Owes, ClaimsNow

LEMMA Between ==
  ASSUME NEW S, NEW a \in Seq(S), NEW x \in S, NEW c \in Seq(S)
  PROVE  /\ Len(a) + 1 \in DOMAIN (a \o <<x>> \o c)
         /\ (a \o <<x>> \o c)[Len(a) + 1] = x
<1> DEFINE b == a \o <<x>>
<1>1. b \in Seq(S) /\ Len(b) = Len(a) + 1 /\ b[Len(b)] = x
  OBVIOUS
<1> HIDE DEF b
<1>2. Len(b) \in 1..Len(b \o c) /\ (b \o c)[Len(b)] = x
  BY <1>1
<1>3. b \o c \in Seq(S)
  BY <1>1
<1> QED  BY <1>1, <1>2, <1>3 DEF b

(* How a Turn that fails ends.                                             *)
FailEvents(t) ==
  (IF t.stepOpen THEN <<About("step/end", t.id, "")>> ELSE <<>>)
    \o (IF t.turnOpen THEN <<About("turn/end", t.id, "")>> ELSE <<>>)
    \o (IF t.aborted THEN <<Status("idle")>>
        ELSE <<Status("failed"), SessionEnded("failed")>>)

LEMMA OwesFail ==
  ASSUME NEW t \in TurnRecord
  PROVE  /\ Owes([t EXCEPT !.pc = "failing"], FailEvents(t)) /\ FailEvents(t) \in Seq(Events)
         /\ ClaimsNow([t EXCEPT !.pc = "failing"], FailEvents(t))
<1> DEFINE u == [t EXCEPT !.pc = "failing"]
           S == {e \in Events : Suits(u, e)}
           a == IF t.stepOpen THEN <<About("step/end", t.id, "")>> ELSE <<>>
           b == IF t.turnOpen THEN <<About("turn/end", t.id, "")>> ELSE <<>>
           c == IF t.aborted THEN <<Status("idle")>>
                ELSE <<Status("failed"), SessionEnded("failed")>>
           w == About("step/end", t.id, "")
           x == About("turn/end", t.id, "")
           y == Status("idle")
           z == Status("failed")
           v == SessionEnded("failed")
<1>1. t.id \in Nat /\ u.pc = "failing" /\ u.id = t.id
  BY DEF TurnRecord
<1>2. w \in Events /\ x \in Events /\ y \in Events /\ z \in Events /\ v \in Events
  BY <1>1, EventsHere, SessionEventsHere DEF Statuses
<1>3. Suits(u, w) /\ Suits(u, x) /\ Suits(u, y) /\ Suits(u, z) /\ Suits(u, v)
  BY <1>1 DEF Suits, About, Event, Status, SessionEnded, TurnTypes, Quitting
<1>4. a = (IF t.stepOpen THEN <<w>> ELSE <<>>) /\ b = (IF t.turnOpen THEN <<x>> ELSE <<>>)
      /\ c = IF t.aborted THEN <<y>> ELSE <<z, v>>
  OBVIOUS
<1>5. FailEvents(t) = a \o b \o c
  BY DEF FailEvents
<1>6. w \in S /\ x \in S /\ y \in S /\ z \in S /\ v \in S /\ S \subseteq Events
  BY <1>2, <1>3
<1>7. \A e \in S : Suits(u, e)
  OBVIOUS
<1> HIDE DEF a, b, c, S, u, w, x, y, z, v
<1>8. a \in Seq(S) /\ b \in Seq(S) /\ c \in Seq(S)
  BY <1>4, <1>6
<1>9. FailEvents(t) \in Seq(S)
  BY <1>5, <1>8
<1>10. FailEvents(t) \in Seq(Events) /\ \A j \in DOMAIN FailEvents(t) : Suits(u, FailEvents(t)[j])
  BY <1>6, <1>7, <1>9
<1>11. t.turnOpen => \E j \in DOMAIN FailEvents(t) : FailEvents(t)[j].type = "turn/end"
  <2> SUFFICES ASSUME t.turnOpen PROVE \E j \in DOMAIN FailEvents(t) : FailEvents(t)[j].type = "turn/end"
    OBVIOUS
  <2> DEFINE j == Len(a) + 1
  <2>1. b = <<x>> /\ Len(b) = 1 /\ b[1] = x /\ x.type = "turn/end"
    BY <1>4 DEF x, About, Event
  <2>3. j \in DOMAIN (a \o b \o c) /\ (a \o b \o c)[j] = x
    BY <1>6, <1>8, <2>1, Between
  <2> QED  BY <1>5, <2>1, <2>3
<1>12. u.turnOpen = t.turnOpen
  BY DEF u, TurnRecord
<1> QED  BY <1>1, <1>10, <1>11, <1>12 DEF Owes, Resting, ClaimsNow, Quitting, u

LEMMA Failing ==
  ASSUME NEW t, NEW rest
  PROVE  Fails(t, rest) <=> Goes(t, "failing", FailEvents(t), rest)
BY DEF Fails, FailEvents

(* The queue without the Turn's entry: the head goes, or there is none.    *)
Free0 ==
  /\ queue \in Queues /\ shown \in BOOLEAN /\ UNCHANGED <<shown, log, boots>>
  /\ \A k \in DOMAIN queue : queue[k].then # "turn"

Free1 ==
  /\ queue \in Queues /\ queue # <<>> /\ shown' = FALSE /\ UNCHANGED <<log, boots>>
  /\ \A k \in DOMAIN queue : k > 1 => queue[k].then # "turn"

Hand(rest) == (Free0 /\ rest = queue) \/ (Free1 /\ rest = Tail(queue))

LEMMA GoesAway ==
  ASSUME NEW rest, Hand(rest),
         NEW t \in TurnRecord, NEW pc \in Points, NEW events \in Seq(Events),
         Goes(t, pc, events, rest),
         Owes([t EXCEPT !.pc = pc], events), ClaimsNow([t EXCEPT !.pc = pc], events)
  PROVE  (\E d : Awaits(d, events)) /\ turn' = [t EXCEPT !.pc = pc]
<1>1. CASE Free1 /\ rest = Tail(queue)
  BY <1>1, GoesOff DEF Free1
<1>2. CASE Free0 /\ rest = queue
  <2>1. queue \o <<>> = queue /\ <<>> \in Seq(Entries) /\ DOMAIN <<>> = {}
    BY <1>2 DEF Free0, Queues
  <2>2. Goes(t, pc, events, queue \o <<>>)
    BY <1>2, <2>1
  <2> DEFINE plain == <<>>
  <2>3. plain \in Seq(Entries) /\ Goes(t, pc, events, queue \o plain)
        /\ \A k \in DOMAIN plain :
             PlainEntry(plain[k]) /\ Quiet(plain[k]) /\ (Ends(plain[k]) => t.aborted)
    BY <2>1, <2>2
  <2> HIDE DEF plain
  <2>4. Awaits(0, events) /\ turn' = [t EXCEPT !.pc = pc]
    BY <1>2, <2>3, GoesOn DEF Free0
  <2> QED  BY <2>4
<1> QED  BY <1>1, <1>2 DEF Hand

(* A Turn that changes nothing else moves on.                              *)
Same(t) ==
  /\ turn # None /\ turn \in TurnRecord /\ t \in TurnRecord
  /\ t.id = turn.id /\ t.call = turn.call /\ t.turnOpen = turn.turnOpen
  /\ t.aborted = turn.aborted

LEMMA FailsForm ==
  ASSUME NEW rest, Hand(rest), NEW t, Same(t), Fails(t, rest),
         (turn.turnOpen /\ turn.pc \notin Quitting) \/ MayRefuse,
         pendingDecision' \in {pendingDecision, None}, UNCHANGED <<effects, ids>>
  PROVE  Advances
<1>1. /\ Owes([t EXCEPT !.pc = "failing"], FailEvents(t)) /\ FailEvents(t) \in Seq(Events)
      /\ ClaimsNow([t EXCEPT !.pc = "failing"], FailEvents(t))
  BY OwesFail DEF Same
<1>2. Goes(t, "failing", FailEvents(t), rest) /\ "failing" \in Points /\ t \in TurnRecord
  BY Failing DEF Points, Same
<1>3. (\E d : Awaits(d, FailEvents(t))) /\ turn' = [t EXCEPT !.pc = "failing"]
  BY <1>1, <1>2, GoesAway
<1>4. /\ turn'.pc = "failing" /\ turn'.id = t.id /\ turn'.call = t.call
      /\ turn'.turnOpen = t.turnOpen /\ turn'.aborted = t.aborted
  BY <1>3 DEF Same, TurnRecord
<1> QED  BY <1>3, <1>4 DEF Advances, Same, InCall, Quitting

LEMMA OneForm ==
  ASSUME NEW rest, Hand(rest), NEW t, Same(t), t.turnOpen,
         NEW pc \in {"answering", "completing", "recording", "stopping", "finishing", "continuing"},
         NEW event \in Events, Suits([t EXCEPT !.pc = pc], event), Goes(t, pc, <<event>>, rest),
         turn.pc \notin Quitting,
         pc \in InCall => turn.pc \in InCall /\ t.calls = turn.calls,
         pendingDecision' \in {pendingDecision, None}, UNCHANGED <<effects, ids>>
  PROVE  Advances
<1>1. /\ pc \in Points \ Resting /\ pc # "claiming" /\ pc # "dispatching" /\ pc \notin Quitting
      /\ t \in TurnRecord
  BY DEF Points, Resting, Same, Quitting
<1>2. [t EXCEPT !.pc = pc].pc = pc
  BY <1>1 DEF TurnRecord
<1>3. /\ Owes([t EXCEPT !.pc = pc], <<event>>) /\ <<event>> \in Seq(Events)
      /\ ClaimsNow([t EXCEPT !.pc = pc], <<event>>)
  BY <1>1, <1>2, OwesOne
<1>4. (\E d : Awaits(d, <<event>>)) /\ turn' = [t EXCEPT !.pc = pc]
  BY <1>1, <1>3, GoesAway
<1>5. /\ turn'.pc = pc /\ turn'.id = t.id /\ turn'.call = t.call /\ turn'.calls = t.calls
      /\ turn'.turnOpen = t.turnOpen /\ turn'.aborted = t.aborted
  BY <1>4 DEF Same, TurnRecord
<1> QED  BY <1>4, <1>5 DEF Advances, Same

(* What a Turn that continues holds.                                       *)
LEMMA Resuming ==
  ASSUME Base, NEW pc, TurnResumes(pc)
  PROVE  /\ Hand(Tail(queue)) /\ Same(turn)
         /\ turn.pc = pc /\ pc \notin Resting
         /\ pc \notin Quitting \cup {"claiming"} => turn.turnOpen
         /\ pc \in InCall => turn.calls # <<>>
<1>1. turn # None /\ turn \in TurnRecord /\ turn.pc = pc /\ turn.pc \notin Resting
  BY Continues
<1>2. /\ queue \in Queues /\ queue # <<>> /\ shown' = FALSE /\ UNCHANGED <<log, boots>>
      /\ \A k \in DOMAIN queue : k > 1 => queue[k].then # "turn"
  BY Continues
<1>3. Free1
  BY <1>2 DEF Free1
<1> QED  BY <1>1, <1>3 DEF Hand, Same, Base, Held

LEMMA ClaimedForm ==
  ASSUME Base, Claimed
  PROVE  Claims
<1>1. TurnResumes("claiming") /\ queue' = Tail(queue)
  BY DEF Claimed
<1>2. Slides(1, <<>>)
  BY <1>1, Continues, TailSlides
<1>3. turn # None /\ TurnShown /\ turn.pc = "claiming"
  BY <1>1, Continues
<1> QED  BY <1>2, <1>3 DEF Claimed, Claims, Arrives

LEMMA RequestedForm ==
  ASSUME Base, Requested
  PROVE  Waiting
<1>1. TurnResumes("requesting") /\ queue' = Tail(queue)
  BY DEF Requested
<1>2. Slides(1, <<>>)
  BY <1>1, Continues, TailSlides
<1>3. turn # None /\ TurnShown /\ turn.pc = "requesting"
  BY <1>1, Continues
<1> QED  BY <1>2, <1>3 DEF Requested, Waiting, Arrives

LEMMA TurnEndedForm ==
  ASSUME Base, TurnEnded
  PROVE  Leaves
<1>1. PICK pc \in Quitting : TurnResumes(pc)
  BY DEF TurnEnded, Quitting
<1>2. Slides(1, <<>>)
  BY <1>1, Continues, TailSlides DEF TurnEnded
<1>3. queue # <<>> /\ TurnShown /\ turn # None /\ turn.pc = pc
  BY <1>1, Continues
<1> QED  BY <1>1, <1>2, <1>3 DEF TurnEnded, Leaves, TurnShown

(* The next call, or the end of the Step.                                  *)
LEMMA NextCallForm ==
  ASSUME Base, Hand(Tail(queue)), NEW t, Same(t), t.turnOpen, turn.pc \notin Quitting,
         NextCall(t, Tail(queue)), UNCHANGED <<pendingDecision, effects>>
  PROVE  MakesCall \/ Advances
<1>1. t \in TurnRecord /\ t.id \in Nat /\ ids \in Nat /\ t.calls \in Seq(Kinds)
  BY DEF Same, TurnRecord, Base, TypeOK
<1>2. CASE t.calls # <<>>
  <2> DEFINE u == [t EXCEPT !.call = ids + 1]
             event == About("tool/call", ids + 1, Head(t.calls))
             v == [u EXCEPT !.pc = "calling"]
  <2>1. Goes(u, "calling", <<event>>, Tail(queue)) /\ ids' = ids + 1
    BY <1>2 DEF NextCall
  <2>2. u \in TurnRecord /\ "calling" \in Points /\ ids + 1 \in Nat /\ Head(t.calls) \in Kinds
    BY <1>1, <1>2 DEF TurnRecord, Points
  <2>3. event \in Events
    BY <2>2, EventsHere
  <2>4. v.pc = "calling" /\ v.call = ids + 1 /\ v.calls = t.calls /\ v.id = t.id
        /\ v.turnOpen = t.turnOpen /\ v.aborted = t.aborted
    BY <1>1 DEF TurnRecord
  <2>5. Suits(v, event)
    BY <2>4 DEF Suits, About, Event, TurnTypes
  <2> HIDE DEF event
  <2>6. Owes(v, <<event>>) /\ <<event>> \in Seq(Events) /\ ClaimsNow(v, <<event>>)
    BY <2>3, <2>4, <2>5, OwesOne DEF Resting, Quitting
  <2> HIDE DEF u
  <2>7. (\E d : Awaits(d, <<event>>)) /\ turn' = v
    BY <2>1, <2>2, <2>6, GoesAway
  <2> HIDE DEF v
  <2> QED  BY <1>2, <2>1, <2>4, <2>7 DEF MakesCall, Same
<1>3. CASE t.calls = <<>>
  <2> DEFINE pc == IF t.aborted THEN "stopping" ELSE IF t.final THEN "finishing" ELSE "continuing"
             event == About("step/end", t.id, "")
  <2>1. Goes(t, pc, <<event>>, Tail(queue)) /\ UNCHANGED ids
    BY <1>3 DEF NextCall
  <2>2. event \in Events
    BY <1>1, EventsHere
  <2>3. pc \in {"stopping", "finishing", "continuing"}
    OBVIOUS
  <2>4. Suits([t EXCEPT !.pc = pc], event)
    BY DEF Suits, About, Event, TurnTypes
  <2> HIDE DEF pc, event
  <2>5. pc \notin InCall /\ pendingDecision' = pendingDecision
    BY <2>3 DEF InCall
  <2> QED  BY <2>1, <2>2, <2>3, <2>4, <2>5, OneForm
<1> QED  BY <1>2, <1>3

LEMMA AnsweredForm ==
  ASSUME Base, Answered
  PROVE  MakesCall \/ Advances
<1>1. TurnResumes("answering") /\ NextCall(turn, Tail(queue)) /\ UNCHANGED <<pendingDecision, effects>>
  BY DEF Answered
<1>2. Hand(Tail(queue)) /\ Same(turn) /\ turn.turnOpen /\ turn.pc \notin Quitting
  BY <1>1, Resuming DEF Quitting
<1> QED  BY <1>1, <1>2, NextCallForm

LEMMA RecordedForm ==
  ASSUME Base, Recorded
  PROVE  MakesCall \/ Advances
<1> DEFINE t == [turn EXCEPT !.calls = Tail(@)]
<1>1. PICK pc \in {"completing", "recording"} : TurnResumes(pc)
  BY DEF Recorded
<1>2. NextCall(t, Tail(queue)) /\ UNCHANGED <<pendingDecision, effects>>
  BY DEF Recorded
<1>3. Hand(Tail(queue)) /\ Same(turn) /\ turn.turnOpen /\ turn.pc \notin Quitting
      /\ turn.calls # <<>>
  BY <1>1, Resuming DEF Quitting, InCall
<1>4. Same(t) /\ t.turnOpen
  <2>1. Tail(turn.calls) \in Seq(Kinds)
    BY <1>3 DEF Same, TurnRecord
  <2> QED  BY <1>3, <2>1 DEF Same, TurnRecord
<1> HIDE DEF t
<1> QED  BY <1>2, <1>3, <1>4, NextCallForm

(* A result of the Turn's call.                                            *)
LEMMA ResultForm ==
  ASSUME Base, NEW rest, Hand(rest), Same(turn), turn.turnOpen, turn.pc \in InCall,
         NEW pc \in {"completing", "recording"}, NEW status \in Statuses \cup Verdicts,
         ToolResult(turn, pc, status, rest),
         pendingDecision' \in {pendingDecision, None}, UNCHANGED <<effects, ids>>
  PROVE  Advances
<1> DEFINE event == About("tool/result", turn.call, status)
<1>1. turn.call \in Nat /\ turn.pc \notin Quitting
  BY DEF Same, TurnRecord, InCall, Quitting
<1>2. event \in Events
  BY <1>1, EventsHere
<1>3. Suits([turn EXCEPT !.pc = pc], event)
  BY DEF Suits, About, Event, TurnTypes
<1>4. Goes(turn, pc, <<event>>, rest)
  BY DEF ToolResult
<1> HIDE DEF event
<1> QED  BY <1>1, <1>2, <1>3, <1>4, OneForm

(* The end of a Step.                                                      *)
LEMMA StepForm ==
  ASSUME NEW rest, Hand(rest), NEW t, Same(t), t.turnOpen, turn.pc \notin Quitting,
         NEW pc \in {"claiming", "ending"}, NEW events \in Seq(Events),
         Owes([t EXCEPT !.pc = pc], events), ClaimsNow([t EXCEPT !.pc = pc], events),
         Goes(t, pc, events, rest),
         UNCHANGED <<pendingDecision, effects, ids>>
  PROVE  Advances
<1>1. pc \in Points /\ t \in TurnRecord /\ pc \notin InCall
  BY DEF Points, Same, InCall
<1>2. (\E d : Awaits(d, events)) /\ turn' = [t EXCEPT !.pc = pc]
  BY <1>1, GoesAway
<1>3. /\ turn'.pc = pc /\ turn'.id = t.id /\ turn'.call = t.call
      /\ turn'.turnOpen = t.turnOpen /\ turn'.aborted = t.aborted
  BY <1>2 DEF Same, TurnRecord
<1> QED  BY <1>1, <1>2, <1>3 DEF Advances, Same

LEMMA OwesEnd ==
  ASSUME NEW t \in TurnRecord, NEW what \in {"idle", "completed"}
  PROVE  LET u == [t EXCEPT !.pc = "ending"]
             short == <<About("turn/end", t.id, ""), Status("idle")>>
             long == <<About("turn/end", t.id, ""), Status("completed"), SessionEnded("completed")>>
         IN  /\ Owes(u, short) /\ short \in Seq(Events) /\ ClaimsNow(u, short)
             /\ Owes(u, long) /\ long \in Seq(Events) /\ ClaimsNow(u, long)
<1> DEFINE u == [t EXCEPT !.pc = "ending"]
           w == About("turn/end", t.id, "")
           x == Status("idle")
           y == Status("completed")
           z == SessionEnded("completed")
           S == {e \in Events : Suits(u, e)}
<1>1. t.id \in Nat /\ u.pc = "ending" /\ u.id = t.id
  BY DEF TurnRecord
<1>2. w \in Events /\ x \in Events /\ y \in Events /\ z \in Events
  BY <1>1, EventsHere, SessionEventsHere DEF Statuses
<1>3. Suits(u, w) /\ Suits(u, x) /\ Suits(u, y) /\ Suits(u, z)
  BY <1>1 DEF Suits, About, Event, Status, SessionEnded, TurnTypes, Quitting
<1>4. w \in S /\ x \in S /\ y \in S /\ z \in S /\ S \subseteq Events /\ \A e \in S : Suits(u, e)
  BY <1>2, <1>3
<1>5. u.pc \notin Resting /\ u.pc # "claiming" /\ u.pc # "dispatching"
  BY <1>1 DEF Resting
<1>0. w.type = "turn/end"
  BY DEF About, Event
<1> HIDE DEF S, u, w, x, y, z
<1>6. <<w, x>> \in Seq(S) /\ <<w, y, z>> \in Seq(S)
  BY <1>4
<1>7. /\ 1 \in DOMAIN <<w, x>> /\ <<w, x>>[1].type = "turn/end"
      /\ 1 \in DOMAIN <<w, y, z>> /\ <<w, y, z>>[1].type = "turn/end"
  BY <1>0
<1>8. \A s \in Seq(S) : 1 \in DOMAIN s /\ s[1].type = "turn/end" =>
        s \in Seq(Events) /\ Owes(u, s) /\ ClaimsNow(u, s)
  BY <1>4, <1>5 DEF Owes, ClaimsNow
<1> QED  BY <1>6, <1>7, <1>8 DEF u, w, x, y, z

LEMMA StepEndedForm ==
  ASSUME Base, StepEnded
  PROVE  Advances
<1> DEFINE t == [turn EXCEPT !.stepOpen = FALSE]
           rest == Tail(queue)
<1>1. PICK pc \in {"stopping", "finishing", "continuing"} : TurnResumes(pc)
  BY DEF StepEnded
<1>2. Hand(rest) /\ Same(turn) /\ turn.turnOpen /\ turn.pc \notin Quitting /\ turn.pc = pc
  BY <1>1, Resuming DEF Quitting
<1>3. UNCHANGED <<pendingDecision, effects, ids>>
  BY DEF StepEnded
<1>4. Same(t) /\ t.turnOpen /\ t \in TurnRecord /\ t.step = turn.step /\ t.pc = turn.pc
  BY <1>2 DEF Same, TurnRecord
<1>5. CASE pc = "stopping"
  <2>1. Goes(t, "ending", <<About("turn/end", t.id, ""), Status("idle")>>, rest)
    BY <1>2, <1>5 DEF StepEnded
  <2> HIDE DEF t, rest
  <2> QED  BY <1>2, <1>3, <1>4, <2>1, OwesEnd, StepForm
<1>6. CASE pc = "finishing"
  <2>1. Goes(t, "ending", <<About("turn/end", t.id, ""), Status("completed"),
                            SessionEnded("completed")>>, rest)
    BY <1>2, <1>6 DEF StepEnded
  <2> HIDE DEF t, rest
  <2> QED  BY <1>2, <1>3, <1>4, <2>1, OwesEnd, StepForm
<1>7. CASE pc = "continuing" /\ turn.step + 1 < MaxSteps
  <2> DEFINE u == [t EXCEPT !.step = @ + 1]
             events == StepEvents(t.id, t.step + 1)
             v == [u EXCEPT !.pc = "claiming"]
  <2>1. Goes(u, "claiming", events, rest)
    BY <1>2, <1>7 DEF StepEnded
  <2>2. Same(u) /\ u.turnOpen /\ t.id \in Nat /\ t.step + 1 \in Nat /\ t.step + 1 > 0
        /\ v.pc = "claiming" /\ v.turnOpen /\ v.id = t.id
    <3> HIDE DEF t
    <3>1. t.id \in Nat /\ t.step + 1 \in Nat /\ t.step + 1 > 0
      BY <1>4 DEF TurnRecord
    <3>2. u \in TurnRecord /\ u.id = t.id /\ u.call = t.call /\ u.turnOpen = t.turnOpen
          /\ u.aborted = t.aborted
      BY <1>4, <3>1 DEF TurnRecord
    <3> HIDE DEF u
    <3>3. v.pc = "claiming" /\ v.turnOpen = u.turnOpen /\ v.id = u.id
      BY <3>2 DEF TurnRecord
    <3> QED  BY <1>4, <3>1, <3>2, <3>3 DEF Same
  <2>3. log \in Seq(Events)
    BY DEF Base, TypeOK
  <2>4. events \in Seq(Events) /\ \A j \in DOMAIN events : events[j].type \in Claiming
    BY <2>2, <2>3, StepEventsShape
  <2>7. ClaimsNow(v, events)
    BY <2>2 DEF ClaimsNow
  <2> HIDE DEF events, u, t, rest
  <2>5. \A e : e.type \in Claiming => Suits(v, e)
    BY <2>2 DEF Suits, Claiming, TurnTypes
  <2>6. Owes(v, events)
    BY <2>2, <2>4, <2>5 DEF Owes, Resting, Quitting
  <2> QED  BY <1>2, <1>3, <2>1, <2>2, <2>4, <2>6, <2>7, StepForm
<1>8. CASE pc = "continuing" /\ ~(turn.step + 1 < MaxSteps)
  <2>1. Fails(t, rest)
    BY <1>2, <1>8 DEF StepEnded
  <2> HIDE DEF t, rest
  <2> QED  BY <1>2, <1>3, <1>4, <2>1, FailsForm
<1> QED  BY <1>1, <1>5, <1>6, <1>7, <1>8

(* A dispatch.                                                             *)
LEMMA DispatchForm ==
  ASSUME Hand(Tail(queue)), shown' = FALSE, shown, Same(turn), Dispatch(turn, Tail(queue)),
         \/ /\ TurnShown /\ turn.pc = "calling"
            /\ Head(turn.calls) = "command" => PermissionMode # "requestApproval"
         \/ /\ Waits(turn)
            /\ queue[1].then = "approved" /\ queue[1].events[1].id = turn.call,
         UNCHANGED <<pendingDecision, effects, ids>>
  PROVE  Dispatching
<1> DEFINE event == About("tool/execution", turn.call, "dispatched")
           u == [turn EXCEPT !.pc = "dispatching"]
<1>1. turn.call \in Nat /\ turn \in TurnRecord /\ turn # None
      /\ u.pc = "dispatching" /\ u.call = turn.call /\ "dispatching" \in Points
  BY DEF Same, TurnRecord, Points
<1>2. event \in Events /\ event.type = "tool/execution"
  BY <1>1, EventsHere DEF About, Event
<1>3. Suits(u, event)
  BY <1>1 DEF Suits, About, Event, TurnTypes
<1>4. Goes(turn, "dispatching", <<event>>, Tail(queue))
  BY DEF Dispatch
<1>5. /\ queue \in Queues /\ queue # <<>> /\ UNCHANGED <<log, boots>>
      /\ \A k \in DOMAIN queue : k > 1 => queue[k].then # "turn"
  BY DEF Hand, Free0, Free1
<1> HIDE DEF event
<1>6. Owes(u, <<event>>) /\ <<event>> \in Seq(Events) /\ ClaimsNow(u, <<event>>)
  BY <1>1, <1>2, <1>3, OwesOne DEF Resting, Quitting
<1>7. Awaits(1, <<event>>) /\ turn' = u
  BY <1>1, <1>4, <1>5, <1>6, GoesOff
<1> QED  BY <1>1, <1>7 DEF Dispatching

LEMMA RequestForm ==
  ASSUME Base, TurnResumes("calling"), NEW event \in Events,
         Goes(turn, "requesting", <<event>>, Tail(queue)),
         Suits([turn EXCEPT !.pc = "requesting"], event),
         UNCHANGED <<pendingDecision, effects, ids>>
  PROVE  Requests
<1> DEFINE u == [turn EXCEPT !.pc = "requesting"]
<1>1. /\ turn # None /\ turn \in TurnRecord /\ turn.pc = "calling" /\ TurnShown
      /\ queue \in Queues /\ queue # <<>> /\ shown' = FALSE /\ UNCHANGED <<log, boots>>
      /\ \A k \in DOMAIN queue : k > 1 => queue[k].then # "turn"
  BY Continues
<1>2. u.pc = "requesting" /\ "requesting" \in Points
  BY <1>1 DEF TurnRecord, Points
<1>3. Owes(u, <<event>>) /\ <<event>> \in Seq(Events) /\ ClaimsNow(u, <<event>>)
  BY <1>2, OwesOne DEF Resting, Quitting
<1>4. Awaits(1, <<event>>) /\ turn' = u
  BY <1>1, <1>2, <1>3, GoesOff
<1> QED  BY <1>1, <1>4 DEF Requests

LEMMA CalledForm ==
  ASSUME Base, Called
  PROVE  Requests \/ Dispatching \/ Advances
<1> DEFINE kind == Head(turn.calls)
           rest == Tail(queue)
<1>1. TurnResumes("calling") /\ UNCHANGED <<pendingDecision, effects, ids>>
  BY DEF Called
<1>2. /\ Hand(rest) /\ Same(turn) /\ turn.turnOpen /\ turn.pc = "calling"
      /\ turn.pc \in InCall /\ turn.pc \notin Quitting
  BY <1>1, Resuming DEF Quitting, InCall
<1>3. turn.call \in Nat /\ shown /\ shown' = FALSE /\ TurnShown
  BY <1>1, <1>2, Continues DEF Same, TurnRecord, TurnShown
<1>4. CASE kind = "malformed" /\ Fails(turn, rest)
  BY <1>1, <1>2, <1>4, FailsForm
<1>5. CASE kind = "denied" /\ ToolResult(turn, "recording", "rejected", rest)
  <2>1. "rejected" \in Statuses \cup Verdicts
    BY DEF Verdicts
  <2> QED  BY <1>1, <1>2, <1>5, <2>1, ResultForm
<1>6. CASE kind = "question" /\ Goes(turn, "requesting", <<About("question/requested", turn.call, "")>>, rest)
  <2> DEFINE event == About("question/requested", turn.call, "")
  <2>1. event \in Events
    BY <1>3, EventsHere
  <2>2. Suits([turn EXCEPT !.pc = "requesting"], event)
    BY DEF Suits, About, Event, TurnTypes
  <2> HIDE DEF event
  <2> QED  BY <1>1, <1>6, <2>1, <2>2, RequestForm DEF event
<1>7. CASE \/ kind = "list" /\ Dispatch(turn, rest)
           \/ kind = "command" /\ PermissionMode # "requestApproval" /\ Dispatch(turn, rest)
  <2>1. TurnShown /\ turn.pc = "calling"
        /\ (Head(turn.calls) = "command" => PermissionMode # "requestApproval")
    BY <1>2, <1>3, <1>7
  <2> QED  BY <1>1, <1>2, <1>3, <1>7, <2>1, DispatchForm
<1>8. CASE /\ kind = "command" /\ PermissionMode = "requestApproval"
           /\ Goes(turn, "requesting", <<About("tool/approval", turn.call, "requested")>>, rest)
  <2> DEFINE event == About("tool/approval", turn.call, "requested")
             u == [turn EXCEPT !.pc = "requesting"]
  <2>1. event \in Events
    BY <1>3, EventsHere
  <2>2. u.pc = "requesting" /\ u.call = turn.call
    BY <1>2 DEF Same, TurnRecord
  <2>3. Suits(u, event)
    BY <2>2 DEF Suits, About, Event, TurnTypes
  <2> HIDE DEF event
  <2> QED  BY <1>1, <1>8, <2>1, <2>3, RequestForm DEF event
<1> QED  BY <1>4, <1>5, <1>6, <1>7, <1>8 DEF Called

(* A Turn that rests and goes on of itself.                                *)
LEMMA Rested ==
  ASSUME Base, turn # None, turn.pc \in Resting, UNCHANGED <<shown, log, boots>>
  PROVE  /\ Hand(queue) /\ Same(turn) /\ turn.turnOpen /\ turn.pc \notin Quitting
         /\ Free0
<1>1. turn \in TurnRecord /\ queue \in Queues /\ shown \in BOOLEAN
  BY DEF Base, TypeOK, Queues
<1>2. \A k \in DOMAIN queue : queue[k].then # "turn"
  BY <1>1, TurnFree DEF Base
<1>3. Free0
  BY <1>1, <1>2 DEF Free0
<1> QED  BY <1>1, <1>3 DEF Hand, Same, Base, Held, Resting, Quitting

LEMMA RespondForm ==
  ASSUME Base, Respond
  PROVE  Advances
<1>0. PICK n \in 0..MaxCalls : \E calls \in [1..n -> CallKinds] :
        Goes([turn EXCEPT !.calls = calls, !.final = n = 0], "answering",
             <<About("assistant/message", turn.id, "")>>, queue)
  BY DEF Respond
<1>1. PICK calls \in [1..n -> CallKinds] :
        Goes([turn EXCEPT !.calls = calls, !.final = n = 0], "answering",
             <<About("assistant/message", turn.id, "")>>, queue)
  BY <1>0
<1> DEFINE t == [turn EXCEPT !.calls = calls, !.final = n = 0]
           event == About("assistant/message", turn.id, "")
<1>2. turn # None /\ turn.pc = "asking" /\ UNCHANGED <<log, shown, pendingDecision, effects, ids, boots>>
  BY DEF Respond
<1>3. Hand(queue) /\ Same(turn) /\ turn.turnOpen /\ turn.pc \notin Quitting
  BY <1>2, Rested DEF Resting
<1>4. calls \in Seq(Kinds)
  BY RuntimeAssumption
<1>5. Same(t) /\ t.turnOpen /\ turn.id \in Nat
  BY <1>3, <1>4 DEF Same, TurnRecord
<1>6. event \in Events
  BY <1>5, EventsHere
<1>7. Suits([t EXCEPT !.pc = "answering"], event)
  BY DEF Suits, About, Event, TurnTypes
<1>8. "answering" \notin InCall /\ Goes(t, "answering", <<event>>, queue)
  BY <1>1 DEF InCall
<1> HIDE DEF t, event
<1> QED  BY <1>2, <1>3, <1>5, <1>6, <1>7, <1>8, OneForm

LEMMA ModelFailsForm ==
  ASSUME Base, ModelFails
  PROVE  Advances
<1>1. turn # None /\ turn.pc = "asking" /\ UNCHANGED <<log, shown, pendingDecision, effects, ids, boots>>
      /\ Fails(turn, queue)
  BY DEF ModelFails
<1>2. Hand(queue) /\ Same(turn) /\ turn.turnOpen /\ turn.pc \notin Quitting
  BY <1>1, Rested DEF Resting
<1> QED  BY <1>1, <1>2, FailsForm

LEMMA ToolEndsForm ==
  ASSUME Base, ToolEnds
  PROVE  Advances
<1>1. turn # None /\ turn.pc = "executing" /\ UNCHANGED <<log, shown, pendingDecision, effects, ids, boots>>
  BY DEF ToolEnds
<1>2. Hand(queue) /\ Same(turn) /\ turn.turnOpen /\ turn.pc \in InCall
  BY <1>1, Rested DEF Resting, InCall
<1>3. PICK pc \in {"completing", "recording"}, status \in {"completed", "cancelled", "failed"} :
        ToolResult(turn, pc, status, queue)
  BY DEF ToolEnds
<1>4. status \in Statuses \cup Verdicts
  BY DEF Statuses
<1> QED  BY <1>1, <1>2, <1>3, <1>4, ResultForm

LEMMA DispatchedForm ==
  ASSUME Base, Dispatched
  PROVE  Executes \/ Advances
<1>1. TurnResumes("dispatching") /\ UNCHANGED <<pendingDecision, ids>>
  BY DEF Dispatched
<1>2. /\ Hand(Tail(queue)) /\ Same(turn) /\ turn.turnOpen /\ turn.pc = "dispatching"
      /\ turn.pc \in InCall
  BY <1>1, Resuming DEF Quitting, InCall
<1>3. CASE turn.aborted
  <2>1. ToolResult(turn, "recording", "cancelled", Tail(queue)) /\ UNCHANGED effects
    BY <1>3 DEF Dispatched
  <2>2. "cancelled" \in Statuses \cup Verdicts
    BY DEF Statuses
  <2> QED  BY <1>1, <1>2, <2>1, <2>2, ResultForm
<1>4. CASE ~turn.aborted
  <2>1. /\ turn' = [turn EXCEPT !.pc = "executing"] /\ queue' = Tail(queue)
        /\ effects' = Append(effects, turn.call)
    BY <1>4 DEF Dispatched
  <2>2. Slides(1, <<>>)
    BY <1>1, <2>1, Continues, TailSlides
  <2>3. TurnShown /\ turn # None
    BY <1>1, Continues
  <2> QED  BY <1>1, <1>2, <1>4, <2>1, <2>2, <2>3 DEF Executes, Arrives
<1> QED  BY <1>3, <1>4

(* Every step of the Turn.                                                 *)
LEMMA TurnStepForm ==
  ASSUME Base, TurnStep
  PROVE  TurnForm
BY ClaimedForm, RespondForm, ModelFailsForm, AnsweredForm, CalledForm, RequestedForm,
   DispatchedForm, ToolEndsForm, RecordedForm, StepEndedForm, TurnEndedForm
   DEF TurnStep, TurnForm

(* The commands.                                                           *)
Plain(entries) ==
  entries \in Seq(Entries) /\ \A k \in DOMAIN entries : PlainEntry(entries[k]) /\ Quiet(entries[k])

LEMMA PlainOne ==
  ASSUME NEW events \in Seq(Events), NEW then \in Replies,
         \A j \in DOMAIN events : events[j].type \in PlainTypes
  PROVE  /\ Quiet(Entry(events, then)) => Plain(<<Entry(events, then)>>)
         /\ Entry(events, then) \in Entries /\ PlainEntry(Entry(events, then))
         /\ Quiet(Entry(events, then)) <=> \A j \in DOMAIN events : ~IsEnqueue(events[j])
         /\ Ends(Entry(events, then)) <=> \E j \in DOMAIN events : events[j].type = "session/ended"
<1> DEFINE entry == Entry(events, then)
<1>1. entry \in Entries
  BY EntryType
<1>2. entry.then = then /\ entry.events = events
  BY DEF Entry
<1> HIDE DEF entry
<1>3. PlainEntry(entry)
  BY <1>2 DEF PlainEntry
<1>4. Quiet(entry) => Plain(<<entry>>)
  BY <1>1, <1>3 DEF Plain
<1> QED  BY <1>1, <1>2, <1>3, <1>4 DEF Ends, Quiet, entry

(* A command appends an entry.                                             *)
LEMMA ServesOne ==
  ASSUME Base, NEW events \in Seq(Events), NEW then \in Replies,
         \A j \in DOMAIN events : events[j].type \in PlainTypes,
         \/ turn = None
         \/ \A j \in DOMAIN events : events[j].type # "session/ended",
         \/ \A j \in DOMAIN events : ~IsEnqueue(events[j])
         \/ \E m \in Messages, lane \in Lanes : Enqueue(m, lane),
         Appends(events, then), UNCHANGED <<turn, pendingDecision, effects, ids>>
  PROVE  Serves
<1> DEFINE entry == Entry(events, then)
           new == <<entry>>
<1>1. /\ entry \in Entries /\ PlainEntry(entry) /\ (Ends(entry) => turn = None)
      /\ Quiet(entry) \/ \E m \in Messages, lane \in Lanes : Enqueue(m, lane)
  BY PlainOne
<1>2. queue \in Queues /\ shown \in BOOLEAN
  BY DEF Base, TypeOK, Queues
<1>3. queue' = Append(queue, entry) /\ UNCHANGED <<log, shown, boots>>
  BY DEF Appends
<1> HIDE DEF entry
<1>4. queue' = queue \o new /\ new \in Seq(Entries)
  BY <1>1, <1>2, <1>3, AppendIs
<1>5. Len(new) = 1 /\ new[1] = entry /\ DOMAIN new = {1}
  OBVIOUS
<1> HIDE DEF new
<1>6. Slides(0, new)
  BY <1>2, <1>3, <1>4, SlidesOn
<1>7. /\ \A k \in DOMAIN new :
           PlainEntry(new[k]) /\ (Ends(new[k]) => turn' = None \/ turn'.aborted)
      /\ \/ \A k \in DOMAIN new : Quiet(new[k])
         \/ \E m \in Messages, lane \in Lanes : Enqueue(m, lane)
  BY <1>1, <1>5
<1> QED  BY <1>6, <1>7 DEF Serves

(* The end of a command's append.                                          *)
LEMMA ServesEnd ==
  ASSUME Base, queue # <<>>, Head(queue).then # "turn", queue' = Tail(queue), shown' = FALSE,
         UNCHANGED <<log, boots, turn, pendingDecision, effects, ids>>
  PROVE  Serves
<1>1. queue \in Queues /\ queue[1].then # "turn"
  BY DEF Base, TypeOK, Queues
<1>2. Slides(1, <<>>)
  BY <1>1, TailSlides
<1> DEFINE new == <<>>
<1>3. Slides(1, new) /\ DOMAIN new = {}
  BY <1>2
<1> HIDE DEF new
<1> QED  BY <1>1, <1>3 DEF Serves

(* A command that appends nothing.                                         *)
LEMMA ServesNothing ==
  ASSUME Base, UNCHANGED <<log, boots, queue, shown, turn, pendingDecision, effects, ids>>
  PROVE  Serves
<1>1. queue \in Queues /\ shown \in BOOLEAN
  BY DEF Base, TypeOK, Queues
<1> DEFINE new == <<>>
<1>2. queue' = queue \o new /\ new \in Seq(Entries) /\ DOMAIN new = {}
  BY <1>1 DEF Queues
<1> HIDE DEF new
<1>3. Slides(0, new)
  BY <1>1, <1>2, SlidesOn
<1> QED  BY <1>2, <1>3 DEF Serves

(* What continues after a command's append.                                *)
LEMMA Hears ==
  ASSUME Base, NEW then, Resumes(then)
  PROVE  /\ queue \in Queues /\ queue # <<>> /\ shown /\ shown' = FALSE
         /\ Head(queue).then = then /\ queue[1].then = then /\ 1 \in DOMAIN queue
         /\ UNCHANGED <<log, boots>>
         /\ UNCHANGED <<archived, starting, requests>>
<1>1. queue \in Queues
  BY DEF Base, TypeOK, Queues
<1> QED  BY <1>1 DEF Resumes, clientVars, Queues

LEMMA RunTurnForm ==
  ASSUME Base, NEW then, Resumes(then), then # "turn", RunTurn(Tail(queue)),
         UNCHANGED <<pendingDecision, effects>>
  PROVE  Serves \/ Begins
<1>1. /\ queue \in Queues /\ queue # <<>> /\ shown' = FALSE
      /\ Head(queue).then = then /\ UNCHANGED <<log, boots>>
  BY Hears
<1>2. CASE turn # None
  <2>1. queue' = Tail(queue) /\ UNCHANGED <<turn, ids>>
    BY <1>2 DEF RunTurn
  <2> QED  BY <1>1, <2>1, ServesEnd
<1>3. CASE turn = None
  <2> DEFINE t == NewTurn(ids + 1)
             events == StepEvents(ids + 1, 0)
             u == [t EXCEPT !.pc = "claiming"]
  <2>1. Goes(t, "claiming", events, Tail(queue)) /\ ids' = ids + 1
    BY <1>3 DEF RunTurn
  <2>2. ids + 1 \in Nat /\ log \in Seq(Events) /\ 0 \in Nat
    BY DEF Base, TypeOK
  <2>3. t \in TurnRecord /\ "claiming" \in Points
    BY <2>2 DEF NewTurn, TurnRecord, Points
  <2>4. u = t /\ u.pc = "claiming" /\ ~u.turnOpen /\ u.id = ids + 1
    <3>1. t.pc = "claiming" /\ ~t.turnOpen /\ t.id = ids + 1
      BY DEF NewTurn
    <3> HIDE DEF t
    <3>2. [t EXCEPT !.pc = t.pc] = t
      BY <2>3 DEF TurnRecord
    <3> QED  BY <3>1, <3>2
  <2>5. /\ events \in Seq(Events)
        /\ \A j \in DOMAIN events : events[j].type \in Claiming \cup {"turn/start"}
        /\ Len(events) > 0 /\ events[1].type = "turn/start" /\ events[1].id = ids + 1
        /\ \A j \in DOMAIN events : events[j].type = "turn/start" => j = 1
    BY <2>2, StepEventsShape
  <2>10. ClaimsNow(u, events)
    BY <2>2, <2>4 DEF ClaimsNow
  <2> HIDE DEF t, events, u
  <2>6. \A e : /\ e.type \in Claiming \cup {"turn/start"}
               /\ e.type = "turn/start" => e.id = ids + 1
               => Suits(u, e)
    BY <2>4 DEF Suits, Claiming, TurnTypes
  <2>7. Owes(u, events)
    <3>1. \A j \in DOMAIN events : Suits(u, events[j])
      BY <2>5, <2>6
    <3> QED  BY <2>4, <2>5, <3>1 DEF Owes, Resting, Quitting
  <2>8. Hand(Tail(queue))
    <3>1. \A k \in DOMAIN queue : queue[k].then # "turn"
      BY <1>1, <1>3, TurnFree DEF Base
    <3> QED  BY <1>1, <3>1 DEF Hand, Free1
  <2>9. (\E d : Awaits(d, events)) /\ turn' = t
    BY <2>1, <2>3, <2>4, <2>5, <2>7, <2>8, <2>10, GoesAway DEF u
  <2> QED  BY <1>3, <2>1, <2>9 DEF Begins, t
<1> QED  BY <1>2, <1>3

(* The abort.                                                              *)
LEMMA AbortedResult ==
  ASSUME Base, NEW entries, Plain(entries), turn # None, turn.pc \in {"waiting", "deaf"},
         NEW t \in TurnRecord, t.aborted, t.id = turn.id, t.call = turn.call,
         t.calls = turn.calls, t.turnOpen = turn.turnOpen,
         ToolResult(t, "recording", "rejected", queue \o entries),
         UNCHANGED <<log, boots, shown, effects, ids>>, pendingDecision' = None
  PROVE  Advances
<1> DEFINE event == About("tool/result", t.call, "rejected")
           u == [t EXCEPT !.pc = "recording"]
<1>1. Free0 /\ turn.turnOpen
  BY Rested DEF Resting
<1>2. /\ t.call \in Nat /\ u.pc = "recording" /\ u.id = t.id /\ u.call = t.call /\ u.calls = t.calls
      /\ u.turnOpen = t.turnOpen /\ u.aborted = t.aborted
  BY DEF TurnRecord
<1>3. event \in Events
  <2>1. "rejected" \in Statuses \cup Verdicts
    BY DEF Verdicts
  <2> QED  BY <1>2, <2>1, EventsHere
<1>4. Suits(u, event)
  BY DEF Suits, About, Event, TurnTypes
<1>5. Goes(t, "recording", <<event>>, queue \o entries) /\ "recording" \in Points
  BY DEF ToolResult, Points
<1> HIDE DEF event
<1>6. Owes(u, <<event>>) /\ <<event>> \in Seq(Events) /\ ClaimsNow(u, <<event>>)
  BY <1>2, <1>3, <1>4, OwesOne DEF Resting, Quitting
<1>7. /\ entries \in Seq(Entries)
      /\ \A k \in DOMAIN entries :
           PlainEntry(entries[k]) /\ Quiet(entries[k]) /\ (Ends(entries[k]) => t.aborted)
  BY DEF Plain
<1>8. Awaits(0, <<event>>) /\ turn' = u
  <2>1. queue \in Queues /\ shown \in BOOLEAN /\ \A k \in DOMAIN queue : queue[k].then # "turn"
    BY <1>1 DEF Free0
  <2> HIDE DEF u
  <2> QED  BY <1>5, <1>6, <1>7, <2>1, GoesOn DEF u
<1> HIDE DEF u
<1> QED  BY <1>1, <1>2, <1>8 DEF Advances, InCall, Quitting

LEMMA PlainBoth ==
  ASSUME NEW a, NEW b, Plain(a), Plain(b)
  PROVE  Plain(a \o b)
<1> DEFINE S == {e \in Entries : PlainEntry(e) /\ Quiet(e)}
<1>1. \A s : Plain(s) <=> s \in Seq(S)
  <2>1. ASSUME NEW s, Plain(s) PROVE s \in Seq(S)
    <3>1. s \in Seq(Entries) /\ \A k \in 1..Len(s) : s[k] \in S
      BY <2>1 DEF Plain
    <3> HIDE DEF S
    <3> QED  BY <3>1
  <2>2. ASSUME NEW s \in Seq(S) PROVE Plain(s)
    BY DEF Plain
  <2> QED  BY <2>1, <2>2
<1> HIDE DEF S
<1>2. a \in Seq(S) /\ b \in Seq(S)
  BY <1>1
<1>3. a \o b \in Seq(S)
  BY <1>2, ConcatProperties
<1> QED  BY <1>1, <1>3

LEMMA AbortForm ==
  ASSUME Base, NEW entries, Plain(entries), Abort(entries),
         UNCHANGED <<log, boots, shown, effects, ids>>
  PROVE  Serves \/ Advances
<1> DEFINE t == [turn EXCEPT !.aborted = TRUE]
<1>1. queue \in Queues /\ shown \in BOOLEAN /\ entries \in Seq(Entries)
  BY DEF Base, TypeOK, Queues, Plain
<1>2. ASSUME NEW new, Plain(new), queue' = queue \o new, UNCHANGED pendingDecision,
             \/ turn' = turn /\ (turn = None \/ turn.aborted)
             \/ turn # None /\ turn' = t /\ turn'.aborted
      PROVE  Serves
  <2>1. Slides(0, new)
    BY <1>1, <1>2, SlidesOn DEF Plain
  <2>2. \A k \in DOMAIN new :
          PlainEntry(new[k]) /\ Quiet(new[k]) /\ (Ends(new[k]) => turn' = None \/ turn'.aborted)
    BY <1>2 DEF Plain
  <2> QED  BY <1>2, <2>1, <2>2 DEF Serves
<1>3. CASE turn = None \/ turn.aborted
  BY <1>2, <1>3 DEF Abort
<1>4. CASE turn # None /\ ~turn.aborted
  <2>1. turn \in TurnRecord
    BY <1>4 DEF Base, TypeOK
  <2>2. t \in TurnRecord /\ t.aborted /\ t.id = turn.id /\ t.call = turn.call
        /\ t.calls = turn.calls /\ t.turnOpen = turn.turnOpen
    BY <2>1 DEF TurnRecord
  <2>3. CASE turn.pc # "waiting"
    <3>1. queue' = queue \o entries /\ turn' = t /\ UNCHANGED pendingDecision
      BY <1>4, <2>3 DEF Abort
    <3> HIDE DEF t
    <3> QED  BY <1>2, <1>4, <2>2, <3>1
  <2>4. CASE turn.pc = "waiting" /\ Head(turn.calls) = "question"
    <3> DEFINE events == <<About("question/cancelled", t.call, "")>>
               entry == Entry(events, "questionCancelled")
               new == <<entry>> \o entries
    <3>1. /\ turn' = t /\ UNCHANGED pendingDecision
          /\ queue' = Append(queue, entry) \o entries
      BY <1>4, <2>4 DEF Abort
    <3>2. Plain(<<entry>>) /\ entry \in Entries
      <4>1. t.call \in Nat
        BY <2>2 DEF TurnRecord
      <4>2. About("question/cancelled", t.call, "") \in Events
        BY <4>1, EventsHere
      <4>3. /\ About("question/cancelled", t.call, "").type \in PlainTypes
            /\ ~IsEnqueue(About("question/cancelled", t.call, ""))
        BY DEF About, Event, PlainTypes, CommandTypes, IsEnqueue
      <4> DEFINE event == About("question/cancelled", t.call, "")
      <4>4. /\ events \in Seq(Events)
            /\ \A j \in DOMAIN events : events[j].type \in PlainTypes /\ ~IsEnqueue(events[j])
        <5>1. /\ events = <<event>> /\ event \in Events
              /\ event.type \in PlainTypes /\ ~IsEnqueue(event)
          BY <4>2, <4>3
        <5> HIDE DEF events, event
        <5> QED  BY <5>1
      <4>5. "questionCancelled" \in Replies
        BY DEF Replies
      <4> HIDE DEF events
      <4> QED  BY <4>4, <4>5, PlainOne
    <3> HIDE DEF entry, t
    <3>3. Plain(new)
      <4> HIDE DEF entry
      <4> QED  BY <3>2, PlainBoth
    <3>4. queue' = queue \o new
      <4>1. Append(queue, entry) = queue \o <<entry>> /\ <<entry>> \in Seq(Entries)
        BY <1>1, <3>2, AppendIs
      <4>2. (queue \o <<entry>>) \o entries = queue \o (<<entry>> \o entries)
        BY <1>1, <4>1, ConcatAssociative DEF Queues
      <4> QED  BY <3>1, <4>1, <4>2
    <3> HIDE DEF new
    <3>5. turn # None /\ turn' = t /\ turn'.aborted
      BY <1>4, <2>2, <3>1
    <3> QED  BY <1>2, <3>1, <3>3, <3>4, <3>5
  <2>5. CASE turn.pc = "waiting" /\ Head(turn.calls) # "question"
    <3>1. ToolResult(t, "recording", "rejected", queue \o entries) /\ pendingDecision' = None
      BY <1>4, <2>5 DEF Abort
    <3> HIDE DEF t
    <3> QED  BY <1>4, <2>2, <2>5, <3>1, AbortedResult
  <2> QED  BY <2>3, <2>4, <2>5
<1> QED  BY <1>3, <1>4

LEMMA InterruptForm ==
  ASSUME Base, Interrupt
  PROVE  Serves \/ Advances
<1> DEFINE event == Status("idle")
           events == <<event>>
<1>1. event \in Events /\ event.type = "agent/status" /\ "idle" \in Statuses
  BY SessionEventsHere DEF Statuses
<1> HIDE DEF event
<1>2. /\ events \in Seq(Events)
      /\ \A j \in DOMAIN events : events[j].type \in PlainTypes /\ ~IsEnqueue(events[j])
  BY <1>1 DEF PlainTypes, CommandTypes, IsEnqueue
<1>3. Abort(<<Entry(events, "none")>>) /\ UNCHANGED <<log, boots, shown, effects, ids>>
  BY DEF Interrupt, event
<1> HIDE DEF events
<1>4. Plain(<<Entry(events, "none")>>)
  BY <1>2, PlainOne DEF Replies
<1> QED  BY <1>3, <1>4, AbortForm

LEMMA PlainCancel ==
  Plain(CancelEntries)
<1> DEFINE one == Status("cancelled")
           two == SessionEnded("cancelled")
           events == <<one, two>>
           entry == Entry(events, "none")
<1>1. one \in Events /\ one.type = "agent/status" /\ two \in Events /\ two.type = "session/ended"
  BY SessionEventsHere DEF Statuses
<1>2. CancelEntries = IF Ended /\ SessionStatus = "cancelled" THEN <<>> ELSE <<entry>>
  BY DEF CancelEntries
<1> HIDE DEF one, two
<1>3. /\ events \in Seq(Events)
      /\ \A j \in DOMAIN events : events[j].type \in PlainTypes /\ ~IsEnqueue(events[j])
  BY <1>1 DEF PlainTypes, CommandTypes, IsEnqueue
<1> HIDE DEF events
<1>4. Plain(<<entry>>)
  BY <1>3, PlainOne DEF Replies
<1>5. Plain(<<>>)
  BY DEF Plain
<1> HIDE DEF entry
<1> QED  BY <1>2, <1>4, <1>5

LEMMA CancelForm ==
  ASSUME Base, Cancel
  PROVE  Serves \/ Advances
<1>1. UNCHANGED <<log, boots, shown, effects, ids>> /\ Plain(CancelEntries)
  BY PlainCancel DEF Cancel
<1>2. CASE turn # None /\ turn.pc = "deaf" /\ pendingDecision # None
  <2>1. ToolResult(turn, "recording", "rejected", queue \o CancelEntries) /\ pendingDecision' = None
    BY <1>2 DEF Cancel
  <2>2. turn.aborted /\ turn \in TurnRecord
    BY <1>2 DEF Base, TypeOK, Held
  <2> QED  BY <1>1, <1>2, <2>1, <2>2, AbortedResult
<1>3. CASE ~(turn # None /\ turn.pc = "deaf" /\ pendingDecision # None)
  <2>1. Abort(CancelEntries)
    BY <1>3 DEF Cancel
  <2> QED  BY <1>1, <2>1, AbortForm
<1> QED  BY <1>2, <1>3

(* Decisions and answers.                                                  *)
LEMMA DecideForm ==
  ASSUME Base, NEW status \in Verdicts, Decide(status)
  PROVE  Decides
<1> DEFINE events == <<About("tool/approval", pendingDecision, status)>>
           entry == Entry(events, status)
<1>1. pendingDecision \in Nat /\ queue \in Queues /\ shown \in BOOLEAN
  BY DEF Decide, Base, TypeOK, Queues
<1>2. About("tool/approval", pendingDecision, status) \in Events
  BY <1>1, EventsHere
<1>3. events \in Seq(Events)
  BY <1>2
<1>4. queue' = Append(queue, entry) /\ UNCHANGED <<shown, log, boots>>
  BY DEF Decide, Appends
<1> HIDE DEF events
<1>5. entry \in Entries
  BY <1>3, EntryType
<1> HIDE DEF entry
<1>6. queue' = queue \o <<entry>> /\ <<entry>> \in Seq(Entries)
  BY <1>1, <1>4, <1>5, AppendIs
<1>7. Slides(0, <<entry>>)
  BY <1>1, <1>4, <1>6, SlidesOn
<1>8. pendingDecision # None /\ pendingDecision' = None /\ UNCHANGED <<turn, effects, ids>>
  BY DEF Decide
<1> QED  BY <1>7, <1>8 DEF Decides, entry, events

LEMMA WaitingHand ==
  ASSUME Base, NEW then, Resumes(then), Waits(turn)
  PROVE  Hand(Tail(queue)) /\ Same(turn) /\ turn.turnOpen /\ turn.pc \in InCall
<1>1. /\ queue \in Queues /\ queue # <<>> /\ shown' = FALSE /\ UNCHANGED <<log, boots>>
  BY Hears
<1>2. turn # None /\ turn.pc \in {"waiting", "deaf"}
  BY DEF Waits
<1>3. \A k \in DOMAIN queue : queue[k].then # "turn"
  BY <1>1, <1>2, TurnFree DEF Base, Resting
<1>4. Free1
  BY <1>1, <1>3 DEF Free1
<1>5. turn \in TurnRecord /\ turn.turnOpen /\ turn.pc \in InCall
  BY <1>2 DEF Base, TypeOK, Held, Quitting, InCall
<1> QED  BY <1>2, <1>4, <1>5 DEF Hand, Same

LEMMA DecidedForm ==
  ASSUME Base, NEW status \in Verdicts, Decided(status)
  PROVE  Serves \/ Dispatching \/ Advances
<1>1. Resumes(status) /\ UNCHANGED <<pendingDecision, effects, ids>>
  BY DEF Decided
<1>2. /\ queue \in Queues /\ queue # <<>> /\ shown /\ shown' = FALSE
      /\ Head(queue).then = status /\ queue[1].then = status /\ UNCHANGED <<log, boots>>
  BY <1>1, Hears
<1>3. Head(queue) = queue[1]
  BY <1>2 DEF Queues
<1>4. CASE Waits(turn) /\ turn.call = Head(queue).events[1].id
  <2>1. Hand(Tail(queue)) /\ Same(turn) /\ turn.turnOpen /\ turn.pc \in InCall
    BY <1>1, <1>4, WaitingHand
  <2>2. CASE status = "approved"
    <3>1. Dispatch(turn, Tail(queue))
      BY <1>4, <2>2 DEF Decided
    <3>2. Waits(turn) /\ queue[1].then = "approved" /\ queue[1].events[1].id = turn.call
      BY <1>2, <1>3, <1>4, <2>2
    <3> QED  BY <1>1, <1>2, <2>1, <3>1, <3>2, DispatchForm
  <2>3. CASE status # "approved"
    <3>1. ToolResult(turn, "recording", "rejected", Tail(queue))
      BY <1>4, <2>3 DEF Decided
    <3>2. "rejected" \in Statuses \cup Verdicts
      BY DEF Verdicts
    <3> QED  BY <1>1, <2>1, <3>1, <3>2, ResultForm
  <2> QED  BY <2>2, <2>3
<1>5. CASE ~(Waits(turn) /\ turn.call = Head(queue).events[1].id)
  <2>1. queue' = Tail(queue) /\ UNCHANGED turn
    BY <1>5 DEF Decided
  <2>2. Head(queue).then # "turn"
    BY <1>2 DEF Verdicts
  <2> QED  BY <1>1, <1>2, <2>1, <2>2, ServesEnd
<1> QED  BY <1>4, <1>5

LEMMA QuestionSettledForm ==
  ASSUME Base, QuestionSettled
  PROVE  Serves \/ Advances
<1>1. PICK then \in {"answer", "questionCancelled"} : Resumes(then)
  BY DEF QuestionSettled
<1>2. UNCHANGED <<pendingDecision, effects, ids>>
  BY DEF QuestionSettled
<1>3. /\ queue # <<>> /\ shown' = FALSE /\ Head(queue).then # "turn" /\ UNCHANGED <<log, boots>>
  BY <1>1, Hears
<1>4. CASE Waits(turn) /\ turn.call = Head(queue).events[1].id
  <2>1. Hand(Tail(queue)) /\ Same(turn) /\ turn.turnOpen /\ turn.pc \in InCall
    BY <1>1, <1>4, WaitingHand
  <2>2. PICK status \in {"completed", "cancelled"} :
          ToolResult(turn, "recording", status, Tail(queue))
    BY <1>4 DEF QuestionSettled
  <2>3. status \in Statuses \cup Verdicts
    BY DEF Statuses
  <2> QED  BY <1>2, <2>1, <2>2, <2>3, ResultForm
<1>5. CASE ~(Waits(turn) /\ turn.call = Head(queue).events[1].id)
  <2>1. queue' = Tail(queue) /\ UNCHANGED turn
    BY <1>5 DEF QuestionSettled
  <2> QED  BY <1>2, <1>3, <2>1, ServesEnd
<1> QED  BY <1>4, <1>5

(* The store refuses.                                                      *)
LEMMA RefusedForm ==
  ASSUME Base, Refused
  PROVE  Serves \/ Leaves \/ Advances
<1> DEFINE then == Head(queue).then
<1>1. queue # <<>> /\ ~shown /\ shown' = shown /\ MayRefuse
  BY DEF Refused, HeadRefused, MayRefuse
<1>2. UNCHANGED <<log, boots, pendingDecision, effects, ids>>
  BY DEF Refused
<1>3. queue \in Queues /\ shown' = FALSE /\ Head(queue) = queue[1]
  BY <1>1 DEF Base, TypeOK, Queues
<1>4. CASE then # "turn"
  <2>1. queue' = Tail(queue) /\ UNCHANGED turn
    BY <1>4 DEF Refused
  <2> QED  BY <1>1, <1>2, <1>3, <1>4, <2>1, ServesEnd
<1>5. CASE then = "turn"
  <2>1. queue[1].then = "turn"
    BY <1>3, <1>5
  <2>2. /\ turn # None /\ turn.pc \notin Resting
        /\ \A k \in DOMAIN queue : k > 1 => queue[k].then # "turn"
    BY <1>1, <1>3, <2>1, TurnFree DEF Base
  <2>3. Hand(Tail(queue))
    BY <1>1, <1>2, <1>3, <2>2 DEF Hand, Free1
  <2>4. Same(turn)
    BY <2>2 DEF Base, TypeOK, Same
  <2>5. CASE turn.pc = "failing"
    <3>1. turn' = None /\ queue' = Tail(queue)
      BY <1>5, <2>5 DEF Refused
    <3>2. Slides(1, <<>>)
      BY <1>1, <1>2, <1>3, <3>1, TailSlides
    <3> QED  BY <1>1, <1>2, <2>1, <2>2, <2>5, <3>1, <3>2 DEF Leaves, Quitting
  <2>6. CASE turn.pc = "completing"
    <3>1. PICK status \in {"cancelled", "failed"} :
            ToolResult(turn, "recording", status, Tail(queue))
      BY <1>5, <2>6 DEF Refused
    <3>2. status \in Statuses \cup Verdicts
      BY DEF Statuses
    <3>3. turn.turnOpen /\ turn.pc \in InCall
      BY <2>2, <2>6 DEF Base, Held, Quitting, InCall
    <3> QED  BY <1>2, <2>3, <2>4, <3>1, <3>2, <3>3, ResultForm
  <2>7. CASE turn.pc \notin {"completing", "failing"}
    <3>1. Fails(turn, Tail(queue))
      BY <1>5, <2>7 DEF Refused
    <3> QED  BY <1>1, <1>2, <2>3, <2>4, <3>1, FailsForm
  <2> QED  BY <2>5, <2>6, <2>7
<1> QED  BY <1>4, <1>5

LEMMA RenameForm ==
  ASSUME Base, Rename
  PROVE  Serves
<1>1. queue # <<>> /\ Head(queue).then = "rename" /\ queue' = Tail(queue) /\ shown' = shown
      /\ UNCHANGED <<log, boots, turn, pendingDecision, effects, ids>>
  BY DEF Rename, turnVars
<1>2. queue[1].then = "rename"
  BY <1>1 DEF Base, TypeOK
<1>3. shown' = FALSE
  BY <1>1, <1>2 DEF Base, Owned, TypeOK
<1> QED  BY <1>1, <1>3, ServesEnd

LEMMA RestartForm ==
  ASSUME Base, Crash \/ CancelRefused
  PROVE  Restarts
<1>1. Restart
  BY DEF Crash, CancelRefused
<1>2. queue \in Queues
  BY DEF Base, TypeOK, Queues
<1>3. \/ log' = log
      \/ /\ queue # <<>> /\ ~shown /\ ~archived
         /\ \E k \in 1..Len(queue[1].events) : log' = log \o SubSeq(queue[1].events, 1, k)
  <2>1. queue # <<>> => Head(queue) = queue[1]
    BY <1>2 DEF Queues
  <2>2. \/ log' = log
        \/ /\ queue # <<>> /\ ~shown /\ ~archived
           /\ \E k \in 1..Len(Head(queue).events) :
                log' = log \o SubSeq(Head(queue).events, 1, k)
    BY DEF Crash, CancelRefused
  <2> QED  BY <2>1, <2>2
<1> QED  BY <1>1, <1>3 DEF Restart, Restarts

(* Short sequences of plain events.                                        *)
PlainEvent(e) == e \in Events /\ e.type \in PlainTypes

LEMMA PlainEvents ==
  /\ \A status \in Statuses : PlainEvent(Status(status)) /\ PlainEvent(SessionEnded(status))
  /\ \A mode \in Modes : PlainEvent(About("session/permission_changed", 0, mode))
  /\ PlainEvent(About("session/resumed", 0, "idle"))
  /\ \A m \in Messages, lane \in Lanes : PlainEvent(Event("inbox/enqueued", 0, lane, <<m>>))
  /\ \A call \in Nat : /\ PlainEvent(About("question/answered", call, ""))
                       /\ PlainEvent(About("tool/result", call, "completed"))
<1>1. \A call \in Nat : /\ About("question/answered", call, "") \in Events
                        /\ About("tool/result", call, "completed") \in Events
  BY EventsHere DEF Statuses
<1>2. \A call \in Nat : /\ About("question/answered", call, "").type \in PlainTypes
                        /\ About("tool/result", call, "completed").type \in PlainTypes
  BY DEF About, Event, PlainTypes, CommandTypes
<1>3. {"agent/status", "session/ended", "session/permission_changed", "session/resumed",
       "inbox/enqueued"} \subseteq PlainTypes
  BY DEF PlainTypes, CommandTypes
<1> QED  BY <1>1, <1>2, <1>3, SessionEventsHere DEF PlainEvent

(* A command that appends one or two events and only reports back.         *)
LEMMA ServesEvents ==
  ASSUME Base, NEW d, PlainEvent(d), NEW e, PlainEvent(e), NEW events,
         events = <<d>> \/ events = <<d, e>>,
         NEW then \in Replies, Appends(events, then),
         turn = None \/ (d.type # "session/ended" /\ e.type # "session/ended"),
         \/ ~IsEnqueue(d) /\ ~IsEnqueue(e)
         \/ \E m \in Messages, lane \in Lanes : Enqueue(m, lane),
         UNCHANGED <<turn, pendingDecision, effects, ids>>
  PROVE  Serves
<1>1. d \in Events /\ e \in Events /\ d.type \in PlainTypes /\ e.type \in PlainTypes
  BY DEF PlainEvent
<1>2. events \in Seq(Events) /\ DOMAIN events \subseteq {1, 2}
      /\ \A j \in DOMAIN events : events[j] = d \/ events[j] = e
  <2>1. CASE events = <<d>>
    BY <1>1, <2>1
  <2>2. CASE events = <<d, e>>
    BY <1>1, <2>2
  <2> QED  BY <2>1, <2>2
<1>3. \A j \in DOMAIN events : events[j].type \in PlainTypes
  BY <1>1, <1>2
<1>4. turn = None \/ \A j \in DOMAIN events : events[j].type # "session/ended"
  BY <1>2
<1>5. \/ \A j \in DOMAIN events : ~IsEnqueue(events[j])
      \/ \E m \in Messages, lane \in Lanes : Enqueue(m, lane)
  <2>1. (~IsEnqueue(d) /\ ~IsEnqueue(e)) => \A j \in DOMAIN events : ~IsEnqueue(events[j])
    BY <1>2
  <2> QED  BY <2>1
<1> QED  BY <1>2, <1>3, <1>4, <1>5, ServesOne

LEMMA CommandStepForm ==
  ASSUME Base, CommandStep
  PROVE  Serves \/ Begins \/ Dispatching \/ Advances
<1>1. CASE Prepared
  <2>1. Appends(<<Status("running")>>, "start") /\ UNCHANGED <<turn, pendingDecision, effects, ids>>
    BY <1>1 DEF Prepared, turnVars
  <2>2. PlainEvent(Status("running")) /\ Status("running").type = "agent/status" /\ "start" \in Replies
    BY PlainEvents, SessionEventsHere DEF Statuses, Replies
  <2> DEFINE d == Status("running")
             events == <<d>>
  <2>3. Appends(events, "start") /\ PlainEvent(d) /\ d.type # "session/ended" /\ ~IsEnqueue(d)
    BY <2>1, <2>2 DEF IsEnqueue
  <2>4. events = <<d>>
    OBVIOUS
  <2> HIDE DEF d, events
  <2> QED  BY <2>1, <2>2, <2>3, <2>4, ServesEvents
<1>2. CASE PrepareFails
  BY <1>2, ServesNothing DEF PrepareFails, turnVars
<1>3. CASE Started
  BY <1>3, RunTurnForm DEF Started
<1>4. CASE Resumed
  <2>1. Resumes("resume") /\ UNCHANGED <<pendingDecision, effects>>
    BY <1>4 DEF Resumed
  <2>2. CASE Inbox["nextTurn"] # <<>>
    BY <1>4, <2>1, <2>2, RunTurnForm DEF Resumed
  <2>3. CASE Inbox["nextTurn"] = <<>>
    <3>1. queue' = Tail(queue) /\ UNCHANGED <<turn, ids>>
      BY <1>4, <2>3 DEF Resumed
    <3>2. queue # <<>> /\ Head(queue).then = "resume" /\ shown' = FALSE /\ UNCHANGED <<log, boots>>
      BY <2>1, Hears
    <3> QED  BY <2>1, <3>1, <3>2, ServesEnd
  <2> QED  BY <2>2, <2>3
<1>5. CASE \E status \in {"approved", "rejected"} : Decided(status)
  BY <1>5, DecidedForm DEF Verdicts
<1>6. CASE QuestionSettled
  BY <1>6, QuestionSettledForm
<1>7. CASE ArchiveEnded
  <2> DEFINE entry == Entry(<<>>, "rename")
             new == <<entry>>
  <2>1. /\ queue \in Queues /\ queue # <<>> /\ shown' = FALSE /\ UNCHANGED <<log, boots>>
        /\ queue[1].then = "archive"
    BY <1>7, Hears DEF ArchiveEnded
  <2>2. queue' = Append(Tail(queue), entry)
        /\ UNCHANGED <<turn, pendingDecision, effects, ids>>
    BY <1>7 DEF ArchiveEnded, turnVars
  <2>3. entry \in Entries /\ PlainEntry(entry) /\ ~Ends(entry) /\ Quiet(entry)
    <3>1. "rename" \in Replies
      BY DEF Replies
    <3> DEFINE none == <<>>
    <3>2. none \in Seq(Events) /\ DOMAIN none = {}
      OBVIOUS
    <3>3. entry = Entry(none, "rename")
      OBVIOUS
    <3> HIDE DEF none, entry
    <3> QED  BY <3>1, <3>2, <3>3, PlainOne
  <2> HIDE DEF entry
  <2>4. queue' = Tail(queue) \o new /\ new \in Seq(Entries)
    BY <2>1, <2>2, <2>3, AppendIs DEF Queues
  <2>5. \A k \in DOMAIN new : new[k] = entry
    OBVIOUS
  <2> HIDE DEF new
  <2>6. Slides(1, new)
    BY <2>1, <2>4, SlidesOff
  <2>7. queue[1].then # "turn"
    BY <2>1
  <2>8. \A k \in DOMAIN new :
          PlainEntry(new[k]) /\ Quiet(new[k]) /\ (Ends(new[k]) => turn' = None \/ turn'.aborted)
    BY <2>3, <2>5
  <2> QED  BY <2>2, <2>6, <2>7, <2>8 DEF Serves
<1>8. CASE Reported
  <2>1. /\ queue' = Tail(queue) /\ Resumes("none")
        /\ UNCHANGED <<turn, pendingDecision, effects, ids>>
    BY <1>8 DEF Reported, turnVars
  <2>2. queue # <<>> /\ Head(queue).then = "none" /\ shown' = FALSE /\ UNCHANGED <<log, boots>>
    BY <2>1, Hears
  <2> QED  BY <2>1, <2>2, ServesEnd
<1> QED  BY <1>1, <1>2, <1>3, <1>4, <1>5, <1>6, <1>7, <1>8 DEF CommandStep

LEMMA UserStepForm ==
  ASSUME Base, UserStep
  PROVE  Serves \/ Decides \/ Advances
<1> DEFINE Reports(events) ==
             \E d, e, then :
               /\ PlainEvent(d) /\ PlainEvent(e) /\ (events = <<d>> \/ events = <<d, e>>)
               /\ then \in Replies /\ OnlyAppends(events, then)
               /\ turn = None \/ (d.type # "session/ended" /\ e.type # "session/ended")
               /\ \/ ~IsEnqueue(d) /\ ~IsEnqueue(e)
                  \/ \E m \in Messages, lane \in Lanes : Enqueue(m, lane)
<1>1. ASSUME NEW events, Reports(events)
      PROVE  Serves
  BY <1>1, ServesEvents DEF OnlyAppends, turnVars
<1>2. ASSUME NEW m \in Messages, NEW lane \in Lanes, Enqueue(m, lane)
      PROVE  Serves
  <2> DEFINE d == Event("inbox/enqueued", 0, lane, <<m>>)
  <2>1. OnlyAppends(<<d>>, "none") /\ "none" \in Replies
    BY <1>2 DEF Enqueue, Replies
  <2>2. PlainEvent(d) /\ d.type # "session/ended"
    BY PlainEvents, SessionEventsHere
  <2> HIDE DEF d
  <2>3. Reports(<<d>>)
    BY <1>2, <2>1, <2>2
  <2> QED  BY <1>1, <2>3
<1>3. ASSUME NEW mode \in Modes, SetPermission(mode)
      PROVE  Serves
  <2> DEFINE d == About("session/permission_changed", 0, mode)
  <2>1. OnlyAppends(<<d>>, "none") /\ "none" \in Replies
    BY <1>3 DEF SetPermission, Replies
  <2>2. PlainEvent(d) /\ d.type # "session/ended" /\ ~IsEnqueue(d)
    BY PlainEvents, SessionEventsHere DEF IsEnqueue
  <2> HIDE DEF d
  <2>3. Reports(<<d>>)
    BY <2>1, <2>2
  <2> QED  BY <1>1, <2>3
<1>4. CASE Start
  BY <1>4, ServesNothing DEF Start, turnVars
<1>5. CASE Resume
  <2> DEFINE d == About("session/resumed", 0, "idle")
             e == Status("idle")
  <2>1. OnlyAppends(<<d, e>>, "resume") /\ "resume" \in Replies
    BY <1>5 DEF Resume, Replies
  <2>2. "idle" \in Statuses
    BY DEF Statuses
  <2>3. /\ PlainEvent(d) /\ d.type # "session/ended" /\ ~IsEnqueue(d)
        /\ PlainEvent(e) /\ e.type # "session/ended" /\ ~IsEnqueue(e)
    BY <2>2, PlainEvents, SessionEventsHere DEF IsEnqueue
  <2> HIDE DEF d, e
  <2>4. Reports(<<d, e>>)
    BY <2>1, <2>3
  <2> QED  BY <1>1, <2>4
<1>6. CASE Interrupt
  BY <1>6, InterruptForm
<1>7. CASE Cancel
  BY <1>7, CancelForm
<1>8. CASE Archive
  <2>1. turn = None
    BY <1>8 DEF Archive
  <2>2. CASE OnlyAppends(<<>>, "rename")
    <3> DEFINE none == <<>>
    <3>1. none \in Seq(Events) /\ DOMAIN none = {} /\ "rename" \in Replies
      BY DEF Replies
    <3>2. Appends(none, "rename") /\ UNCHANGED <<turn, pendingDecision, effects, ids>>
      BY <2>2 DEF OnlyAppends, turnVars
    <3> HIDE DEF none
    <3> QED  BY <2>1, <3>1, <3>2, ServesOne
  <2>3. CASE OnlyAppends(<<Status("completed"), SessionEnded("completed")>>, "archive")
    <3> DEFINE d == Status("completed")
               e == SessionEnded("completed")
    <3>1. OnlyAppends(<<d, e>>, "archive") /\ "archive" \in Replies
      BY <2>3 DEF Replies
    <3>2. "completed" \in Statuses
      BY DEF Statuses
    <3>3. PlainEvent(d) /\ PlainEvent(e) /\ ~IsEnqueue(d) /\ ~IsEnqueue(e)
      BY <3>2, PlainEvents, SessionEventsHere DEF IsEnqueue
    <3> HIDE DEF d, e
    <3>4. Reports(<<d, e>>)
      BY <2>1, <3>1, <3>3
    <3> QED  BY <1>1, <3>4
  <2> QED  BY <1>8, <2>2, <2>3 DEF Archive
<1>9. ASSUME NEW status \in Verdicts, Decide(status)
      PROVE  Decides
  BY <1>9, DecideForm
<1>10. ASSUME NEW call \in 1..ids, Answer(call)
       PROVE  Serves
  <2> DEFINE d == About("question/answered", call, "")
             e == About("tool/result", call, "completed")
  <2>1. call \in Nat /\ "answer" \in Replies /\ "none" \in Replies
    BY DEF Base, TypeOK, Replies
  <2>2. OnlyAppends(<<d>>, "answer") \/ OnlyAppends(<<d, e>>, "none")
    BY <1>10 DEF Answer
  <2>3. PlainEvent(d) /\ PlainEvent(e)
    BY <2>1, PlainEvents
  <2>4. d.type # "session/ended" /\ e.type # "session/ended" /\ ~IsEnqueue(d) /\ ~IsEnqueue(e)
    BY DEF About, Event, IsEnqueue
  <2> HIDE DEF d, e
  <2>5. Reports(<<d>>) \/ Reports(<<d, e>>)
    BY <2>1, <2>2, <2>3, <2>4
  <2> QED  BY <1>1, <2>5
<1> HIDE DEF Reports
<1> QED  BY <1>2, <1>3, <1>4, <1>5, <1>6, <1>7, <1>8, <1>9, <1>10 DEF UserStep, Verdicts

(* The other variables.                                                    *)
LEMMA SundryForm ==
  ASSUME Base, Next
  PROVE  Sundry
<1> DEFINE SameFour == UNCHANGED <<archived, pendingQuestion, starting, requests>>
<1>1. /\ archived \in BOOLEAN /\ pendingQuestion \in Nat \cup {None} /\ starting \in Nat
      /\ requests \in 0..MaxRequests /\ MaxRequests \in Nat
  BY RuntimeAssumption DEF Base, TypeOK
<1>2. SameFour => Sundry
  BY <1>1 DEF Sundry
<1>3. Asks => requests' \in 0..MaxRequests
  BY <1>1 DEF Asks
<1>4. ASSUME NEW then, Resumes(then), UNCHANGED pendingQuestion
      PROVE  Sundry
  BY <1>1, <1>4 DEF Sundry, Resumes, clientVars
<1>5. ASSUME NEW events, NEW then, OnlyAppends(events, then)
      PROVE  Sundry
  BY <1>1, <1>3, <1>5 DEF Sundry, OnlyAppends, Appends, turnVars
<1>6. CASE StoreStep
  <2>1. CASE Commit \/ Refused
    BY <1>2, <2>1 DEF Commit, Refused, turnVars, clientVars
  <2>2. CASE Rename
    BY <1>1, <2>2 DEF Sundry, Rename, turnVars, clientVars
  <2>3. CASE CancelRefused
    BY <1>1, <2>3 DEF Sundry, CancelRefused, Restart
  <2> QED  BY <1>6, <2>1, <2>2, <2>3 DEF StoreStep
<1>7. CASE TurnStep
  <2>1. CASE Respond \/ ModelFails \/ ToolEnds
    BY <1>2, <2>1 DEF Respond, ModelFails, ToolEnds, clientVars
  <2>2. CASE Claimed \/ Answered \/ Called \/ Dispatched \/ Recorded \/ StepEnded \/ TurnEnded
    BY <1>4, <2>2 DEF Claimed, Answered, Called, Dispatched, Recorded, StepEnded, TurnEnded, TurnResumes
  <2>3. CASE Requested
    <3>1. Resumes("turn") /\ turn.pc = "requesting"
      BY <2>3 DEF Requested, TurnResumes
    <3>2. pendingQuestion' \in {pendingQuestion, turn.call}
      BY <2>3 DEF Requested
    <3>3. UNCHANGED <<archived, starting, requests>>
      BY <3>1 DEF Resumes, clientVars
    <3>4. turn.call \in Nat
      <4>1. turn \in TurnRecord
        BY <2>3, Continues DEF Requested
      <4> QED  BY <4>1 DEF TurnRecord
    <3> QED  BY <1>1, <3>2, <3>3, <3>4 DEF Sundry
  <2> QED  BY <1>7, <2>1, <2>2, <2>3 DEF TurnStep
<1>8. CASE CommandStep
  <2>1. CASE Prepared \/ PrepareFails
    BY <1>1, <2>1 DEF Sundry, Prepared, PrepareFails, Appends, turnVars
  <2>2. CASE \/ Started \/ Resumed \/ ArchiveEnded \/ Reported
             \/ \E status \in {"approved", "rejected"} : Decided(status)
    BY <1>4, <2>2 DEF Started, Resumed, Decided, ArchiveEnded, Reported, turnVars
  <2>3. CASE QuestionSettled
    <3>1. pendingQuestion' \in {pendingQuestion, None}
      BY <2>3 DEF QuestionSettled
    <3>2. UNCHANGED <<archived, starting, requests>>
      BY <2>3 DEF QuestionSettled, Resumes, clientVars
    <3> QED  BY <1>1, <3>1, <3>2 DEF Sundry
  <2> QED  BY <1>8, <2>1, <2>2, <2>3 DEF CommandStep
<1>9. CASE UserStep
  <2>1. CASE \/ \E m \in Messages, lane \in Lanes : Enqueue(m, lane)
             \/ \E mode \in Modes : SetPermission(mode)
             \/ Resume \/ Archive
             \/ \E call \in 1..ids : Answer(call)
    BY <1>5, <2>1 DEF Enqueue, SetPermission, Resume, Archive, Answer
  <2>2. CASE Start
    BY <1>1, <1>3, <2>2 DEF Sundry, Start, turnVars
  <2>3. CASE Interrupt \/ Cancel
    <3>1. pendingQuestion' \in {pendingQuestion, None}
      BY <2>3 DEF Interrupt, Cancel, Abort
    <3>2. UNCHANGED <<archived, starting>> /\ Asks
      BY <2>3 DEF Interrupt, Cancel
    <3> QED  BY <1>1, <1>3, <3>1, <3>2 DEF Sundry
  <2>4. CASE \E status \in {"approved", "rejected"} : Decide(status)
    BY <1>1, <1>3, <2>4 DEF Sundry, Decide, Appends
  <2> QED  BY <1>9, <2>1, <2>2, <2>3, <2>4 DEF UserStep
<1>10. CASE Crash
  BY <1>1, <1>10 DEF Sundry, Crash, Restart
<1> QED  BY <1>6, <1>7, <1>8, <1>9, <1>10 DEF Next

(* Every step has a form.                                                  *)
LEMMA Steps ==
  ASSUME Base, [Next]_vars
  PROVE  Sundry /\ (Commit \/ Restarts \/ Serves \/ Decides \/ TurnForm)
<1>1. CASE UNCHANGED vars
  <2>1. UNCHANGED <<log, boots, queue, shown, turn, pendingDecision, effects, ids>>
    BY <1>1 DEF vars, turnVars
  <2>2. UNCHANGED <<archived, pendingQuestion, starting, requests>>
    BY <1>1 DEF vars, turnVars, clientVars
  <2>3. Sundry
    BY <2>2 DEF Base, TypeOK, Sundry
  <2> QED  BY <2>1, <2>3, ServesNothing
<1>2. CASE Next
  <2>1. Sundry
    BY <1>2, SundryForm
  <2>2. CASE StoreStep
    BY <2>1, <2>2, RenameForm, RefusedForm, RestartForm DEF StoreStep, TurnForm
  <2>3. CASE TurnStep
    BY <2>1, <2>3, TurnStepForm
  <2>4. CASE CommandStep
    BY <2>1, <2>4, CommandStepForm DEF TurnForm
  <2>5. CASE UserStep
    BY <2>1, <2>5, UserStepForm DEF TurnForm
  <2>6. CASE Crash
    BY <2>1, <2>6, RestartForm
  <2> QED  BY <1>2, <2>1, <2>2, <2>3, <2>4, <2>5, <2>6 DEF Next
<1> QED  BY <1>1, <1>2

-----------------------------------------------------------------------------
(* Type correctness, with what the queue holds.                            *)

(* The first n events of the head of the queue are put in the log.         *)
Grows(n) ==
  /\ queue \in Queues /\ queue # <<>> /\ 1 \in DOMAIN queue /\ ~shown
  /\ n \in 0..Len(queue[1].events)
  /\ log' \in Seq(Events) /\ Len(log') = Len(log) + n
  /\ \A i \in 1..Len(log) : log'[i] = log[i]
  /\ \A j \in 1..n : log'[Len(log) + j] = queue[1].events[j]

Joins(r, s, t) ==
  /\ Len(r) = Len(s) + Len(t)
  /\ \A i \in 1..Len(s) : r[i] = s[i]
  /\ \A j \in 1..Len(t) : r[Len(s) + j] = t[j]

LEMMA Concat ==
  ASSUME NEW S, NEW s \in Seq(S), NEW t \in Seq(S)
  PROVE  s \o t \in Seq(S) /\ Joins(s \o t, s, t)
BY DEF Joins

LEMMA Growth ==
  ASSUME TypeOK, queue # <<>>, ~shown, NEW n \in 0..Len(queue[1].events),
         log' = log \o SubSeq(queue[1].events, 1, n)
  PROVE  Grows(n)
<1> DEFINE events == queue[1].events
           part == SubSeq(events, 1, n)
<1>1. queue \in Queues /\ 1 \in DOMAIN queue /\ log \in Seq(Events)
  BY DEF TypeOK, Queues
<1>2. events \in Seq(Events)
  <2>1. queue[1] \in Entries
    BY <1>1 DEF Queues
  <2> QED  BY <2>1 DEF Entries
<1> HIDE DEF events
<1>3. n \in Nat /\ n <= Len(events) /\ Len(events) \in Nat
  BY <1>2 DEF events
<1>4. part \in Seq(Events) /\ Len(part) = n /\ \A j \in 1..n : part[j] = events[j]
  BY <1>2, <1>3
<1> HIDE DEF part
<1>5. log' = log \o part
  BY DEF part, events
<1>6. /\ log' \in Seq(Events) /\ Len(log') = Len(log) + n
      /\ \A i \in 1..Len(log) : log'[i] = log[i]
      /\ \A j \in 1..n : log'[Len(log) + j] = part[j]
  <2>1. log \in Seq(Events) /\ part \in Seq(Events) /\ Len(part) = n
    BY <1>1, <1>4
  <2>2. log \o part \in Seq(Events) /\ Joins(log \o part, log, part)
    BY <2>1, Concat
  <2>3. log' \in Seq(Events) /\ Joins(log', log, part)
    BY <1>5, <2>2
  <2> QED  BY <2>1, <2>3 DEF Joins
<1> QED  BY <1>1, <1>4, <1>6 DEF Grows, events

LEMMA CommitForm ==
  ASSUME TypeOK, Commit
  PROVE  /\ Grows(Len(queue[1].events)) /\ shown' = TRUE /\ queue[1].then # "rename"
         /\ UNCHANGED <<queue, turn, pendingDecision, effects, ids, boots>>
<1>1. queue \in Queues /\ queue # <<>> /\ ~shown /\ Head(queue).then # "rename"
      /\ log' = log \o Head(queue).events
  BY DEF TypeOK, Queues, Commit
<1>2. Head(queue) = queue[1] /\ queue[1] \in Entries
  BY <1>1 DEF Queues
<1> DEFINE events == queue[1].events
<1>3. events \in Seq(Events)
  BY <1>2 DEF Entries
<1> HIDE DEF events
<1>4. Len(events) \in 0..Len(events) /\ SubSeq(events, 1, Len(events)) = events
  BY <1>3
<1>5. log' = log \o SubSeq(events, 1, Len(events))
  BY <1>1, <1>2, <1>4 DEF events
<1>6. Grows(Len(events))
  BY <1>1, <1>4, <1>5, Growth DEF events
<1> QED  BY <1>1, <1>2, <1>6 DEF Commit, turnVars, events

LEMMA RestartGrows ==
  ASSUME TypeOK, Restarts
  PROVE  log' = log \/ \E n : Grows(n)
<1>1. SUFFICES ASSUME log' # log PROVE \E n : Grows(n)
  OBVIOUS
<1>2. PICK n \in 1..Len(queue[1].events) : log' = log \o SubSeq(queue[1].events, 1, n)
  BY <1>1 DEF Restarts
<1>3. queue # <<>> /\ ~shown
  BY <1>1 DEF Restarts
<1>4. n \in 0..Len(queue[1].events)
  OBVIOUS
<1> QED  BY <1>2, <1>3, <1>4, Growth

(* Every form but the store's slides the queue.                            *)
LEMMA AlwaysSlides ==
  ASSUME Serves \/ Decides \/ TurnForm
  PROVE  \E d, new : Slides(d, new)
<1>1. CASE Serves \/ Decides
  BY <1>1 DEF Serves, Decides
<1>2. CASE Claims \/ Waiting \/ Executes \/ Leaves
  BY <1>2 DEF Claims, Waiting, Executes, Leaves, Arrives
<1>3. CASE Begins \/ MakesCall \/ Requests \/ Dispatching \/ Advances
  BY <1>3 DEF Begins, MakesCall, Requests, Dispatching, Advances, Awaits
<1> QED  BY <1>1, <1>2, <1>3 DEF TurnForm

LEMMA SlidesTypes ==
  ASSUME TypeOK, NEW d, NEW new, Slides(d, new)
  PROVE  log' \in Seq(Events) /\ shown' \in BOOLEAN /\ queue' \in Seq(Entries) /\ boots' \in Seq(Nat)
<1>1. log' \in Seq(Events) /\ boots' \in Seq(Nat)
  BY DEF TypeOK, Slides
<1>2. shown' \in BOOLEAN /\ queue' \in Seq(Entries)
  BY DEF TypeOK, Slides, Queues
<1> QED  BY <1>1, <1>2

LEMMA TurnTypesNext ==
  ASSUME TypeOK, Held, Serves \/ Decides \/ TurnForm
  PROVE  /\ turn' \in TurnRecord \cup {None} /\ pendingDecision' \in Nat \cup {None}
         /\ effects' \in Seq(Nat) /\ ids' \in Nat
<1>1. /\ turn \in TurnRecord \cup {None} /\ pendingDecision \in Nat \cup {None}
      /\ effects \in Seq(Nat) /\ ids \in Nat
  BY DEF TypeOK
<1>2. \A t \in TurnRecord : /\ [t EXCEPT !.aborted = TRUE] \in TurnRecord
                            /\ \A pc \in Points : [t EXCEPT !.pc = pc] \in TurnRecord
                            /\ t.call \in Nat
  BY DEF TurnRecord
<1>3. CASE Serves
  BY <1>1, <1>2, <1>3 DEF Serves
<1>4. CASE Decides
  BY <1>1, <1>4 DEF Decides
<1>5. CASE Claims
  <2>1. turn \in TurnRecord
    BY <1>1, <1>5 DEF Claims, Arrives
  <2>2. [turn EXCEPT !.pc = "asking", !.turnOpen = TRUE, !.stepOpen = TRUE] \in TurnRecord
    BY <2>1 DEF TurnRecord, Points, Resting
  <2> QED  BY <1>1, <1>5, <2>2 DEF Claims, Arrives
<1>6. CASE Waiting
  <2>1. turn \in TurnRecord /\ "waiting" \in Points /\ "deaf" \in Points
    BY <1>1, <1>6 DEF Waiting, Arrives, Points, Resting
  <2> QED  BY <1>1, <1>2, <1>6, <2>1 DEF Waiting, Arrives
<1>7. CASE Executes
  <2>1. turn \in TurnRecord /\ "executing" \in Points
    BY <1>1, <1>7 DEF Executes, Arrives, Points, Resting
  <2>2. turn.call \in Nat
    BY <1>2, <2>1
  <2>3. Append(effects, turn.call) \in Seq(Nat)
    BY <1>1, <2>2
  <2> QED  BY <1>1, <1>2, <1>7, <2>1, <2>3 DEF Executes, Arrives
<1>8. CASE Leaves
  BY <1>1, <1>8 DEF Leaves
<1>9. CASE Begins \/ MakesCall \/ Requests \/ Dispatching \/ Advances
  <2>1. turn' \in TurnRecord
    BY <1>9 DEF Begins, MakesCall, Requests, Dispatching, Advances, Awaits
  <2>2. ids' \in Nat /\ effects' = effects /\ pendingDecision' \in {pendingDecision, None}
    BY <1>1, <1>9 DEF Begins, MakesCall, Requests, Dispatching, Advances
  <2> QED  BY <1>1, <2>1, <2>2
<1> QED  BY <1>3, <1>4, <1>5, <1>6, <1>7, <1>8, <1>9 DEF TurnForm

LEMMA TypeNext ==
  ASSUME Base, [Next]_vars
  PROVE  TypeOK'
<1>1. Sundry /\ (Commit \/ Restarts \/ Serves \/ Decides \/ TurnForm)
  BY Steps
<1>2. TypeOK /\ Held
  BY DEF Base
<1>3. CASE Serves \/ Decides \/ TurnForm
  <2>1. PICK d, new : Slides(d, new)
    BY <1>3, AlwaysSlides
  <2>2. log' \in Seq(Events) /\ shown' \in BOOLEAN /\ queue' \in Seq(Entries) /\ boots' \in Seq(Nat)
    BY <1>2, <2>1, SlidesTypes
  <2>3. /\ turn' \in TurnRecord \cup {None} /\ pendingDecision' \in Nat \cup {None}
        /\ effects' \in Seq(Nat) /\ ids' \in Nat
    BY <1>2, <1>3, TurnTypesNext
  <2> QED  BY <1>1, <2>2, <2>3 DEF TypeOK, Sundry
<1>4. CASE Commit
  <2>1. log' \in Seq(Events) /\ shown' = TRUE
        /\ UNCHANGED <<queue, turn, pendingDecision, effects, ids, boots>>
    BY <1>2, <1>4, CommitForm DEF Grows
  <2> QED  BY <1>1, <1>2, <2>1 DEF TypeOK, Sundry
<1>5. CASE Restarts
  <2>1. log' \in Seq(Events)
    <3>1. log' = log \/ \E n : Grows(n)
      BY <1>2, <1>5, RestartGrows
    <3> QED  BY <1>2, <3>1 DEF TypeOK, Grows
  <2>2. /\ queue' = <<>> /\ shown' = FALSE /\ turn' = None /\ pendingDecision' = None
        /\ UNCHANGED <<effects, ids>>
    BY <1>5 DEF Restarts
  <2>3. boots' \in Seq(Nat)
    <3>1. Len(log') \in Nat /\ boots \in Seq(Nat)
      BY <1>2, <2>1 DEF TypeOK
    <3>2. boots' = Append(boots, Len(log'))
      BY <1>5 DEF Restarts
    <3> QED  BY <3>1, <3>2
  <2>4. /\ shown' \in BOOLEAN /\ queue' \in Seq(Entries) /\ turn' \in TurnRecord \cup {None}
        /\ pendingDecision' \in Nat \cup {None} /\ effects' \in Seq(Nat) /\ ids' \in Nat
    <3>1. effects \in Seq(Nat) /\ ids \in Nat
      BY <1>2 DEF TypeOK
    <3>2. <<>> \in Seq(Entries)
      OBVIOUS
    <3> QED  BY <2>2, <3>1, <3>2
  <2> QED  BY <1>1, <2>1, <2>3, <2>4 DEF TypeOK, Sundry
<1> QED  BY <1>1, <1>3, <1>4, <1>5

(* What stays of the queue's entries when the queue slides.                *)
Keeps(d) ==
  /\ ids' \in Nat /\ ids <= ids'
  /\ \A k \in DOMAIN queue : k > d /\ queue[k].then = "turn" =>
       turn' # None /\ \A events : Owes(turn, events) => Owes(turn', events)

Adds(d, new) ==
  /\ \A k \in DOMAIN new : ProperOf(turn', ids', new[k])
  /\ \/ \A k \in DOMAIN new : new[k].then # "turn"
     \/ /\ \A k \in DOMAIN queue : k > d => queue[k].then # "turn"
        /\ \A k \in DOMAIN new : new[k].then = "turn" => k = Len(new)

LEMMA OwnedSlides ==
  ASSUME TypeOK, Owned, NEW d, NEW new, Slides(d, new), Keeps(d), Adds(d, new)
  PROVE  Owned'
<1> DEFINE n == Len(queue) - d
           m == Len(new)
<1>1. /\ d \in {0, 1} /\ n \in Nat /\ m \in Nat /\ Len(queue) \in Nat /\ Len(queue') \in Nat
      /\ Len(queue') = n + m /\ DOMAIN queue' = 1..n + m
      /\ DOMAIN queue = 1..Len(queue) /\ DOMAIN new = 1..m
  BY DEF TypeOK, Slides, Queues
<1>2. \A k \in 1..n : queue'[k] = queue[k + d] /\ k + d \in DOMAIN queue /\ k + d > d
  BY <1>1 DEF Slides
<1>3. \A k \in n + 1..n + m : queue'[k] = new[k - n] /\ k - n \in DOMAIN new
  <2> SUFFICES ASSUME NEW k \in n + 1..n + m
               PROVE  queue'[k] = new[k - n] /\ k - n \in DOMAIN new
    OBVIOUS
  <2>1. k - n \in 1..m /\ n + (k - n) = k
    BY <1>1
  <2> QED  BY <1>1, <2>1 DEF Slides
<1>4. \A k \in DOMAIN queue' : k \in 1..n \/ k \in n + 1..n + m
  BY <1>1
<1> HIDE DEF n, m
<1>5. \A k \in DOMAIN queue' : Proper(queue[k])'
  <2> SUFFICES ASSUME NEW k \in DOMAIN queue'
               PROVE  ProperOf(turn', ids', queue'[k])
    BY DEF Proper
  <2>1. CASE k \in 1..n
    <3>1. ProperOf(turn, ids, queue[k + d])
      BY <1>2, <2>1 DEF Owned, Proper
    <3>2. 1..ids \subseteq 1..ids'
      BY DEF TypeOK, Keeps
    <3>3. ProperOf(turn', ids', queue[k + d])
      BY <1>2, <2>1, <3>1, <3>2 DEF ProperOf, Keeps
    <3> QED  BY <1>2, <2>1, <3>3
  <2>2. CASE k \in n + 1..n + m
    BY <1>3, <2>2 DEF Adds
  <2> QED  BY <1>4, <2>1, <2>2
<1>6. \A k, l \in DOMAIN queue' : queue'[k].then = "turn" /\ queue'[l].then = "turn" => k = l
  <2> SUFFICES ASSUME NEW k \in DOMAIN queue', NEW l \in DOMAIN queue',
                      queue'[k].then = "turn", queue'[l].then = "turn"
               PROVE  k = l
    OBVIOUS
  <2>1. CASE \A i \in DOMAIN new : new[i].then # "turn"
    <3>1. k \in 1..n /\ l \in 1..n
      BY <1>3, <1>4, <2>1
    <3>2. k + d = l + d
      BY <1>2, <3>1 DEF Owned
    <3> QED  BY <1>1, <3>1, <3>2
  <2>2. CASE /\ \A i \in DOMAIN queue : i > d => queue[i].then # "turn"
             /\ \A i \in DOMAIN new : new[i].then = "turn" => i = m
    <3>1. k \in n + 1..n + m /\ l \in n + 1..n + m
      BY <1>2, <1>4, <2>2
    <3>2. k - n = m /\ l - n = m
      BY <1>3, <2>2, <3>1
    <3> QED  BY <1>1, <3>1, <3>2
  <2> QED  BY <2>1, <2>2 DEF Adds, m
<1>7. shown' => queue' # <<>> /\ queue'[1].then # "rename" /\ HeadInLog'
  <2> SUFFICES ASSUME shown'
               PROVE  queue' # <<>> /\ queue'[1].then # "rename" /\ HeadInLog'
    OBVIOUS
  <2>1. d = 0 /\ shown /\ log' = log
    BY <1>1 DEF Slides
  <2>2. queue # <<>> /\ queue[1].then # "rename" /\ HeadInLog
    BY <2>1 DEF Owned
  <2>3. 1 \in 1..n
    BY <1>1, <2>1, <2>2 DEF n
  <2>4. queue'[1] = queue[1]
    BY <1>2, <2>1, <2>3
  <2>5. queue' # <<>>
    BY <1>1, <2>3
  <2> QED  BY <2>1, <2>2, <2>4, <2>5 DEF HeadInLog
<1> QED  BY <1>5, <1>6, <1>7 DEF Owned

LEMMA OwnedNext ==
  ASSUME Base, [Next]_vars
  PROVE  Owned'
<1>1. Commit \/ Restarts \/ Serves \/ Decides \/ TurnForm
  BY Steps
<1>2. TypeOK /\ Owned /\ ids \in Nat
  BY DEF Base, TypeOK
<1>3. ids' \in Nat
  BY TypeNext DEF TypeOK
<1>4. CASE Serves
  <2>1. PICK d, new : /\ Slides(d, new)
                      /\ \A k \in DOMAIN new : PlainEntry(new[k])
    BY <1>4 DEF Serves
  <2>2. turn # None => turn' # None
    <3>1. turn \in TurnRecord => [turn EXCEPT !.aborted = TRUE] \in TurnRecord
      BY DEF TurnRecord
    <3> QED  BY <1>2, <1>4, <3>1, SentinelAssumption DEF Serves, TypeOK
  <2>3. turn # None => \A events : Owes(turn, events) => Owes(turn', events)
    <3>1. CASE turn' = turn
      BY <3>1
    <3>2. CASE turn # None /\ turn' = [turn EXCEPT !.aborted = TRUE]
      <4>1. turn'.pc = turn.pc /\ turn'.turnOpen = turn.turnOpen /\ turn'.id = turn.id
            /\ turn'.call = turn.call /\ turn'.calls = turn.calls
        BY <1>2, <3>2 DEF TypeOK, TurnRecord
      <4> QED  BY <4>1 DEF Owes, Suits
    <3> QED  BY <1>4, <3>1, <3>2 DEF Serves
  <2>4. \A k \in DOMAIN queue : queue[k].then = "turn" => turn # None
    <3> SUFFICES ASSUME NEW k \in DOMAIN queue, queue[k].then = "turn" PROVE turn # None
      OBVIOUS
    <3>1. Proper(queue[k])
      BY <1>2 DEF Owned
    <3> QED  BY <3>1 DEF Proper, ProperOf, Verdicts, Replies
  <2>5. Keeps(d)
    <3>1. ids' = ids
      BY <1>4 DEF Serves
    <3> QED  BY <1>2, <2>2, <2>3, <2>4, <3>1 DEF Keeps
  <2>6. Adds(d, new)
    BY <2>1 DEF Adds, PlainEntry, ProperOf, Replies
  <2> QED  BY <1>2, <2>1, <2>5, <2>6, OwnedSlides
<1>5. CASE Decides
  <2>1. PICK status \in Verdicts :
          Slides(0, <<Entry(<<About("tool/approval", pendingDecision, status)>>, status)>>)
    BY <1>5 DEF Decides
  <2>2. pendingDecision \in 1..ids
    BY <1>5 DEF Decides, Base, Held
  <2> DEFINE events == <<About("tool/approval", pendingDecision, status)>>
             entry == Entry(events, status)
             new == <<entry>>
  <2>3. entry.then = status /\ entry.events = events
    BY DEF Entry
  <2>4. turn' = turn /\ ids' = ids
    BY <1>5 DEF Decides
  <2>5. ProperOf(turn', ids', entry)
    BY <2>2, <2>3, <2>4 DEF ProperOf
  <2>6. Slides(0, new) /\ \A k \in DOMAIN new : new[k] = entry
    BY <2>1
  <2> HIDE DEF entry, new
  <2>7. Adds(0, new)
    BY <2>3, <2>5, <2>6 DEF Adds, Verdicts
  <2>8. Keeps(0)
    <3>1. \A k \in DOMAIN queue : queue[k].then = "turn" => turn # None
      <4> SUFFICES ASSUME NEW k \in DOMAIN queue, queue[k].then = "turn" PROVE turn # None
        OBVIOUS
      <4>1. Proper(queue[k])
        BY <1>2 DEF Owned
      <4> QED  BY <4>1 DEF Proper, ProperOf, Verdicts, Replies
    <3> QED  BY <1>2, <2>4, <3>1 DEF Keeps
  <2> QED  BY <1>2, <2>6, <2>7, <2>8, OwnedSlides
<1>6. CASE Claims \/ Waiting \/ Executes \/ Leaves
  <2>1. Slides(1, <<>>) /\ queue # <<>> /\ queue[1].then = "turn" /\ ids' = ids
    BY <1>2, <1>6 DEF Claims, Waiting, Executes, Leaves, Arrives, TurnShown, Owned
  <2>2. \A k \in DOMAIN queue : k > 1 => queue[k].then # "turn"
    BY <1>2, <2>1, TurnFree DEF TypeOK, Queues
  <2>3. Keeps(1)
    BY <1>2, <2>1, <2>2 DEF Keeps
  <2> DEFINE new == <<>>
  <2>4. Slides(1, new) /\ DOMAIN new = {}
    BY <2>1
  <2> HIDE DEF new
  <2>5. Adds(1, new)
    BY <2>4 DEF Adds
  <2> QED  BY <1>2, <2>3, <2>4, <2>5, OwnedSlides
<1>7. CASE Begins \/ MakesCall \/ Requests \/ Dispatching \/ Advances
  <2>1. PICK d, events : Awaits(d, events)
    BY <1>7 DEF Begins, MakesCall, Requests, Dispatching, Advances
  <2>2. PICK new :
          /\ Slides(d, new)
          /\ Len(new) > 0 /\ new[Len(new)] = Entry(events, "turn")
          /\ \A k \in 1..Len(new) - 1 : PlainEntry(new[k])
    BY <2>1 DEF Awaits
  <2>3. \A k \in DOMAIN queue : k > d => queue[k].then # "turn"
    BY <2>1 DEF Awaits
  <2>4. turn' # None /\ Owes(turn', events)
    BY <2>1, SentinelAssumption DEF Awaits
  <2>5. ids <= ids'
    BY <1>2, <1>7 DEF Begins, MakesCall, Requests, Dispatching, Advances
  <2>6. Keeps(d)
    BY <1>3, <2>3, <2>5 DEF Keeps
  <2> DEFINE last == Entry(events, "turn")
  <2>7. last.then = "turn" /\ ProperOf(turn', ids', last)
    BY <2>4 DEF Entry, ProperOf
  <2>8. new[Len(new)] = last
    BY <2>2
  <2> HIDE DEF last
  <2>9. Len(new) \in Nat /\ DOMAIN new = 1..Len(new)
    BY <2>2 DEF Slides
  <2>10. \A k \in DOMAIN new : k = Len(new) \/ k \in 1..Len(new) - 1
    BY <2>9
  <2>11. \A k \in 1..Len(new) - 1 : ProperOf(turn', ids', new[k]) /\ new[k].then # "turn"
    BY <2>2 DEF PlainEntry, ProperOf, Replies
  <2>12. Adds(d, new)
    BY <2>3, <2>7, <2>8, <2>10, <2>11 DEF Adds
  <2> QED  BY <1>2, <2>2, <2>6, <2>12, OwnedSlides
<1>8. CASE Commit
  <2>1. /\ Grows(Len(queue[1].events)) /\ shown' = TRUE /\ queue[1].then # "rename"
        /\ UNCHANGED <<queue, turn, ids>>
    BY <1>2, <1>8, CommitForm
  <2> DEFINE events == queue[1].events
             n == Len(events)
  <2>2. n \in Nat /\ queue # <<>> /\ Len(log) \in Nat /\ events \in Seq(Events)
    <3>1. queue[1] \in Entries /\ queue # <<>>
      BY <1>2, <2>1 DEF Grows, TypeOK
    <3> QED  BY <1>2, <3>1 DEF Entries, TypeOK
  <2>3. Len(log') = Len(log) + n /\ \A j \in 1..n : log'[Len(log) + j] = events[j]
    BY <2>1 DEF Grows
  <2>4. queue'[1].events = events
    BY <2>1
  <2>5. HeadInLog'
    <3>1. DOMAIN events = 1..n
      BY <2>2
    <3> HIDE DEF events
    <3>2. n <= Len(log') /\ \A j \in 1..n : Len(log') - n + j = Len(log) + j
      BY <2>2, <2>3
    <3>3. \A j \in 1..n : log'[Len(log') - n + j] = events[j]
      BY <2>3, <3>2
    <3> QED  BY <2>4, <3>1, <3>2, <3>3 DEF HeadInLog
  <2>6. \A k \in DOMAIN queue' : Proper(queue[k])'
    BY <1>2, <2>1 DEF Owned, Proper
  <2> QED  BY <1>2, <2>1, <2>2, <2>5, <2>6 DEF Owned
<1>9. CASE Restarts
  <2>1. queue' = <<>> /\ shown' = FALSE
    BY <1>9 DEF Restarts
  <2>2. DOMAIN queue' = {}
    BY <2>1
  <2> QED  BY <2>1, <2>2 DEF Owned
<1> QED  BY <1>1, <1>4, <1>5, <1>6, <1>7, <1>8, <1>9 DEF TurnForm

LEMMA HeldNext ==
  ASSUME Base, [Next]_vars
  PROVE  Held'
<1> DEFINE Fine(t, n) ==
             /\ t.id \in 1..n /\ t.call \in 0..n
             /\ t.pc \in InCall => t.call > 0 /\ t.calls # <<>>
             /\ t.pc = "deaf" => t.aborted
             /\ t.pc \notin Quitting \cup {"claiming"} => t.turnOpen
           Open(p, t, n) ==
             p # None =>
               /\ p \in 1..n
               /\ t # None /\ t.call = p => t.pc \notin {"calling", "requesting"}
<1>1. Commit \/ Restarts \/ Serves \/ Decides \/ TurnForm
  BY Steps
<1>2. /\ TypeOK /\ Owned /\ Held /\ ids \in Nat /\ turn \in TurnRecord \cup {None}
      /\ turn # None => turn \in TurnRecord /\ turn.call \in Nat
  BY DEF Base, TypeOK, TurnRecord
<1>3. (turn # None => Fine(turn, ids)) /\ Open(pendingDecision, turn, ids)
  BY <1>2 DEF Held
<1>4. Held' <=> (turn' # None => Fine(turn', ids')) /\ Open(pendingDecision', turn', ids')
  BY DEF Held
<1>5. CASE UNCHANGED <<turn, ids>> /\ pendingDecision' \in {pendingDecision, None}
  <2> HIDE DEF Fine
  <2> QED  BY <1>3, <1>4, <1>5
<1>6. CASE turn' = None /\ UNCHANGED ids /\ pendingDecision' \in {pendingDecision, None}
  <2> HIDE DEF Fine
  <2> QED  BY <1>3, <1>4, <1>6
<1>7. CASE Serves
  <2>1. CASE turn' = turn
    BY <1>5, <1>7, <2>1 DEF Serves
  <2>2. CASE turn # None /\ turn' = [turn EXCEPT !.aborted = TRUE]
    <3>1. /\ turn'.pc = turn.pc /\ turn'.turnOpen = turn.turnOpen /\ turn'.id = turn.id
          /\ turn'.call = turn.call /\ turn'.calls = turn.calls /\ turn'.aborted
      BY <1>2, <2>2 DEF TurnRecord
    <3>2. UNCHANGED <<pendingDecision, ids>>
      BY <1>7 DEF Serves
    <3> QED  BY <1>3, <1>4, <2>2, <3>1, <3>2
  <2> QED  BY <1>7, <2>1, <2>2 DEF Serves
<1>8. CASE Claims \/ Waiting \/ Executes
  <2>1. turn # None /\ turn \in TurnRecord /\ turn.call \in Nat /\ ids' = ids
    BY <1>2, <1>8 DEF Claims, Waiting, Executes, Arrives
  <2>2. /\ turn'.id = turn.id /\ turn'.call = turn.call /\ turn'.calls = turn.calls
        /\ turn'.aborted = turn.aborted
        /\ \/ turn'.pc = "asking" /\ turn'.turnOpen
           \/ /\ turn.pc \in {"requesting", "dispatching"} /\ turn'.turnOpen = turn.turnOpen
              /\ \/ turn'.pc \in {"waiting", "executing"}
                 \/ turn'.pc = "deaf" /\ turn.aborted
    BY <1>8, <2>1 DEF Claims, Waiting, Executes, Arrives, TurnRecord
  <2>3. Fine(turn', ids')
    BY <1>3, <2>1, <2>2 DEF InCall, Quitting
  <2>4. pendingDecision' \in {pendingDecision, turn.call}
        /\ (pendingDecision' = turn.call \/ pendingDecision' = pendingDecision)
        /\ (pendingDecision' # pendingDecision => turn.pc \in InCall)
    BY <1>8 DEF Claims, Waiting, Executes, Arrives, InCall
  <2>5. turn'.pc \notin {"calling", "requesting"}
    BY <2>2
  <2>6. pendingDecision' # pendingDecision => turn.call \in 1..ids
    BY <1>2, <1>3, <2>1, <2>4
  <2>7. Open(pendingDecision', turn', ids')
    <3> HIDE DEF Fine
    <3> QED  BY <1>3, <2>1, <2>4, <2>5, <2>6
  <2> HIDE DEF Fine, Open
  <2> QED  BY <1>4, <2>3, <2>7
<1>9. CASE Begins
  <2>1. turn' = NewTurn(ids + 1) /\ ids' = ids + 1 /\ UNCHANGED pendingDecision /\ turn = None
    BY <1>9 DEF Begins
  <2>2. turn'.id = ids + 1 /\ turn'.call = 0 /\ turn'.pc = "claiming"
    BY <2>1 DEF NewTurn
  <2>3. Fine(turn', ids')
    BY <1>2, <2>1, <2>2 DEF InCall
  <2>4. Open(pendingDecision', turn', ids')
    BY <1>2, <1>3, <2>1, <2>2
  <2> HIDE DEF Fine, Open
  <2> QED  BY <1>4, <2>3, <2>4
<1>10. CASE MakesCall
  <2>1. /\ turn # None /\ turn.turnOpen /\ turn'.pc = "calling" /\ turn'.call = ids + 1 /\ turn'.calls # <<>>
        /\ turn'.id = turn.id /\ turn'.turnOpen = turn.turnOpen
        /\ ids' = ids + 1 /\ UNCHANGED pendingDecision
    BY <1>10 DEF MakesCall
  <2>2. Fine(turn', ids')
    BY <1>2, <1>3, <2>1
  <2>3. pendingDecision # None => pendingDecision \in 1..ids
    BY <1>3
  <2>4. Open(pendingDecision', turn', ids')
    <3> HIDE DEF Fine
    <3> QED  BY <1>2, <2>1, <2>3
  <2> HIDE DEF Fine, Open
  <2> QED  BY <1>4, <2>2, <2>4
<1>11. CASE Requests
  <2>1. /\ turn # None /\ turn \in TurnRecord /\ turn.pc = "calling"
        /\ turn' = [turn EXCEPT !.pc = "requesting"] /\ UNCHANGED <<pendingDecision, ids>>
    BY <1>2, <1>11 DEF Requests
  <2>2. /\ turn'.pc = "requesting" /\ turn'.turnOpen = turn.turnOpen /\ turn'.id = turn.id
        /\ turn'.call = turn.call /\ turn'.calls = turn.calls
    BY <2>1 DEF TurnRecord
  <2> QED  BY <1>3, <1>4, <2>1, <2>2 DEF InCall, Quitting
<1>12. CASE Dispatching
  <2>1. /\ turn # None /\ turn \in TurnRecord /\ turn.pc \in {"calling", "waiting", "deaf"}
        /\ turn' = [turn EXCEPT !.pc = "dispatching"] /\ UNCHANGED <<pendingDecision, ids>>
    BY <1>2, <1>12 DEF Dispatching, Waits
  <2>2. /\ turn'.pc = "dispatching" /\ turn'.turnOpen = turn.turnOpen /\ turn'.id = turn.id
        /\ turn'.call = turn.call /\ turn'.calls = turn.calls
    BY <2>1 DEF TurnRecord
  <2> QED  BY <1>3, <1>4, <2>1, <2>2 DEF InCall, Quitting
<1>13. CASE Advances
  <2>1. /\ turn # None /\ turn \in TurnRecord
        /\ turn'.pc \in {"claiming", "answering", "completing", "recording", "stopping",
                         "finishing", "continuing", "ending", "failing"}
        /\ turn'.pc \in InCall => turn.pc \in InCall /\ turn'.calls = turn.calls
        /\ turn'.id = turn.id /\ turn'.call = turn.call
        /\ turn'.turnOpen \/ turn'.pc = "failing"
        /\ pendingDecision' \in {pendingDecision, None} /\ ids' = ids
    BY <1>2, <1>13 DEF Advances
  <2>2. Fine(turn', ids')
    BY <1>3, <2>1 DEF Quitting
  <2>3. Open(pendingDecision', turn', ids')
    <3> HIDE DEF Fine
    <3> QED  BY <1>3, <2>1
  <2> HIDE DEF Fine, Open
  <2> QED  BY <1>4, <2>2, <2>3
<1>14. Commit => UNCHANGED <<turn, ids>> /\ pendingDecision' \in {pendingDecision, None}
  BY <1>2, CommitForm
<1>15. /\ Decides => UNCHANGED <<turn, ids>> /\ pendingDecision' \in {pendingDecision, None}
       /\ Restarts \/ Leaves => turn' = None /\ UNCHANGED ids /\ pendingDecision' \in {pendingDecision, None}
  BY DEF Decides, Restarts, Leaves
<1> QED  BY <1>1, <1>5, <1>6, <1>7, <1>8, <1>9, <1>10, <1>11, <1>12, <1>13, <1>14, <1>15 DEF TurnForm

LEMMA BaseInit ==
  ASSUME Init
  PROVE  Base
<1>1. TypeOK
  <2>1. <<>> \in Seq(Events) /\ <<>> \in Seq(Entries) /\ <<>> \in Seq(Nat)
    OBVIOUS
  <2>2. log \in Seq(Events) /\ queue \in Seq(Entries) /\ effects \in Seq(Nat) /\ boots \in Seq(Nat)
    BY <2>1 DEF Init
  <2>3. requests \in 0..MaxRequests
    BY RuntimeAssumption DEF Init
  <2> QED  BY <2>2, <2>3 DEF Init, TypeOK
<1>2. queue = <<>> /\ ~shown /\ turn = None /\ pendingDecision = None
  BY DEF Init
<1>3. DOMAIN queue = {}
  BY <1>2
<1>4. Owned
  BY <1>2, <1>3 DEF Owned
<1>5. Held
  BY <1>2 DEF Held
<1> QED  BY <1>1, <1>4, <1>5 DEF Base

(* The invariant that all others rest on: types, what each entry of the    *)
(* queue is and whose it is (Owned), where the Turn and the pending        *)
(* decision can be (Held).                                                 *)
THEOREM BaseHolds == Spec => []Base
<1>1. Init => Base
  BY BaseInit
<1>2. Base /\ [Next]_vars => Base'
  <2> SUFFICES ASSUME Base, [Next]_vars PROVE Base'
    OBVIOUS
  <2> QED  BY TypeNext, OwnedNext, HeldNext DEF Base
<1> QED  BY <1>1, <1>2, PTL DEF Spec

(* Every variable of the runtime has its type, whatever the user, the      *)
(* model, the store and crashes do.                                        *)
THEOREM TypeCorrect == Spec => []TypeOK
<1>1. Base => TypeOK
  BY DEF Base
<1> QED  BY <1>1, BaseHolds, PTL

-----------------------------------------------------------------------------
(* A tool runs once for a call, after its one dispatch record.             *)

BeforeDispatch == {"calling", "requesting", "waiting", "deaf"}

IsDispatch(event) == event.type = "tool/execution"

(* There is one record for a call, from when the Turn's dispatch has been  *)
(* committed on.                                                           *)
Dispatches ==
  /\ \A i, j \in DOMAIN log :
       IsDispatch(log[i]) /\ IsDispatch(log[j]) /\ log[i].id = log[j].id => i = j
  /\ \A i \in DOMAIN log : IsDispatch(log[i]) =>
       /\ log[i].what = "dispatched" /\ log[i].id \in 1..ids
       /\ turn # None /\ turn.call = log[i].id =>
            /\ turn.pc \notin BeforeDispatch
            /\ turn.pc = "dispatching" => TurnShown

Effects ==
  /\ \A m, n \in DOMAIN effects : effects[m] = effects[n] => m = n
  /\ \A n \in DOMAIN effects :
       /\ \E i \in DOMAIN log : IsDispatch(log[i]) /\ log[i].id = effects[n]
       /\ turn # None /\ turn.pc = "dispatching" => turn.call # effects[n]

(* Positions of a log that has grown.                                      *)
LEMMA Positions ==
  ASSUME TypeOK, NEW n, Grows(n)
  PROVE  /\ n \in Nat /\ Len(log) \in Nat
         /\ DOMAIN log = 1..Len(log) /\ DOMAIN log' = 1..Len(log) + n
         /\ queue[1].events \in Seq(Events) /\ 1..n \subseteq DOMAIN queue[1].events
         /\ \A i \in DOMAIN log' : \/ i \in DOMAIN log /\ log'[i] = log[i]
                                   \/ /\ i > Len(log) /\ i - Len(log) \in 1..n
                                      /\ log'[i] = queue[1].events[i - Len(log)]
         /\ \A i \in DOMAIN log : i \in DOMAIN log' /\ log'[i] = log[i] /\ i <= Len(log)
<1>1. queue[1] \in Entries /\ log \in Seq(Events) /\ Len(log) \in Nat
  BY DEF TypeOK, Grows, Queues
<1>2. queue[1].events \in Seq(Events)
  BY <1>1 DEF Entries
<1>3. n \in Nat /\ n <= Len(queue[1].events) /\ DOMAIN queue[1].events = 1..Len(queue[1].events)
  BY <1>2 DEF Grows
<1>4. DOMAIN log = 1..Len(log) /\ DOMAIN log' = 1..Len(log) + n
  BY <1>1 DEF Grows
<1>5. \A i \in DOMAIN log' : \/ i \in DOMAIN log /\ log'[i] = log[i]
                             \/ /\ i > Len(log) /\ i - Len(log) \in 1..n
                                /\ log'[i] = queue[1].events[i - Len(log)]
  <2> SUFFICES ASSUME NEW i \in 1..Len(log) + n, i > Len(log)
               PROVE  i - Len(log) \in 1..n /\ log'[i] = queue[1].events[i - Len(log)]
    BY <1>1, <1>3, <1>4 DEF Grows
  <2>1. i - Len(log) \in 1..n /\ Len(log) + (i - Len(log)) = i
    BY <1>1, <1>3
  <2> QED  BY <2>1 DEF Grows
<1> QED  BY <1>1, <1>2, <1>3, <1>4, <1>5 DEF Grows

(* The Turn's continuation stays due while it does not run.                *)
LEMMA StaysShown ==
  ASSUME TypeOK, TurnShown, queue # <<>>, (\E new : Slides(0, new)) \/ Serves
  PROVE  TurnShown'
<1>1. PICK new : Slides(0, new)
  BY DEF Serves, TurnShown, Slides
<1>2. shown' = shown /\ queue \in Queues /\ Len(queue) \in Nat
  BY <1>1 DEF Slides, TypeOK, Queues
<1>3. 1 \in 1..Len(queue) - 0
  BY <1>2 DEF Queues
<1>4. queue'[1] = queue[1 + 0]
  BY <1>1, <1>3 DEF Slides
<1> QED  BY <1>2, <1>4 DEF TurnShown

(* Only the Turn's own dispatch comes to the log as one.                   *)
LEMMA NewDispatch ==
  ASSUME Base, NEW n, Grows(n), NEW j \in 1..n, IsDispatch(queue[1].events[j])
  PROVE  /\ j = 1 /\ queue[1].then = "turn"
         /\ turn # None /\ turn.pc = "dispatching" /\ turn.call \in 1..ids
         /\ queue[1].events[j].what = "dispatched" /\ queue[1].events[j].id = turn.call
<1> DEFINE events == queue[1].events
<1>1. Proper(queue[1]) /\ j \in DOMAIN events
  BY Positions DEF Base, Owned, Grows
<1>2. ~(queue[1].then \in Replies /\ \A i \in DOMAIN events : events[i].type \in PlainTypes)
  BY <1>1 DEF IsDispatch, PlainTypes, CommandTypes
<1>3. ~(\E c \in 1..ids : events = <<About("tool/approval", c, queue[1].then)>>)
  <2> SUFFICES ASSUME NEW c \in 1..ids, events = <<About("tool/approval", c, queue[1].then)>>
               PROVE  FALSE
    OBVIOUS
  <2>1. j = 1 /\ events[1] = About("tool/approval", c, queue[1].then)
    BY <1>1
  <2> QED  BY <2>1 DEF IsDispatch, About, Event
<1>4. queue[1].then = "turn" /\ turn # None /\ Owes(turn, events)
  BY <1>1, <1>2, <1>3 DEF Proper, ProperOf
<1>5. Suits(turn, events[j])
  BY <1>1, <1>4 DEF Owes
<1>6. turn.pc = "dispatching" /\ events[j].id = turn.call /\ events[j].what = "dispatched"
  BY <1>5 DEF Suits, IsDispatch
<1>7. j = 1
  <2>1. Len(events) = 1 /\ events \in Seq(Events)
    BY <1>4, <1>6, Positions DEF Owes, Base
  <2> QED  BY <1>1, <2>1
<1>8. turn.call \in 1..ids
  BY <1>4, <1>6 DEF Base, TypeOK, TurnRecord, Held, InCall
<1> QED  BY <1>4, <1>6, <1>7, <1>8

(* The dispatch that has been committed is the end of the log.             *)
LEMMA ShownDispatch ==
  ASSUME Base, TurnShown, turn # None, turn.pc = "dispatching"
  PROVE  /\ Len(log) \in DOMAIN log /\ IsDispatch(log[Len(log)])
         /\ log[Len(log)].id = turn.call
<1> DEFINE events == queue[1].events
<1>1. queue \in Queues /\ queue # <<>> /\ HeadInLog /\ log \in Seq(Events)
  BY DEF Base, TypeOK, Owned, TurnShown, Queues
<1>2. 1 \in DOMAIN queue
  BY <1>1 DEF Queues
<1>3. Proper(queue[1])
  BY <1>2 DEF Base, Owned
<1>4. Owes(turn, events)
  BY <1>3 DEF TurnShown, Proper, ProperOf, Verdicts, Replies
<1>5. queue[1] \in Entries
  BY <1>1, <1>2 DEF Queues
<1>6. events \in Seq(Events)
  BY <1>5 DEF Entries
<1>7. Len(events) = 1 /\ events[1].type = "tool/execution"
  BY <1>4 DEF Owes
<1>8. 1 \in DOMAIN events
  BY <1>6, <1>7
<1>9. Suits(turn, events[1])
  BY <1>4, <1>8 DEF Owes
<1>10. events[1].id = turn.call
  BY <1>7, <1>9 DEF Suits
<1>11. 1 <= Len(log) /\ log[Len(log) - 1 + 1] = events[1]
  BY <1>1, <1>7, <1>8 DEF HeadInLog
<1>12. Len(log) - 1 + 1 = Len(log) /\ Len(log) \in DOMAIN log
  BY <1>1, <1>11
<1> QED  BY <1>7, <1>10, <1>11, <1>12 DEF IsDispatch

(* Where the Turn is after a step that leaves the log alone: nowhere       *)
(* before a dispatch, unless it was there for this call, or the call is    *)
(* new; and at the dispatch only from before it.                           *)
LEMMA TurnMoves ==
  ASSUME Base, Serves \/ Decides \/ TurnForm, turn' # None, turn'.call \in 1..ids
  PROVE  /\ turn # None /\ turn \in TurnRecord /\ turn.call = turn'.call
         /\ turn'.pc \in BeforeDispatch => turn.pc \in BeforeDispatch
         /\ turn'.pc = "dispatching" => \/ turn.pc \in BeforeDispatch
                                        \/ turn.pc = "dispatching" /\ (TurnShown => TurnShown')
<1>1. turn # None => turn \in TurnRecord
  BY DEF Base, TypeOK
<1>2. ids \in Nat
  BY DEF Base, TypeOK
<1>3. TurnShown => queue # <<>>
  BY DEF Base, Owned, TurnShown
<1>4. CASE Serves
  <2>1. TurnShown => TurnShown'
    BY <1>3, <1>4, StaysShown DEF Base
  <2>2. turn # None
    BY <1>4 DEF Serves
  <2>3. turn'.pc = turn.pc /\ turn'.call = turn.call
    BY <1>1, <1>4, <2>2 DEF Serves, TurnRecord
  <2> QED  BY <1>1, <2>1, <2>2, <2>3
<1>5. CASE Decides
  <2>1. turn' = turn /\ \E new : Slides(0, new)
    BY <1>5 DEF Decides
  <2>2. TurnShown => TurnShown'
    BY <1>3, <2>1, StaysShown DEF Base
  <2> QED  BY <1>1, <2>1, <2>2
<1>6. CASE Claims \/ Waiting \/ Executes \/ Requests \/ Dispatching
  <2>1. turn # None /\ turn \in TurnRecord
    BY <1>1, <1>6 DEF Claims, Waiting, Executes, Requests, Dispatching, Arrives
  <2>2. turn'.call = turn.call
        /\ \/ turn'.pc \in {"asking", "executing"}
           \/ turn.pc \in BeforeDispatch
    BY <1>6, <2>1 DEF Claims, Waiting, Executes, Requests, Dispatching, Arrives, Waits,
                      BeforeDispatch, TurnRecord
  <2> QED  BY <2>1, <2>2 DEF BeforeDispatch
<1>7. CASE Leaves
  BY <1>7 DEF Leaves
<1>8. ~Begins
  BY <1>2 DEF Begins, NewTurn
<1>9. ~MakesCall
  BY <1>2 DEF MakesCall
<1>10. CASE Advances
  BY <1>1, <1>10 DEF Advances, BeforeDispatch
<1> QED  BY <1>4, <1>5, <1>6, <1>7, <1>8, <1>9, <1>10 DEF TurnForm

LEMMA IdsGrow ==
  ASSUME Base, [Next]_vars
  PROVE  ids \in Nat /\ ids' \in Nat /\ 1..ids \subseteq 1..ids'
<1>1. ids \in Nat
  BY DEF Base, TypeOK
<1>2. ids' = ids \/ ids' = ids + 1
  <2>1. Commit \/ Restarts \/ Serves \/ Decides \/ TurnForm
    BY Steps
  <2>2. Commit => ids' = ids
    BY CommitForm DEF Base
  <2> QED  BY <2>1, <2>2 DEF Restarts, Serves, Decides, TurnForm, Claims, Waiting, Executes, Leaves,
                             Arrives, Begins, MakesCall, Requests, Dispatching, Advances
<1> QED  BY <1>1, <1>2

(* What a step does to the log.                                            *)
LEMMA LogSteps ==
  ASSUME Base, [Next]_vars
  PROVE  \/ log' = log /\ (Serves \/ Decides \/ TurnForm)
         \/ log' = log /\ Restarts
         \/ \E n : Grows(n) /\ (Restarts \/ (Commit /\ n = Len(queue[1].events)))
<1>1. Commit \/ Restarts \/ Serves \/ Decides \/ TurnForm
  BY Steps
<1>2. CASE Serves \/ Decides \/ TurnForm
  <2>1. log' = log
    BY <1>2, AlwaysSlides DEF Slides
  <2> QED  BY <1>2, <2>1
<1>3. CASE Restarts
  BY <1>3, RestartGrows DEF Base
<1>4. CASE Commit
  BY <1>4, CommitForm DEF Base
<1> QED  BY <1>1, <1>2, <1>3, <1>4

LEMMA DispatchesNext ==
  ASSUME Base, Dispatches, [Next]_vars
  PROVE  Dispatches'
<1>1. 1..ids \subseteq 1..ids'
  BY IdsGrow
<1>2. CASE log' = log /\ (Serves \/ Decides \/ TurnForm)
  <2>1. ASSUME NEW i \in DOMAIN log, IsDispatch(log[i]), turn' # None, turn'.call = log[i].id
        PROVE  /\ turn'.pc \notin BeforeDispatch
               /\ turn'.pc = "dispatching" => TurnShown'
    <3>1. log[i].id \in 1..ids
      BY <2>1 DEF Dispatches
    <3>2. /\ turn # None /\ turn.call = turn'.call
          /\ turn'.pc \in BeforeDispatch => turn.pc \in BeforeDispatch
          /\ turn'.pc = "dispatching" => \/ turn.pc \in BeforeDispatch
                                         \/ turn.pc = "dispatching" /\ (TurnShown => TurnShown')
      BY <1>2, <2>1, <3>1, TurnMoves
    <3> QED  BY <2>1, <3>2 DEF Dispatches
  <2> QED  BY <1>1, <1>2, <2>1 DEF Dispatches
<1>3. CASE log' = log /\ Restarts
  BY <1>1, <1>3 DEF Dispatches, Restarts
<1>4. ASSUME NEW n, Grows(n), Restarts \/ Commit
      PROVE  Dispatches'
  <2>1. /\ \A i \in DOMAIN log' : \/ i \in DOMAIN log /\ log'[i] = log[i]
                                  \/ /\ i > Len(log) /\ i - Len(log) \in 1..n
                                     /\ log'[i] = queue[1].events[i - Len(log)]
        /\ Len(log) \in Nat /\ n \in Nat /\ DOMAIN log' = 1..Len(log) + n
    BY <1>4, Positions DEF Base
  <2>2. ASSUME NEW i \in DOMAIN log', IsDispatch(log'[i])
        PROVE  \/ i \in DOMAIN log /\ log'[i] = log[i]
               \/ /\ i = Len(log) + 1 /\ queue[1].then = "turn"
                  /\ turn # None /\ turn.pc = "dispatching" /\ turn.call \in 1..ids
                  /\ log'[i].what = "dispatched" /\ log'[i].id = turn.call
    <3>1. CASE i \in DOMAIN log /\ log'[i] = log[i]
      BY <3>1
    <3>2. CASE i - Len(log) \in 1..n /\ log'[i] = queue[1].events[i - Len(log)]
      <4> DEFINE j == i - Len(log)
      <4>1. j \in 1..n /\ IsDispatch(queue[1].events[j])
        BY <2>2, <3>2
      <4>2. /\ j = 1 /\ queue[1].then = "turn"
            /\ turn # None /\ turn.pc = "dispatching" /\ turn.call \in 1..ids
            /\ queue[1].events[j].what = "dispatched" /\ queue[1].events[j].id = turn.call
        BY <1>4, <4>1, NewDispatch
      <4>3. i = Len(log) + 1
        BY <2>1, <4>2
      <4> QED  BY <3>2, <4>2, <4>3
    <3> QED  BY <2>1, <3>1, <3>2
  <2>3. ~shown
    BY <1>4 DEF Grows
  <2>4. ASSUME NEW i \in DOMAIN log, IsDispatch(log[i]), turn # None, turn.pc = "dispatching"
        PROVE  log[i].id # turn.call
    BY <2>3, <2>4 DEF Dispatches, TurnShown
  <2>5. ASSUME NEW i \in DOMAIN log', NEW j \in DOMAIN log',
               IsDispatch(log'[i]), IsDispatch(log'[j]), log'[i].id = log'[j].id
        PROVE  i = j
    BY <2>2, <2>4, <2>5 DEF Dispatches
  <2>6. ASSUME NEW i \in DOMAIN log', IsDispatch(log'[i])
        PROVE  log'[i].what = "dispatched" /\ log'[i].id \in 1..ids
    BY <2>2, <2>6 DEF Dispatches
  <2>7. CASE Restarts
    <3>1. turn' = None
      BY <2>7 DEF Restarts
    <3> QED  BY <1>1, <2>5, <2>6, <3>1 DEF Dispatches
  <2>8. CASE Commit
    <3>1. shown' = TRUE /\ turn' = turn /\ queue' = queue
      BY <2>8, CommitForm DEF Base
    <3>2. ASSUME NEW i \in DOMAIN log', IsDispatch(log'[i]), turn # None, turn.call = log'[i].id
          PROVE  turn.pc \notin BeforeDispatch /\ (turn.pc = "dispatching" => TurnShown')
      <4>1. CASE i \in DOMAIN log /\ log'[i] = log[i]
        BY <2>3, <3>2, <4>1 DEF Dispatches, TurnShown
      <4>2. CASE queue[1].then = "turn" /\ turn.pc = "dispatching"
        BY <3>1, <4>2 DEF TurnShown, BeforeDispatch
      <4> QED  BY <2>2, <3>2, <4>1, <4>2
    <3> QED  BY <1>1, <2>5, <2>6, <3>1, <3>2 DEF Dispatches
  <2> QED  BY <1>4, <2>7, <2>8
<1> QED  BY <1>2, <1>3, <1>4, LogSteps

LEMMA EffectsNext ==
  ASSUME Base, Dispatches, Effects, [Next]_vars
  PROVE  Effects'
<1>1. ASSUME NEW i \in DOMAIN log
      PROVE  i \in DOMAIN log' /\ log'[i] = log[i]
  BY LogSteps, Positions DEF Base
<1>2. effects \in Seq(Nat)
  BY DEF Base, TypeOK
<1>3. CASE Executes
  <2>1. /\ turn # None /\ TurnShown /\ turn.pc = "dispatching" /\ turn.call \in Nat
        /\ effects' = Append(effects, turn.call) /\ turn' = [turn EXCEPT !.pc = "executing"]
        /\ turn \in TurnRecord
    BY <1>3 DEF Executes, Arrives, Base, TypeOK, TurnRecord
  <2>2. Len(log) \in DOMAIN log /\ IsDispatch(log[Len(log)]) /\ log[Len(log)].id = turn.call
    BY <2>1, ShownDispatch
  <2>3. /\ DOMAIN effects' = 1..Len(effects) + 1 /\ effects'[Len(effects) + 1] = turn.call
        /\ DOMAIN effects = 1..Len(effects) /\ Len(effects) \in Nat
        /\ \A n \in 1..Len(effects) : effects'[n] = effects[n]
    BY <1>2, <2>1
  <2>4. \A n \in DOMAIN effects' : n \in DOMAIN effects \/ n = Len(effects) + 1
    BY <2>3
  <2>5. \A n \in DOMAIN effects : effects[n] # turn.call
    BY <2>1 DEF Effects
  <2>6. turn'.pc = "executing"
    BY <2>1 DEF TurnRecord
  <2>7. \A m, n \in DOMAIN effects' : effects'[m] = effects'[n] => m = n
    BY <2>3, <2>4, <2>5 DEF Effects
  <2>8. \A n \in DOMAIN effects' : \E i \in DOMAIN log : IsDispatch(log[i]) /\ log[i].id = effects'[n]
    BY <2>2, <2>3, <2>4 DEF Effects
  <2> QED  BY <1>1, <2>6, <2>7, <2>8 DEF Effects
<1>4. CASE effects' = effects /\ (Serves \/ Decides \/ TurnForm)
  <2>1. ASSUME NEW n \in DOMAIN effects, turn' # None, turn'.pc = "dispatching",
               turn'.call = effects[n]
        PROVE  FALSE
    <3>1. PICK i \in DOMAIN log : IsDispatch(log[i]) /\ log[i].id = effects[n]
      BY DEF Effects
    <3>2. turn'.call \in 1..ids
      BY <2>1, <3>1 DEF Dispatches
    <3>3. /\ turn # None /\ turn.call = turn'.call
          /\ turn.pc \in BeforeDispatch \/ turn.pc = "dispatching"
      BY <1>4, <2>1, <3>2, TurnMoves
    <3>4. turn.pc \notin BeforeDispatch
      BY <2>1, <3>1, <3>3 DEF Dispatches
    <3> QED  BY <2>1, <3>3, <3>4 DEF Effects
  <2> QED  BY <1>1, <1>4, <2>1 DEF Effects
<1>5. CASE Restarts
  BY <1>1, <1>5 DEF Effects, Restarts
<1>6. CASE Commit
  <2>1. effects' = effects /\ turn' = turn
    BY <1>6, CommitForm DEF Base
  <2> QED  BY <1>1, <2>1 DEF Effects
<1>7. Serves \/ Decides \/ TurnForm => Executes \/ effects' = effects
  BY DEF Serves, Decides, TurnForm, Claims, Waiting, Leaves, Begins, MakesCall, Requests,
         Dispatching, Advances
<1> QED  BY <1>3, <1>4, <1>5, <1>6, <1>7, Steps

(* The invariant on dispatch records and on the tools that were run.       *)
THEOREM DispatchesHold == Spec => [](Dispatches /\ Effects)
<1>1. Init => Dispatches /\ Effects
  <2> SUFFICES ASSUME Init PROVE Dispatches /\ Effects
    OBVIOUS
  <2>1. log = <<>> /\ effects = <<>>
    BY DEF Init
  <2>2. DOMAIN log = {} /\ DOMAIN effects = {}
    BY <2>1
  <2> QED  BY <2>2 DEF Dispatches, Effects
<1>2. Base /\ (Dispatches /\ Effects) /\ [Next]_vars => (Dispatches /\ Effects)'
  BY DispatchesNext, EffectsNext
<1> QED  BY <1>1, <1>2, BaseHolds, PTL DEF Spec

(* A tool runs at most once for a call, and only after the log holds       *)
(* exactly one dispatch of the call (processTool, executeTool), whatever   *)
(* is committed, refused or lost in a crash.                               *)
THEOREM RunsOnce == Spec => []DispatchedOnce
<1>1. TypeOK /\ Dispatches /\ Effects => DispatchedOnce
  <2> SUFFICES ASSUME TypeOK, Dispatches, Effects, NEW n \in DOMAIN effects
               PROVE  /\ \A m \in DOMAIN effects : effects[m] = effects[n] => m = n
                      /\ \E i \in DOMAIN log :
                           Records("tool/execution", effects[n], {"dispatched"}) = {i}
    BY DEF DispatchedOnce
  <2>1. PICK i \in DOMAIN log : IsDispatch(log[i]) /\ log[i].id = effects[n]
    BY DEF Effects
  <2>2. Records("tool/execution", effects[n], {"dispatched"}) = {i}
    BY <2>1 DEF Records, Places, Dispatches, IsDispatch
  <2> QED  BY <2>2 DEF Effects
<1>2. Base => TypeOK
  BY DEF Base
<1> QED  BY <1>1, <1>2, BaseHolds, DispatchesHold, PTL

-----------------------------------------------------------------------------
(* An approval is decided once.                                            *)

IsDecision(event) == event.type = "tool/approval" /\ event.what \in Verdicts

(* The call that a decision's entry is about.                              *)
Subject(entry) == entry.events[1].id

(* The k-th entry of the queue is not in the log.                          *)
Unseen(k) == k \in DOMAIN queue /\ (shown => k # 1)

(* The call will not be open to a decision any more.                       *)
ClosedFor(c, t, p, n) ==
  /\ c \in 1..n
  /\ c # p
  /\ t # None /\ t.call = c => t.pc \notin {"calling", "requesting"}

Closed(c) == ClosedFor(c, turn, pendingDecision, ids)

(* A call has one decision, in the log or on its way there.                *)
Decisions ==
  /\ \A i \in DOMAIN log : IsDecision(log[i]) => Closed(log[i].id)
  /\ \A i, j \in DOMAIN log :
       IsDecision(log[i]) /\ IsDecision(log[j]) /\ log[j].id = log[i].id => i = j
  /\ \A k \in DOMAIN queue : Unseen(k) /\ queue[k].then \in Verdicts =>
       /\ Closed(Subject(queue[k]))
       /\ \A i \in DOMAIN log : IsDecision(log[i]) => log[i].id # Subject(queue[k])
  /\ \A k, l \in DOMAIN queue :
       /\ Unseen(k) /\ queue[k].then \in Verdicts
       /\ Unseen(l) /\ queue[l].then \in Verdicts
       /\ Subject(queue[k]) = Subject(queue[l])
       => k = l

LEMMA ClosedNext ==
  ASSUME Base, [Next]_vars, NEW c, Closed(c)
  PROVE  ClosedFor(c, turn', pendingDecision', ids')
<1>1. Commit \/ Restarts \/ Serves \/ Decides \/ TurnForm
  BY Steps
<1>2. c \in 1..ids' /\ c \in 1..ids /\ c # pendingDecision /\ c # None
  BY IdsGrow, SentinelAssumption DEF Closed, ClosedFor
<1>3. c # pendingDecision'
  <2>1. CASE Waiting
    <3>1. turn # None /\ turn.pc = "requesting" /\ pendingDecision' \in {pendingDecision, turn.call}
      BY <2>1 DEF Waiting, Arrives
    <3>2. turn.call # c
      BY <3>1 DEF Closed, ClosedFor
    <3> QED  BY <1>2, <3>1, <3>2
  <2>2. Commit => pendingDecision' = pendingDecision
    BY CommitForm DEF Base
  <2>3. Waiting \/ pendingDecision' \in {pendingDecision, None}
    BY <1>1, <2>2 DEF Restarts, Serves, Decides, TurnForm, Claims, Executes, Leaves, Begins,
                      MakesCall, Requests, Dispatching, Advances
  <2> QED  BY <1>2, <2>1, <2>3
<1>4. ASSUME turn' # None, turn'.call = c, turn'.pc \in {"calling", "requesting"}
      PROVE  turn # None /\ turn.call = c /\ turn.pc \in {"calling", "requesting"}
  <2>1. turn # None => turn \in TurnRecord
    BY DEF Base, TypeOK
  <2>2. ids \in Nat
    BY DEF Base, TypeOK
  <2>3. CASE Serves
    <3>1. turn # None
      BY <1>4, <2>3 DEF Serves
    <3>2. turn'.pc = turn.pc /\ turn'.call = turn.call
      BY <2>1, <2>3, <3>1 DEF Serves, TurnRecord
    <3> QED  BY <1>4, <3>1, <3>2
  <2>4. CASE Decides \/ Commit
    <3>1. turn' = turn
      BY <2>4, CommitForm DEF Base, Decides
    <3> QED  BY <1>4, <3>1
  <2>5. CASE Restarts \/ Leaves
    BY <1>4, <2>5 DEF Restarts, Leaves
  <2>6. CASE Claims \/ Waiting \/ Executes \/ Requests \/ Dispatching
    <3>1. turn # None /\ turn \in TurnRecord
      BY <2>1, <2>6 DEF Claims, Waiting, Executes, Requests, Dispatching, Arrives
    <3>2. turn'.call = turn.call
          /\ \/ turn'.pc \in {"asking", "executing", "waiting", "deaf", "dispatching"}
             \/ turn.pc = "calling"
      BY <2>6, <3>1 DEF Claims, Waiting, Executes, Requests, Dispatching, Arrives, TurnRecord
    <3> QED  BY <1>4, <3>1, <3>2
  <2>7. ~Begins
    BY <1>4 DEF Begins, NewTurn
  <2>8. ~MakesCall
    BY <1>2, <1>4, <2>2 DEF MakesCall
  <2>9. ~Advances
    BY <1>4 DEF Advances
  <2> QED  BY <1>1, <2>3, <2>4, <2>5, <2>6, <2>7, <2>8, <2>9 DEF TurnForm
<1> QED  BY <1>2, <1>3, <1>4 DEF Closed, ClosedFor

(* What comes to the log as a decision is the head of the queue.           *)
LEMMA NewDecision ==
  ASSUME Base, NEW n, Grows(n), NEW j \in 1..n, IsDecision(queue[1].events[j])
  PROVE  /\ j = 1 /\ queue[1].then \in Verdicts /\ Unseen(1)
         /\ queue[1].events[j].id = Subject(queue[1])
         /\ queue[1].events[j].what = queue[1].then
<1> DEFINE events == queue[1].events
<1>1. Proper(queue[1]) /\ j \in DOMAIN events /\ 1 \in DOMAIN queue /\ ~shown
  BY Positions DEF Base, Owned, Grows
<1>2. ~(queue[1].then \in Replies /\ \A i \in DOMAIN events : events[i].type \in PlainTypes)
  BY <1>1 DEF IsDecision, PlainTypes, CommandTypes
<1>3. ~(turn # None /\ Owes(turn, events))
  <2>1. Suits(turn, events[j]) => events[j].what = "requested"
    BY DEF Suits, IsDecision
  <2> QED  BY <1>1, <2>1 DEF Owes, IsDecision, Verdicts
<1>4. queue[1].then \in Verdicts
  BY <1>1, <1>2, <1>3 DEF Proper, ProperOf
<1>5. PICK c \in 1..ids : events = <<About("tool/approval", c, queue[1].then)>>
  BY <1>1, <1>2, <1>3 DEF Proper, ProperOf
<1>6. j = 1 /\ events[1] = About("tool/approval", c, queue[1].then)
  BY <1>1, <1>5
<1>7. events[1].what = queue[1].then
  BY <1>6 DEF About, Event
<1> QED  BY <1>1, <1>4, <1>6, <1>7 DEF Unseen, Subject

(* Where entries of a kind that none of the new ones is of were before the *)
(* queue slid.                                                             *)
LEMMA SlidEntries ==
  ASSUME TypeOK, NEW d, NEW new, Slides(d, new), NEW P, \A k \in DOMAIN new : new[k] \notin P
  PROVE  \A k \in DOMAIN queue' : queue'[k] \in P =>
           /\ k + d \in DOMAIN queue /\ queue'[k] = queue[k + d]
           /\ Unseen(k)' => Unseen(k + d)
<1>1. /\ d \in {0, 1} /\ Len(queue) \in Nat /\ Len(new) \in Nat /\ d <= Len(queue)
      /\ DOMAIN queue = 1..Len(queue) /\ DOMAIN queue' = 1..Len(queue) - d + Len(new)
      /\ DOMAIN new = 1..Len(new)
  BY DEF Slides, Queues, TypeOK
<1> SUFFICES ASSUME NEW k \in DOMAIN queue', queue'[k] \in P
             PROVE  /\ k + d \in DOMAIN queue /\ queue'[k] = queue[k + d]
                    /\ Unseen(k)' => Unseen(k + d)
  OBVIOUS
<1>2. k \in 1..Len(queue) - d
  <2> SUFFICES ASSUME k > Len(queue) - d PROVE FALSE
    BY <1>1
  <2> DEFINE i == k - (Len(queue) - d)
  <2>1. i \in 1..Len(new) /\ Len(queue) - d + i = k
    BY <1>1
  <2>2. queue'[k] = new[i]
    BY <2>1 DEF Slides
  <2> QED  BY <1>1, <2>1, <2>2
<1>3. k + d \in DOMAIN queue
  BY <1>1, <1>2
<1>4. queue'[k] = queue[k + d]
  BY <1>2 DEF Slides
<1>5. Unseen(k)' => (shown => k + d # 1)
  <2>1. CASE d = 0
    BY <1>1, <2>1 DEF Slides, Unseen
  <2>2. CASE d = 1
    BY <1>1, <1>2, <2>2
  <2> QED  BY <1>1, <2>1, <2>2
<1> QED  BY <1>3, <1>4, <1>5 DEF Unseen

(* The decisions in the queue after it has slid.                           *)
LEMMA SlidDecisions ==
  ASSUME Base, Serves \/ TurnForm
  PROVE  \E d \in {0, 1} : \A k \in DOMAIN queue' :
           Unseen(k)' /\ queue'[k].then \in Verdicts =>
             k + d \in DOMAIN queue /\ Unseen(k + d) /\ queue'[k] = queue[k + d]
<1>1. PICK d, new : Slides(d, new) /\ \A k \in DOMAIN new : new[k].then \notin Verdicts
  <2>1. CASE Serves
    BY <2>1 DEF Serves, PlainEntry, Replies, Verdicts
  <2>2. CASE Claims \/ Waiting \/ Executes \/ Leaves
    <3> DEFINE new == <<>>
    <3>1. Slides(1, new) /\ DOMAIN new = {}
      BY <2>2 DEF Claims, Waiting, Executes, Leaves, Arrives
    <3> HIDE DEF new
    <3> QED  BY <3>1
  <2>3. CASE Begins \/ MakesCall \/ Requests \/ Dispatching \/ Advances
    <3>1. PICK d, events : Awaits(d, events)
      BY <2>3 DEF Begins, MakesCall, Requests, Dispatching, Advances
    <3>2. PICK new :
            /\ Slides(d, new)
            /\ Len(new) > 0 /\ new[Len(new)] = Entry(events, "turn")
            /\ \A k \in 1..Len(new) - 1 : PlainEntry(new[k])
      BY <3>1 DEF Awaits
    <3>3. new \in Seq(Entries)
      BY <3>2 DEF Slides
    <3>4. \A k \in DOMAIN new : k = Len(new) \/ k \in 1..Len(new) - 1
      BY <3>3
    <3>5. Entry(events, "turn").then \notin Verdicts
      BY DEF Entry, Verdicts
    <3>6. \A k \in DOMAIN new : new[k].then \notin Verdicts
      BY <3>2, <3>4, <3>5 DEF PlainEntry, Replies, Verdicts
    <3> QED  BY <3>2, <3>6
  <2> QED  BY <2>1, <2>2, <2>3 DEF TurnForm
<1> DEFINE P == { entry \in Entries : entry.then \in Verdicts }
<1>2. TypeOK /\ d \in {0, 1} /\ queue' \in Queues
  BY <1>1 DEF Slides, Base
<1>3. \A k \in DOMAIN queue' : queue'[k].then \in Verdicts => queue'[k] \in P
  BY <1>2 DEF Queues
<1>4. \A k \in DOMAIN new : new[k] \notin P
  BY <1>1
<1> HIDE DEF P
<1>5. \A k \in DOMAIN queue' : queue'[k] \in P =>
        /\ k + d \in DOMAIN queue /\ queue'[k] = queue[k + d]
        /\ Unseen(k)' => Unseen(k + d)
  BY <1>1, <1>2, <1>4, SlidEntries
<1> QED  BY <1>2, <1>3, <1>5
LEMMA DecisionsNext ==
  ASSUME Base, Decisions, [Next]_vars
  PROVE  Decisions'
<1>1. ASSUME NEW c, Closed(c)
      PROVE  ClosedFor(c, turn', pendingDecision', ids')
  BY <1>1, ClosedNext
<1>2. CASE log' = log /\ (Serves \/ TurnForm)
  <2>1. PICK d \in {0, 1} : \A k \in DOMAIN queue' :
          Unseen(k)' /\ queue'[k].then \in Verdicts =>
            k + d \in DOMAIN queue /\ Unseen(k + d) /\ queue'[k] = queue[k + d]
    BY <1>2, SlidDecisions
  <2>2. ASSUME NEW k \in DOMAIN queue', Unseen(k)', queue'[k].then \in Verdicts
        PROVE  /\ ClosedFor(Subject(queue'[k]), turn', pendingDecision', ids')
               /\ \A i \in DOMAIN log : IsDecision(log[i]) => log[i].id # Subject(queue'[k])
    <3>1. k + d \in DOMAIN queue /\ Unseen(k + d) /\ queue'[k] = queue[k + d]
      BY <2>1, <2>2
    <3>2. Closed(Subject(queue[k + d]))
      BY <2>2, <3>1 DEF Decisions
    <3> QED  BY <1>1, <2>2, <3>1, <3>2 DEF Decisions
  <2>3. ASSUME NEW k \in DOMAIN queue', NEW l \in DOMAIN queue',
               Unseen(k)', queue'[k].then \in Verdicts, Unseen(l)', queue'[l].then \in Verdicts,
               Subject(queue'[k]) = Subject(queue'[l])
        PROVE  k = l
    <3>1. k + d \in DOMAIN queue /\ Unseen(k + d) /\ queue'[k] = queue[k + d]
      BY <2>1, <2>3
    <3>2. l + d \in DOMAIN queue /\ Unseen(l + d) /\ queue'[l] = queue[l + d]
      BY <2>1, <2>3
    <3>3. k + d = l + d
      BY <2>3, <3>1, <3>2 DEF Decisions
    <3>4. k \in Nat /\ l \in Nat
      BY TypeNext DEF TypeOK
    <3> QED  BY <3>3, <3>4
  <2> QED  BY <1>1, <1>2, <2>2, <2>3 DEF Decisions, Closed
<1>3. CASE log' = log /\ Decides
  <2>1. PICK status \in Verdicts :
          Slides(0, <<Entry(<<About("tool/approval", pendingDecision, status)>>, status)>>)
    BY <1>3 DEF Decides
  <2> DEFINE entry == Entry(<<About("tool/approval", pendingDecision, status)>>, status)
             new == <<entry>>
             n == Len(queue)
  <2>2. pendingDecision # None /\ pendingDecision' = None /\ turn' = turn /\ ids' = ids
    BY <1>3 DEF Decides
  <2>3. Subject(entry) = pendingDecision
    BY DEF Subject, Entry, About, Event
  <2>4. Len(new) = 1 /\ new[1] = entry
    OBVIOUS
  <2> HIDE DEF entry, new
  <2>5. /\ n \in Nat /\ DOMAIN queue = 1..n /\ DOMAIN queue' = 1..n + 1
        /\ queue'[n + 1] = entry /\ \A k \in 1..n : queue'[k] = queue[k]
        /\ shown' = shown
    <3>1. Slides(0, new)
      BY <2>1 DEF new, entry
    <3>2. n \in Nat /\ DOMAIN queue = 1..n
      BY DEF Base, TypeOK
    <3>3. queue' \in Queues /\ Len(queue') = n - 0 + 1 /\ queue'[n - 0 + 1] = new[1]
          /\ \A k \in 1..n - 0 : queue'[k] = queue[k + 0]
      BY <2>4, <3>1 DEF Slides
    <3>4. DOMAIN queue' = 1..n + 1
      BY <3>2, <3>3 DEF Queues
    <3>5. shown' = shown
      BY <3>1 DEF Slides
    <3> QED  BY <2>4, <3>2, <3>3, <3>4, <3>5
  <2>6. ClosedFor(pendingDecision, turn', pendingDecision', ids')
    <3>1. pendingDecision \in 1..ids
          /\ (turn # None /\ turn.call = pendingDecision => turn.pc \notin {"calling", "requesting"})
      BY <2>2 DEF Base, Held
    <3> QED  BY <2>2, <3>1 DEF ClosedFor
  <2>7. \A c : Closed(c) => c # pendingDecision
    BY DEF Closed, ClosedFor
  <2>8. ASSUME NEW k \in DOMAIN queue', Unseen(k)', queue'[k].then \in Verdicts
        PROVE  \/ k = n + 1 /\ queue'[k] = entry
               \/ k \in DOMAIN queue /\ Unseen(k) /\ queue'[k] = queue[k] /\ queue[k].then \in Verdicts
    <3>1. k = n + 1 \/ k \in 1..n
      BY <2>5
    <3> QED  BY <2>5, <2>8, <3>1 DEF Unseen
  <2>9. ASSUME NEW k \in DOMAIN queue', Unseen(k)', queue'[k].then \in Verdicts
        PROVE  /\ ClosedFor(Subject(queue'[k]), turn', pendingDecision', ids')
               /\ \A i \in DOMAIN log : IsDecision(log[i]) => log[i].id # Subject(queue'[k])
    <3>1. CASE k = n + 1 /\ queue'[k] = entry
      BY <2>3, <2>6, <2>7, <3>1 DEF Decisions
    <3>2. CASE k \in DOMAIN queue /\ Unseen(k) /\ queue'[k] = queue[k] /\ queue[k].then \in Verdicts
      <4>1. Closed(Subject(queue[k]))
        BY <3>2 DEF Decisions
      <4> QED  BY <1>1, <3>2, <4>1 DEF Decisions
    <3> QED  BY <2>8, <2>9, <3>1, <3>2
  <2>10. ASSUME NEW k \in DOMAIN queue', NEW l \in DOMAIN queue',
                Unseen(k)', queue'[k].then \in Verdicts, Unseen(l)', queue'[l].then \in Verdicts,
                Subject(queue'[k]) = Subject(queue'[l])
         PROVE  k = l
    <3>1. ASSUME NEW i \in DOMAIN queue, Unseen(i), queue[i].then \in Verdicts
          PROVE  Subject(queue[i]) # pendingDecision
      BY <2>7, <3>1 DEF Decisions
    <3> QED  BY <2>3, <2>8, <2>10, <3>1 DEF Decisions
  <2> QED  BY <1>1, <1>3, <2>9, <2>10 DEF Decisions, Closed
<1>4. CASE log' = log /\ Restarts
  <2>1. DOMAIN queue' = {}
    BY <1>4 DEF Restarts
  <2> QED  BY <1>1, <1>4, <2>1 DEF Decisions, Closed
<1>5. ASSUME NEW n, Grows(n), Restarts \/ Commit
      PROVE  Decisions'
  <2>1. /\ \A i \in DOMAIN log' : \/ i \in DOMAIN log /\ log'[i] = log[i]
                                  \/ /\ i > Len(log) /\ i - Len(log) \in 1..n
                                     /\ log'[i] = queue[1].events[i - Len(log)]
        /\ Len(log) \in Nat /\ n \in Nat /\ DOMAIN log' = 1..Len(log) + n
    BY <1>5, Positions DEF Base
  <2>2. ASSUME NEW i \in DOMAIN log', IsDecision(log'[i])
        PROVE  \/ i \in DOMAIN log /\ log'[i] = log[i]
               \/ /\ i = Len(log) + 1 /\ queue[1].then \in Verdicts /\ Unseen(1)
                  /\ log'[i].id = Subject(queue[1])
    <3>1. CASE i \in DOMAIN log /\ log'[i] = log[i]
      BY <3>1
    <3>2. CASE i - Len(log) \in 1..n /\ log'[i] = queue[1].events[i - Len(log)]
      <4> DEFINE j == i - Len(log)
      <4>1. j \in 1..n /\ IsDecision(queue[1].events[j])
        BY <2>2, <3>2
      <4>2. j = 1 /\ queue[1].then \in Verdicts /\ Unseen(1)
            /\ queue[1].events[j].id = Subject(queue[1])
        BY <1>5, <4>1, NewDecision
      <4>3. i = Len(log) + 1
        BY <2>1, <4>2
      <4> QED  BY <3>2, <4>2, <4>3
    <3> QED  BY <2>1, <3>1, <3>2
  <2>3. 1 \in DOMAIN queue
    BY <1>5 DEF Grows
  <2>4. ASSUME NEW i \in DOMAIN log', IsDecision(log'[i])
        PROVE  ClosedFor(log'[i].id, turn', pendingDecision', ids')
    <3>1. Closed(log'[i].id)
      BY <2>2, <2>3, <2>4 DEF Decisions
    <3> QED  BY <1>1, <3>1
  <2>5. ASSUME NEW i \in DOMAIN log', NEW j \in DOMAIN log',
               IsDecision(log'[i]), IsDecision(log'[j]), log'[j].id = log'[i].id
        PROVE  i = j
    BY <2>2, <2>3, <2>5 DEF Decisions
  <2>6. CASE Restarts
    <3>1. DOMAIN queue' = {}
      BY <2>6 DEF Restarts
    <3> QED  BY <2>4, <2>5, <3>1 DEF Decisions, Closed
  <2>7. CASE Commit
    <3>1. shown' = TRUE /\ queue' = queue /\ ~shown
      BY <1>5, <2>7, CommitForm DEF Base, Grows
    <3>2. ASSUME NEW k \in DOMAIN queue', Unseen(k)', queue'[k].then \in Verdicts
          PROVE  /\ k # 1 /\ k \in DOMAIN queue /\ Unseen(k) /\ queue'[k] = queue[k]
                 /\ queue[k].then \in Verdicts
      BY <3>1, <3>2 DEF Unseen
    <3>3. ASSUME NEW k \in DOMAIN queue', Unseen(k)', queue'[k].then \in Verdicts
          PROVE  /\ ClosedFor(Subject(queue'[k]), turn', pendingDecision', ids')
                 /\ \A i \in DOMAIN log' : IsDecision(log'[i]) => log'[i].id # Subject(queue'[k])
      <4>1. /\ k # 1 /\ k \in DOMAIN queue /\ Unseen(k) /\ queue'[k] = queue[k]
            /\ queue[k].then \in Verdicts
        BY <3>2, <3>3
      <4>2. Closed(Subject(queue[k]))
        BY <4>1 DEF Decisions
      <4>3. queue[1].then \in Verdicts /\ Unseen(1) => Subject(queue[1]) # Subject(queue[k])
        BY <2>3, <4>1 DEF Decisions
      <4>4. \A i \in DOMAIN log : IsDecision(log[i]) => log[i].id # Subject(queue[k])
        BY <4>1 DEF Decisions
      <4> QED  BY <1>1, <2>2, <4>1, <4>2, <4>3, <4>4
    <3>4. ASSUME NEW k \in DOMAIN queue', NEW l \in DOMAIN queue',
                 Unseen(k)', queue'[k].then \in Verdicts, Unseen(l)', queue'[l].then \in Verdicts,
                 Subject(queue'[k]) = Subject(queue'[l])
          PROVE  k = l
      BY <3>2, <3>4 DEF Decisions
    <3> QED  BY <2>4, <2>5, <3>3, <3>4 DEF Decisions, Closed
  <2> QED  BY <1>5, <2>6, <2>7
<1> QED  BY <1>2, <1>3, <1>4, <1>5, LogSteps

(* The invariant on decisions, in the log or on their way there.           *)
THEOREM DecisionsHold == Spec => []Decisions
<1>1. Init => Decisions
  <2> SUFFICES ASSUME Init PROVE Decisions
    OBVIOUS
  <2>1. log = <<>> /\ queue = <<>>
    BY DEF Init
  <2>2. DOMAIN log = {} /\ DOMAIN queue = {}
    BY <2>1
  <2> QED  BY <2>2 DEF Decisions
<1>2. Base /\ Decisions /\ [Next]_vars => Decisions'
  BY DecisionsNext
<1> QED  BY <1>1, <1>2, BaseHolds, PTL DEF Spec

(* An approval is decided at most once in the log (approve, reject),       *)
(* however often the user decides, and whatever is refused or lost.        *)
THEOREM DecidesOnce == Spec => []DecidedOnce
<1>1. Decisions => DecidedOnce
  BY DEF Decisions, DecidedOnce, IsDecision, Places, Verdicts
<1> QED  BY <1>1, DecisionsHold, PTL

-----------------------------------------------------------------------------
(* No tool runs without an approval, or a mode that asks for none.         *)

IsCall(event)        == event.type = "tool/call"
IsCommandCall(event) == IsCall(event) /\ event.what = "command"
IsApproval(event)    == event.type = "tool/approval" /\ event.what = "approved"
IsRejection(event)   == event.type = "tool/approval" /\ event.what = "rejected"

(* ModeAt, of any log.                                                     *)
ModeIn(l, n) ==
  LET changes == { i \in DOMAIN l : l[i].type = "session/permission_changed" /\ i <= n }
  IN  IF changes = {} THEN "requestApproval"
      ELSE l[CHOOSE i \in changes : \A j \in changes : j <= i].what

(* Before the n-th event the user approved the call, or the mode did not   *)
(* ask for it.                                                             *)
Grounds(l, c, n) ==
  \A call \in DOMAIN l : IsCommandCall(l[call]) /\ l[call].id = c =>
    \/ \E i \in DOMAIN l : IsApproval(l[i]) /\ l[i].id = c /\ i < n
    \/ \E i \in call..(n - 1) : ModeIn(l, i) # "requestApproval"

Authorized(l, c) ==
  \E i \in DOMAIN l : IsDispatch(l[i]) /\ l[i].id = c /\ Grounds(l, c, i)

(* The call is not rejected, and will not be.                              *)
Unrejected(c, l, q, s) ==
  /\ \A i \in DOMAIN l : IsRejection(l[i]) => l[i].id # c
  /\ \A k \in DOMAIN q : (s => k # 1) /\ q[k].then = "rejected" => Subject(q[k]) # c

Cleared(c) == Closed(c) /\ Unrejected(c, log, queue, shown)

(* The one record of a call comes before the Turn acts on it.              *)
Calls ==
  \A i \in DOMAIN log : IsCall(log[i]) =>
    /\ log[i].id \in 1..ids
    /\ turn # None /\ turn.pc = "calling" /\ turn.call = log[i].id =>
         TurnShown /\ log[i].what = Head(turn.calls)

Authorisations ==
  /\ turn # None /\ turn.pc = "dispatching" =>
       /\ Cleared(turn.call)
       /\ TurnShown => Authorized(log, turn.call)
       /\ ~TurnShown => Grounds(log, turn.call, Len(log) + 1)
  /\ \A n \in DOMAIN effects : Cleared(effects[n]) /\ Authorized(log, effects[n])

(* One log continues another.                                              *)
Extends(l, m) ==
  /\ l \in Seq(Events) /\ m \in Seq(Events)
  /\ Len(l) <= Len(m)
  /\ \A i \in DOMAIN l : m[i] = l[i]

LEMMA ExtendsFacts ==
  ASSUME NEW l, NEW m, Extends(l, m)
  PROVE  /\ Len(l) \in Nat /\ Len(m) \in Nat /\ Len(l) <= Len(m)
         /\ DOMAIN l = 1..Len(l) /\ DOMAIN m = 1..Len(m)
         /\ \A i \in DOMAIN l : i \in DOMAIN m /\ i \in Nat /\ m[i] = l[i]
BY DEF Extends

LEMMA ModeKept ==
  ASSUME NEW l, NEW m, Extends(l, m), NEW n \in Nat, n <= Len(l)
  PROVE  ModeIn(m, n) = ModeIn(l, n)
<1> DEFINE S == { i \in DOMAIN l : l[i].type = "session/permission_changed" /\ i <= n }
           T == { i \in DOMAIN m : m[i].type = "session/permission_changed" /\ i <= n }
           last == CHOOSE i \in S : \A j \in S : j <= i
<1>1. S = T
  <2>1. \A i \in DOMAIN m : i <= n => i \in DOMAIN l
    BY ExtendsFacts
  <2> QED  BY <2>1, ExtendsFacts
<1>2. CASE S = {}
  BY <1>1, <1>2 DEF ModeIn
<1>3. CASE S # {}
  <2>1. S \subseteq Nat /\ \A i \in S : i <= n
    BY ExtendsFacts
  <2>2. \E i \in S : \A j \in S : j <= i
    <3> DEFINE D == { n - i : i \in S }
    <3>1. D \subseteq Nat /\ D # {}
      BY <1>3, <2>1
    <3>2. PICK d \in D : \A e \in D : d <= e
      <4> HIDE DEF D
      <4> QED  BY <3>1, LeastElement
    <3>3. PICK i \in S : d = n - i
      OBVIOUS
    <3>4. \A j \in S : n - j \in D
      OBVIOUS
    <3> HIDE DEF S, D
    <3>5. \A j \in S : j <= i
      <4> SUFFICES ASSUME NEW j \in S PROVE j <= i
        OBVIOUS
      <4>1. n - i <= n - j
        BY <3>2, <3>3, <3>4
      <4>2. i \in Nat /\ j \in Nat
        BY <2>1
      <4> QED  BY <4>1, <4>2
    <3> QED  BY <3>5
  <2>3. last \in S
    <3> HIDE DEF S
    <3> QED  BY <2>2
  <2>4. m[last] = l[last]
    <3>1. last \in DOMAIN l
      BY <2>3
    <3> HIDE DEF last
    <3> QED  BY <3>1, ExtendsFacts
  <2>5. ModeIn(l, n) = l[last].what
    BY <1>3 DEF ModeIn
  <2>6. ModeIn(m, n) = m[last].what
    <3>1. ModeIn(m, n) = IF T = {} THEN "requestApproval"
                         ELSE m[CHOOSE i \in T : \A j \in T : j <= i].what
      BY DEF ModeIn
    <3> HIDE DEF S, T
    <3> QED  BY <1>1, <1>3, <3>1
  <2> QED  BY <2>4, <2>5, <2>6
<1> QED  BY <1>2, <1>3

LEMMA GroundsKept ==
  ASSUME NEW l, NEW m, Extends(l, m), NEW c, NEW n \in Nat, n <= Len(l) + 1,
         NEW k \in Nat, n <= k,
         \A i \in DOMAIN m : i \notin DOMAIN l => ~(IsCall(m[i]) /\ m[i].id = c),
         Grounds(l, c, n)
  PROVE  Grounds(m, c, k)
<1> SUFFICES ASSUME NEW call \in DOMAIN m, IsCommandCall(m[call]), m[call].id = c
             PROVE  \/ \E i \in DOMAIN m : IsApproval(m[i]) /\ m[i].id = c /\ i < k
                    \/ \E i \in call..(k - 1) : ModeIn(m, i) # "requestApproval"
  BY DEF Grounds
<1>1. call \in DOMAIN l /\ m[call] = l[call] /\ call \in Nat
  BY ExtendsFacts DEF IsCommandCall
<1>2. CASE \E i \in DOMAIN l : IsApproval(l[i]) /\ l[i].id = c /\ i < n
  <2>1. PICK i \in DOMAIN l : IsApproval(l[i]) /\ l[i].id = c /\ i < n
    BY <1>2
  <2>2. i \in DOMAIN m /\ i \in Nat /\ m[i] = l[i]
    BY ExtendsFacts
  <2>3. i < k
    BY <2>1, <2>2
  <2> QED  BY <2>1, <2>2, <2>3
<1>3. CASE \E i \in call..(n - 1) : ModeIn(l, i) # "requestApproval"
  <2>1. PICK i \in call..(n - 1) : ModeIn(l, i) # "requestApproval"
    BY <1>3
  <2>2. i \in Nat /\ i <= Len(l) /\ i \in call..(k - 1)
    BY <1>1, ExtendsFacts
  <2>3. ModeIn(m, i) = ModeIn(l, i)
    BY <2>2, ModeKept
  <2> QED  BY <2>1, <2>2, <2>3
<1> QED  BY <1>1, <1>2, <1>3 DEF Grounds

(* Every step continues the log.                                           *)
LEMMA LogExtends ==
  ASSUME Base, [Next]_vars
  PROVE  Extends(log, log')
<1>1. log \in Seq(Events) /\ log' \in Seq(Events)
  BY TypeNext DEF Base, TypeOK
<1>2. CASE log' = log
  BY <1>1, <1>2 DEF Extends
<1>3. ASSUME NEW n, Grows(n)
      PROVE  Extends(log, log')
  <2>1. n \in Nat /\ Len(log') = Len(log) + n /\ Len(log) \in Nat
    BY <1>1, <1>3, Positions DEF Base, Grows
  <2>2. \A i \in DOMAIN log : log'[i] = log[i]
    BY <1>3, Positions DEF Base
  <2> QED  BY <1>1, <2>1, <2>2 DEF Extends
<1> QED  BY <1>2, <1>3, LogSteps

(* The record of a call comes from the Turn that makes it.                 *)
LEMMA NewCall ==
  ASSUME Base, NEW n, Grows(n), NEW j \in 1..n, IsCall(queue[1].events[j])
  PROVE  /\ queue[1].then = "turn" /\ turn # None /\ turn.pc = "calling"
         /\ turn.call \in 1..ids /\ queue[1].events[j].id = turn.call
         /\ queue[1].events[j].what = Head(turn.calls)
<1> DEFINE events == queue[1].events
<1>1. Proper(queue[1]) /\ j \in DOMAIN events
  BY Positions DEF Base, Owned, Grows
<1>2. ~(queue[1].then \in Replies /\ \A i \in DOMAIN events : events[i].type \in PlainTypes)
  BY <1>1 DEF IsCall, PlainTypes, CommandTypes
<1>3. ~(\E c \in 1..ids : events = <<About("tool/approval", c, queue[1].then)>>)
  <2> SUFFICES ASSUME NEW c \in 1..ids, events = <<About("tool/approval", c, queue[1].then)>>
               PROVE  FALSE
    OBVIOUS
  <2>1. j = 1 /\ events[1] = About("tool/approval", c, queue[1].then)
    BY <1>1
  <2> QED  BY <2>1 DEF IsCall, About, Event
<1>4. queue[1].then = "turn" /\ turn # None /\ Owes(turn, events)
  BY <1>1, <1>2, <1>3 DEF Proper, ProperOf
<1>5. Suits(turn, events[j])
  BY <1>1, <1>4 DEF Owes
<1>6. turn.pc = "calling" /\ events[j].id = turn.call /\ events[j].what = Head(turn.calls)
  BY <1>5 DEF Suits, IsCall
<1>7. turn.call \in 1..ids
  BY <1>4, <1>6 DEF Base, TypeOK, TurnRecord, Held, InCall
<1> QED  BY <1>4, <1>6, <1>7

(* A Turn that awaits a call's record after a step did so before, or the   *)
(* call is new.                                                            *)
LEMMA StaysCalling ==
  ASSUME Base, Serves \/ Decides \/ TurnForm, turn' # None, turn'.pc = "calling",
         turn'.call \in 1..ids
  PROVE  /\ turn # None /\ turn.pc = "calling" /\ turn'.call = turn.call
         /\ turn'.calls = turn.calls /\ (TurnShown => TurnShown')
<1>1. turn # None => turn \in TurnRecord
  BY DEF Base, TypeOK
<1>2. ids \in Nat
  BY DEF Base, TypeOK
<1>3. TurnShown => queue # <<>>
  BY DEF Base, Owned, TurnShown
<1>4. CASE Serves
  <2>1. TurnShown => TurnShown'
    BY <1>3, <1>4, StaysShown DEF Base
  <2>2. turn # None
    BY <1>4 DEF Serves
  <2>3. turn'.pc = turn.pc /\ turn'.call = turn.call /\ turn'.calls = turn.calls
    BY <1>1, <1>4, <2>2 DEF Serves, TurnRecord
  <2> QED  BY <2>1, <2>2, <2>3
<1>5. CASE Decides
  <2>1. turn' = turn /\ \E new : Slides(0, new)
    BY <1>5 DEF Decides
  <2>2. TurnShown => TurnShown'
    BY <1>3, <2>1, StaysShown DEF Base
  <2> QED  BY <2>1, <2>2
<1>6. ~(Claims \/ Waiting \/ Executes \/ Requests \/ Dispatching)
  <2> SUFFICES ASSUME Claims \/ Waiting \/ Executes \/ Requests \/ Dispatching
               PROVE  FALSE
    OBVIOUS
  <2>1. turn # None /\ turn \in TurnRecord
    BY <1>1 DEF Claims, Waiting, Executes, Requests, Dispatching, Arrives
  <2>2. turn'.pc \in {"asking", "waiting", "deaf", "executing", "requesting", "dispatching"}
    BY <2>1 DEF Claims, Waiting, Executes, Requests, Dispatching, Arrives, TurnRecord
  <2> QED  BY <2>2
<1>7. ~(Leaves \/ Begins \/ Advances)
  BY DEF Leaves, Begins, NewTurn, Advances
<1>8. ~MakesCall
  BY <1>2 DEF MakesCall
<1> QED  BY <1>4, <1>5, <1>6, <1>7, <1>8 DEF TurnForm

LEMMA CallsNext ==
  ASSUME Base, Calls, [Next]_vars
  PROVE  Calls'
<1>1. 1..ids \subseteq 1..ids'
  BY IdsGrow
<1>2. CASE log' = log /\ (Serves \/ Decides \/ TurnForm)
  <2>1. ASSUME NEW i \in DOMAIN log, IsCall(log[i]), turn' # None, turn'.pc = "calling",
               turn'.call = log[i].id
        PROVE  TurnShown' /\ log[i].what = Head(turn'.calls)
    <3>1. log[i].id \in 1..ids
      BY <2>1 DEF Calls
    <3>2. /\ turn # None /\ turn.pc = "calling" /\ turn'.call = turn.call
          /\ turn'.calls = turn.calls /\ (TurnShown => TurnShown')
      BY <1>2, <2>1, <3>1, StaysCalling
    <3> QED  BY <2>1, <3>2 DEF Calls
  <2> QED  BY <1>1, <1>2, <2>1 DEF Calls
<1>3. CASE log' = log /\ Restarts
  BY <1>1, <1>3 DEF Calls, Restarts
<1>4. ASSUME NEW n, Grows(n), Restarts \/ Commit
      PROVE  Calls'
  <2>1. ASSUME NEW i \in DOMAIN log', IsCall(log'[i])
        PROVE  /\ log'[i].id \in 1..ids
               /\ \/ i \in DOMAIN log /\ log'[i] = log[i]
                  \/ queue[1].then = "turn" /\ log'[i].what = Head(turn.calls)
    <3>1. CASE i \in DOMAIN log /\ log'[i] = log[i]
      BY <2>1, <3>1 DEF Calls
    <3>2. CASE i - Len(log) \in 1..n /\ log'[i] = queue[1].events[i - Len(log)]
      <4> DEFINE j == i - Len(log)
      <4>1. j \in 1..n /\ IsCall(queue[1].events[j])
        BY <2>1, <3>2
      <4>2. /\ queue[1].then = "turn" /\ turn.call \in 1..ids
            /\ queue[1].events[j].id = turn.call /\ queue[1].events[j].what = Head(turn.calls)
        BY <1>4, <4>1, NewCall
      <4> QED  BY <3>2, <4>2
    <3> QED  BY <1>4, <2>1, <3>1, <3>2, Positions DEF Base
  <2>2. ~shown
    BY <1>4 DEF Grows
  <2>3. CASE Restarts
    <3>1. turn' = None
      BY <2>3 DEF Restarts
    <3> QED  BY <1>1, <2>1, <3>1 DEF Calls
  <2>4. CASE Commit
    <3>1. shown' = TRUE /\ turn' = turn /\ queue' = queue
      BY <2>4, CommitForm DEF Base
    <3>2. ASSUME NEW i \in DOMAIN log', IsCall(log'[i]), turn # None, turn.pc = "calling",
                 turn.call = log'[i].id
          PROVE  TurnShown' /\ log'[i].what = Head(turn.calls)
      <4>1. ~(i \in DOMAIN log /\ log'[i] = log[i])
        BY <2>2, <3>2 DEF Calls, TurnShown
      <4> QED  BY <2>1, <3>1, <3>2, <4>1 DEF TurnShown
    <3> QED  BY <1>1, <2>1, <3>1, <3>2 DEF Calls
  <2> QED  BY <1>4, <2>3, <2>4
<1> QED  BY <1>2, <1>3, <1>4, LogSteps

(* A call that is not waited for is rejected by nothing new.               *)
LEMMA UnrejectedNext ==
  ASSUME Base, [Next]_vars, NEW c, c # pendingDecision, Unrejected(c, log, queue, shown)
  PROVE  Unrejected(c, log', queue', shown')
<1>1. /\ \A i \in DOMAIN log : IsRejection(log[i]) => log[i].id # c
      /\ \A k \in DOMAIN queue : Unseen(k) /\ queue[k].then = "rejected" => Subject(queue[k]) # c
  BY DEF Unrejected, Unseen
<1>2. CASE log' = log /\ (Serves \/ TurnForm)
  <2>1. PICK d \in {0, 1} : \A k \in DOMAIN queue' :
          Unseen(k)' /\ queue'[k].then \in Verdicts =>
            k + d \in DOMAIN queue /\ Unseen(k + d) /\ queue'[k] = queue[k + d]
    BY <1>2, SlidDecisions
  <2>2. ASSUME NEW k \in DOMAIN queue', shown' => k # 1, queue'[k].then = "rejected"
        PROVE  Subject(queue'[k]) # c
    <3>1. Unseen(k)' /\ queue'[k].then \in Verdicts
      BY <2>2 DEF Unseen, Verdicts
    <3>2. k + d \in DOMAIN queue /\ Unseen(k + d) /\ queue'[k] = queue[k + d]
      BY <2>1, <3>1
    <3> QED  BY <1>1, <2>2, <3>2
  <2> QED  BY <1>1, <1>2, <2>2 DEF Unrejected
<1>3. CASE log' = log /\ Decides
  <2>1. PICK status \in Verdicts :
          Slides(0, <<Entry(<<About("tool/approval", pendingDecision, status)>>, status)>>)
    BY <1>3 DEF Decides
  <2> DEFINE entry == Entry(<<About("tool/approval", pendingDecision, status)>>, status)
             new == <<entry>>
             n == Len(queue)
  <2>2. Subject(entry) = pendingDecision
    BY DEF Subject, Entry, About, Event
  <2>3. c # pendingDecision
    OBVIOUS
  <2>4. Len(new) = 1 /\ new[1] = entry
    OBVIOUS
  <2> HIDE DEF entry, new
  <2>5. Slides(0, new)
    BY <2>1 DEF new, entry
  <2>6. n \in Nat /\ DOMAIN queue = 1..n
    BY DEF Base, TypeOK
  <2>7. /\ queue' \in Queues /\ Len(queue') = n - 0 + 1 /\ queue'[n - 0 + 1] = new[1]
        /\ \A k \in 1..n - 0 : queue'[k] = queue[k + 0]
        /\ shown' = shown
    BY <2>4, <2>5 DEF Slides
  <2>8. DOMAIN queue' = 1..n + 1
    BY <2>6, <2>7 DEF Queues
  <2>9. ASSUME NEW k \in DOMAIN queue', shown' => k # 1, queue'[k].then = "rejected"
        PROVE  Subject(queue'[k]) # c
    <3>1. CASE k \in 1..n
      BY <1>1, <2>6, <2>7, <2>9, <3>1 DEF Unseen
    <3>2. CASE k = n + 1
      BY <2>2, <2>3, <2>4, <2>6, <2>7, <3>2
    <3> QED  BY <2>6, <2>8, <3>1, <3>2
  <2> QED  BY <1>1, <1>3, <2>9 DEF Unrejected
<1>4. CASE log' = log /\ Restarts
  <2>1. DOMAIN queue' = {}
    BY <1>4 DEF Restarts
  <2> QED  BY <1>1, <1>4, <2>1 DEF Unrejected
<1>5. ASSUME NEW n, Grows(n), Restarts \/ Commit
      PROVE  Unrejected(c, log', queue', shown')
  <2>1. ASSUME NEW i \in DOMAIN log', IsRejection(log'[i])
        PROVE  log'[i].id # c
    <3>1. CASE i \in DOMAIN log /\ log'[i] = log[i]
      BY <1>1, <2>1, <3>1
    <3>2. CASE i - Len(log) \in 1..n /\ log'[i] = queue[1].events[i - Len(log)]
      <4> DEFINE j == i - Len(log)
      <4>1. j \in 1..n /\ IsDecision(queue[1].events[j]) /\ queue[1].events[j].what = "rejected"
        BY <2>1, <3>2 DEF IsDecision, IsRejection, Verdicts
      <4>2. queue[1].then = "rejected" /\ Unseen(1) /\ queue[1].events[j].id = Subject(queue[1])
        BY <1>5, <4>1, NewDecision
      <4>3. 1 \in DOMAIN queue
        BY <1>5 DEF Grows
      <4> QED  BY <1>1, <3>2, <4>2, <4>3
    <3> QED  BY <1>5, <2>1, <3>1, <3>2, Positions DEF Base
  <2>2. CASE Restarts
    <3>1. DOMAIN queue' = {}
      BY <2>2 DEF Restarts
    <3> QED  BY <2>1, <3>1 DEF Unrejected
  <2>3. CASE Commit
    <3>1. shown' = TRUE /\ queue' = queue /\ ~shown
      BY <1>5, <2>3, CommitForm DEF Base, Grows
    <3> QED  BY <1>1, <2>1, <3>1 DEF Unrejected, Unseen
  <2> QED  BY <1>5, <2>2, <2>3
<1> QED  BY <1>2, <1>3, <1>4, <1>5, LogSteps

LEMMA ClearedNext ==
  ASSUME Base, [Next]_vars, NEW c, Cleared(c)
  PROVE  ClosedFor(c, turn', pendingDecision', ids') /\ Unrejected(c, log', queue', shown')
<1>1. c # pendingDecision
  BY DEF Cleared, Closed, ClosedFor
<1> QED  BY <1>1, ClosedNext, UnrejectedNext DEF Cleared

LEMMA PermissionModeIs ==
  ASSUME log \in Seq(Events)
  PROVE  PermissionMode = ModeIn(log, Len(log)) /\ \A n : ModeAt(n) = ModeIn(log, n)
<1> DEFINE type == "session/permission_changed"
           Upto(n) == { i \in DOMAIN log : log[i].type = type /\ i <= n }
           Mode(S) == IF S = {} THEN "requestApproval"
                      ELSE log[CHOOSE i \in S : \A j \in S : j <= i].what
<1>1. Places({type}) = Upto(Len(log))
  BY DEF Places
<1>2. \A n : { i \in Places({type}) : i <= n } = Upto(n)
  BY DEF Places
<1>3. PermissionMode = Mode(Places({type}))
  BY DEF PermissionMode, LastOf
<1>4. \A n : ModeIn(log, n) = Mode(Upto(n))
  BY DEF ModeIn
<1>5. \A n : ModeAt(n) = Mode({ i \in Places({type}) : i <= n })
  BY DEF ModeAt
<1> HIDE DEF type, Upto, Mode
<1>6. \A n : ModeAt(n) = ModeIn(log, n)
  <2> TAKE n
  <2>1. { i \in Places({type}) : i <= n } = Upto(n)
    BY <1>2
  <2>2. ModeAt(n) = Mode(Upto(n))
    BY <1>5, <2>1
  <2> QED  BY <1>4, <2>2
<1> QED  BY <1>1, <1>3, <1>4, <1>6

(* A call that has been made is not made again.                            *)
LEMMA NoNewCall ==
  ASSUME Base, [Next]_vars, NEW c, turn # None /\ turn.call = c => turn.pc # "calling"
  PROVE  \A i \in DOMAIN log' : i \notin DOMAIN log => ~(IsCall(log'[i]) /\ log'[i].id = c)
<1> SUFFICES ASSUME NEW i \in DOMAIN log', i \notin DOMAIN log, IsCall(log'[i]), log'[i].id = c
             PROVE  FALSE
  OBVIOUS
<1>1. PICK n : Grows(n)
  BY LogSteps
<1>2. i - Len(log) \in 1..n /\ log'[i] = queue[1].events[i - Len(log)]
  BY <1>1, Positions DEF Base
<1> DEFINE j == i - Len(log)
<1>3. j \in 1..n /\ IsCall(queue[1].events[j])
  BY <1>2
<1>4. turn # None /\ turn.pc = "calling" /\ queue[1].events[j].id = turn.call
  BY <1>1, <1>3, NewCall
<1> QED  BY <1>2, <1>4

LEMMA AuthorizedKept ==
  ASSUME Base, Dispatches, [Next]_vars, NEW c, Authorized(log, c)
  PROVE  Authorized(log', c)
<1>1. PICK i \in DOMAIN log : IsDispatch(log[i]) /\ log[i].id = c /\ Grounds(log, c, i)
  BY DEF Authorized
<1>2. turn # None /\ turn.call = c => turn.pc # "calling"
  BY <1>1 DEF Dispatches, BeforeDispatch
<1>3. \A k \in DOMAIN log' : k \notin DOMAIN log => ~(IsCall(log'[k]) /\ log'[k].id = c)
  BY <1>2, NoNewCall
<1>4. Extends(log, log')
  BY LogExtends
<1>5. /\ i \in Nat /\ i <= Len(log) + 1 /\ i <= i
      /\ i \in DOMAIN log' /\ log'[i] = log[i]
  BY <1>4, ExtendsFacts
<1>6. Grounds(log', c, i)
  BY <1>1, <1>3, <1>4, <1>5, GroundsKept
<1> QED  BY <1>1, <1>5, <1>6 DEF Authorized

(* What a dispatch stands on.                                              *)
LEMMA DispatchGrounds ==
  ASSUME Base, Decisions, Calls, Dispatching
  PROVE  /\ turn.call \in 1..ids /\ turn.call # pendingDecision
         /\ Unrejected(turn.call, log, queue, shown)
         /\ Grounds(log, turn.call, Len(log) + 1)
<1> DEFINE c == turn.call
<1>1. turn # None /\ turn \in TurnRecord /\ shown /\ log \in Seq(Events) /\ Len(log) \in Nat
  BY DEF Dispatching, Base, TypeOK
<1>2. c \in Nat /\ ids \in Nat
  BY <1>1 DEF Base, TypeOK, TurnRecord
<1>3. CASE turn.pc = "calling" /\ (Head(turn.calls) = "command" => PermissionMode # "requestApproval")
  <2>1. c \in 1..ids
    BY <1>1, <1>2, <1>3 DEF Base, Held, InCall
  <2>2. c # pendingDecision
    BY <1>1, <1>2, <1>3, SentinelAssumption DEF Base, Held
  <2>3. ~Closed(c)
    BY <1>1, <1>3 DEF Closed, ClosedFor
  <2>4. Unrejected(c, log, queue, shown)
    <3>1. \A i \in DOMAIN log : IsRejection(log[i]) => log[i].id # c
      BY <2>3 DEF Decisions, IsDecision, IsRejection, Verdicts
    <3>2. \A k \in DOMAIN queue : Unseen(k) /\ queue[k].then = "rejected" => Subject(queue[k]) # c
      BY <2>3 DEF Decisions, Verdicts
    <3> QED  BY <3>1, <3>2 DEF Unrejected, Unseen
  <2>5. Grounds(log, c, Len(log) + 1)
    <3> SUFFICES ASSUME NEW call \in DOMAIN log, IsCommandCall(log[call]), log[call].id = c
                 PROVE  \E i \in call..(Len(log) + 1 - 1) : ModeIn(log, i) # "requestApproval"
      BY DEF Grounds
    <3>1. Head(turn.calls) = "command"
      BY <1>1, <1>3 DEF Calls, IsCommandCall
    <3>2. ModeIn(log, Len(log)) # "requestApproval"
      BY <1>1, <1>3, <3>1, PermissionModeIs
    <3>3. Len(log) \in call..(Len(log) + 1 - 1)
      BY <1>1
    <3> QED  BY <3>2, <3>3
  <2> QED  BY <2>1, <2>2, <2>4, <2>5
<1>4. CASE queue[1].then = "approved" /\ queue[1].events[1].id = c
  <2>1. queue # <<>> /\ queue \in Queues /\ HeadInLog
    BY <1>1 DEF Base, Owned, TypeOK, Queues
  <2>2. 1 \in DOMAIN queue
    BY <2>1 DEF Queues
  <2>3. Proper(queue[1])
    BY <2>2 DEF Base, Owned
  <2>4. PICK b \in 1..ids : queue[1].events = <<About("tool/approval", b, "approved")>>
    BY <1>4, <2>3 DEF Proper, ProperOf, Replies
  <2>5. /\ Len(queue[1].events) = 1 /\ 1 \in DOMAIN queue[1].events
        /\ queue[1].events[1] = About("tool/approval", b, "approved")
    BY <2>4
  <2>6. 1 <= Len(log) /\ log[Len(log) - 1 + 1] = About("tool/approval", b, "approved")
    BY <2>1, <2>5 DEF HeadInLog
  <2> DEFINE last == Len(log)
  <2>7. last \in DOMAIN log /\ log[last] = About("tool/approval", b, "approved") /\ last < last + 1
    BY <1>1, <2>6
  <2>8. /\ log[last].type = "tool/approval" /\ log[last].what = "approved" /\ log[last].id = b
        /\ b = c
    BY <1>4, <2>5, <2>7 DEF About, Event
  <2>9. IsApproval(log[last]) /\ IsDecision(log[last])
    BY <2>8 DEF IsApproval, IsDecision, Verdicts
  <2> HIDE DEF last
  <2>10. Closed(c)
    BY <2>7, <2>8, <2>9 DEF Decisions
  <2>11. Unrejected(c, log, queue, shown)
    <3>1. \A i \in DOMAIN log : IsRejection(log[i]) => log[i].id # c
      BY <2>7, <2>8, <2>9 DEF Decisions, IsDecision, IsRejection, Verdicts
    <3>2. \A k \in DOMAIN queue : Unseen(k) /\ queue[k].then = "rejected" => Subject(queue[k]) # c
      BY <2>7, <2>8, <2>9 DEF Decisions, Verdicts
    <3> QED  BY <3>1, <3>2 DEF Unrejected, Unseen
  <2>12. Grounds(log, c, Len(log) + 1)
    BY <2>7, <2>8, <2>9 DEF Grounds, last
  <2> QED  BY <2>10, <2>11, <2>12 DEF Closed, ClosedFor
<1> QED  BY <1>3, <1>4 DEF Dispatching

(* A step that slides the queue does not show the Turn's entry.            *)
LEMMA NotShownYet ==
  ASSUME TypeOK, NEW d, NEW new, Slides(d, new), shown => queue # <<>>, TurnShown'
  PROVE  TurnShown /\ d = 0
<1>1. d = 0 /\ shown
  BY DEF Slides, TurnShown
<1>2. Len(queue) \in Nat /\ Len(queue) > 0
  BY <1>1 DEF TypeOK
<1>3. 1 \in 1..Len(queue) - 0
  BY <1>2
<1>4. queue'[1] = queue[1 + 0]
  BY <1>1, <1>3 DEF Slides
<1> QED  BY <1>1, <1>4 DEF TurnShown

(* Whose dispatch is on its way after a step that leaves the log alone.    *)
LEMMA StaysDispatching ==
  ASSUME Base, Serves \/ Decides \/ TurnForm, turn' # None, turn'.pc = "dispatching"
  PROVE  /\ turn # None /\ turn'.call = turn.call
         /\ \/ turn.pc = "dispatching" /\ (TurnShown' <=> TurnShown)
            \/ Dispatching /\ ~TurnShown'
<1>1. turn # None => turn \in TurnRecord
  BY DEF Base, TypeOK
<1>2. TypeOK /\ (shown => queue # <<>>)
  BY DEF Base, Owned
<1>3. TurnShown => queue # <<>>
  BY <1>2 DEF TurnShown
<1>4. CASE Serves \/ Decides
  <2>1. PICK d, new : Slides(d, new) /\ (d = 0 \/ Serves)
    BY <1>4 DEF Serves, Decides
  <2>2. TurnShown' => TurnShown
    BY <1>2, <2>1, NotShownYet
  <2>3. TurnShown => TurnShown'
    BY <1>2, <1>3, <2>1, StaysShown
  <2>4. turn # None
    BY <1>4 DEF Serves, Decides
  <2>5. turn'.pc = turn.pc /\ turn'.call = turn.call
    BY <1>1, <1>4, <2>4 DEF Serves, Decides, TurnRecord
  <2> QED  BY <2>2, <2>3, <2>4, <2>5
<1>5. CASE Dispatching
  <2>1. turn # None /\ turn'.call = turn.call
    BY <1>1, <1>5 DEF Dispatching, TurnRecord
  <2>2. \E new : Slides(1, new)
    BY <1>5 DEF Dispatching, Awaits
  <2>3. ~TurnShown'
    BY <2>2 DEF Slides, TurnShown
  <2> QED  BY <1>5, <2>1, <2>3
<1>6. ~(Claims \/ Waiting \/ Executes \/ Requests)
  <2> SUFFICES ASSUME Claims \/ Waiting \/ Executes \/ Requests
               PROVE  FALSE
    OBVIOUS
  <2>1. turn # None /\ turn \in TurnRecord
    BY <1>1 DEF Claims, Waiting, Executes, Requests, Arrives
  <2>2. turn'.pc \in {"asking", "waiting", "deaf", "executing", "requesting"}
    BY <2>1 DEF Claims, Waiting, Executes, Requests, Arrives, TurnRecord
  <2> QED  BY <2>2
<1>7. ~(Leaves \/ Begins \/ MakesCall \/ Advances)
  BY DEF Leaves, Begins, NewTurn, MakesCall, Advances
<1> QED  BY <1>4, <1>5, <1>6, <1>7 DEF TurnForm

(* The dispatch that is committed, once it is.                             *)
LEMMA DispatchAt ==
  ASSUME Base, Grows(Len(queue[1].events)), queue[1].then = "turn", turn # None,
         turn.pc = "dispatching"
  PROVE  /\ Len(log) + 1 \in DOMAIN log' /\ IsDispatch(log'[Len(log) + 1])
         /\ log'[Len(log) + 1].id = turn.call
<1> DEFINE events == queue[1].events
<1>1. 1 \in DOMAIN queue /\ events \in Seq(Events) /\ Len(log) \in Nat
      /\ DOMAIN log' = 1..Len(log) + Len(events)
  BY Positions DEF Base, Grows
<1>2. Proper(queue[1])
  BY <1>1 DEF Base, Owned
<1>3. Owes(turn, events)
  BY <1>2 DEF Proper, ProperOf, Verdicts, Replies
<1>4. Len(events) = 1 /\ events[1].type = "tool/execution"
  BY <1>3 DEF Owes
<1>5. 1 \in DOMAIN events /\ 1 \in 1..Len(events)
  BY <1>1, <1>4
<1>6. events[1].id = turn.call
  BY <1>3, <1>4, <1>5 DEF Owes, Suits
<1>7. log'[Len(log) + 1] = events[1]
  BY <1>5 DEF Grows
<1>8. Len(log) + 1 \in DOMAIN log'
  BY <1>1, <1>4
<1> QED  BY <1>4, <1>6, <1>7, <1>8 DEF IsDispatch

LEMMA AuthorisationsNext ==
  ASSUME Base, Dispatches, Effects, Decisions, Calls, Authorisations, [Next]_vars
  PROVE  Authorisations'
<1>1. ASSUME NEW c, Cleared(c)
      PROVE  ClosedFor(c, turn', pendingDecision', ids') /\ Unrejected(c, log', queue', shown')
  BY <1>1, ClearedNext
<1>2. ASSUME NEW c, Authorized(log, c)
      PROVE  Authorized(log', c)
  BY <1>2, AuthorizedKept
<1>3. Extends(log, log')
  BY LogExtends
<1>4. Len(log) \in Nat /\ Len(log') \in Nat /\ Len(log) <= Len(log')
  BY <1>3, ExtendsFacts
<1>5. ASSUME turn' # None, turn'.pc = "dispatching"
      PROVE  LET c == turn'.call IN
             /\ ClosedFor(c, turn', pendingDecision', ids') /\ Unrejected(c, log', queue', shown')
             /\ TurnShown' => Authorized(log', c)
             /\ ~TurnShown' => Grounds(log', c, Len(log') + 1)
  <2> DEFINE c == turn'.call
  <2>1. CASE log' = log /\ (Serves \/ Decides \/ TurnForm)
    <3>1. /\ turn # None /\ c = turn.call
          /\ \/ turn.pc = "dispatching" /\ (TurnShown' <=> TurnShown)
             \/ Dispatching /\ ~TurnShown'
      BY <1>5, <2>1, StaysDispatching
    <3>2. CASE turn.pc = "dispatching" /\ (TurnShown' <=> TurnShown)
      <4>1. /\ Cleared(c)
            /\ TurnShown => Authorized(log, c)
            /\ ~TurnShown => Grounds(log, c, Len(log) + 1)
        BY <3>1, <3>2 DEF Authorisations
      <4> QED  BY <1>1, <2>1, <3>2, <4>1
    <3>3. CASE Dispatching /\ ~TurnShown'
      <4>1. /\ c \in 1..ids /\ c # pendingDecision
            /\ Unrejected(c, log, queue, shown)
            /\ Grounds(log, c, Len(log) + 1)
        BY <3>1, <3>3, DispatchGrounds
      <4>2. Unrejected(c, log', queue', shown')
        BY <4>1, UnrejectedNext
      <4>3. ids' = ids /\ pendingDecision' = pendingDecision
        BY <3>3 DEF Dispatching
      <4>4. ClosedFor(c, turn', pendingDecision', ids')
        BY <1>5, <4>1, <4>3 DEF ClosedFor
      <4> QED  BY <2>1, <3>3, <4>1, <4>2, <4>4
    <3> QED  BY <3>1, <3>2, <3>3
  <2>2. CASE Restarts
    BY <1>5, <2>2 DEF Restarts
  <2>3. CASE Commit
    <3>1. /\ Grows(Len(queue[1].events)) /\ shown' = TRUE
          /\ queue' = queue /\ turn' = turn
      BY <2>3, CommitForm DEF Base
    <3>2. ~shown
      BY <3>1 DEF Grows
    <3>3. ~TurnShown
      BY <3>2 DEF TurnShown
    <3>4. Cleared(c) /\ Grounds(log, c, Len(log) + 1)
      BY <1>5, <3>1, <3>3 DEF Authorisations
    <3>5. \A i \in DOMAIN log' : i \notin DOMAIN log => ~(IsCall(log'[i]) /\ log'[i].id = c)
      BY <1>5, <3>1, NoNewCall
    <3>6. ASSUME TurnShown'
          PROVE  Authorized(log', c)
      <4>1. queue[1].then = "turn"
        BY <3>1, <3>6 DEF TurnShown
      <4>2. /\ Len(log) + 1 \in DOMAIN log' /\ IsDispatch(log'[Len(log) + 1])
            /\ log'[Len(log) + 1].id = c
        BY <1>5, <3>1, <4>1, DispatchAt
      <4>3. Grounds(log', c, Len(log) + 1)
        <5>1. Len(log) + 1 \in Nat /\ Len(log) + 1 <= Len(log) + 1
          BY <1>4
        <5> QED  BY <1>3, <3>4, <3>5, <5>1, GroundsKept
      <4> QED  BY <4>2, <4>3 DEF Authorized
    <3>7. Grounds(log', c, Len(log') + 1)
      <4>1. Len(log) + 1 \in Nat /\ Len(log) + 1 <= Len(log) + 1 /\ Len(log') + 1 \in Nat
            /\ Len(log) + 1 <= Len(log') + 1
        BY <1>4
      <4> QED  BY <1>3, <3>4, <3>5, <4>1, GroundsKept
    <3> QED  BY <1>1, <3>4, <3>6, <3>7
  <2> QED  BY <2>1, <2>2, <2>3, LogSteps
<1>6. ASSUME NEW n \in DOMAIN effects'
      PROVE  /\ ClosedFor(effects'[n], turn', pendingDecision', ids')
             /\ Unrejected(effects'[n], log', queue', shown')
             /\ Authorized(log', effects'[n])
  <2>1. CASE effects' = effects
    BY <1>1, <1>2, <1>6, <2>1 DEF Authorisations
  <2>2. CASE Executes
    <3>1. /\ turn # None /\ TurnShown /\ turn.pc = "dispatching"
          /\ effects' = Append(effects, turn.call) /\ effects \in Seq(Nat)
      BY <2>2 DEF Executes, Arrives, Base, TypeOK
    <3>2. turn.call \in Nat
      BY <3>1 DEF Base, TypeOK, TurnRecord
    <3>3. (n \in DOMAIN effects /\ effects'[n] = effects[n]) \/ effects'[n] = turn.call
      BY <1>6, <3>1, <3>2
    <3>4. Cleared(turn.call) /\ Authorized(log, turn.call)
      BY <3>1 DEF Authorisations
    <3>5. Cleared(effects'[n]) /\ Authorized(log, effects'[n])
      BY <3>3, <3>4 DEF Authorisations
    <3> QED  BY <1>1, <1>2, <3>5
  <2>3. Executes \/ effects' = effects
    <3>1. Commit => effects' = effects
      BY CommitForm DEF Base
    <3> QED  BY <3>1, Steps DEF Restarts, Serves, Decides, TurnForm, Claims, Waiting, Leaves,
                Begins, MakesCall, Requests, Dispatching, Advances
  <2> QED  BY <2>1, <2>2, <2>3
<1> QED  BY <1>5, <1>6 DEF Authorisations, Cleared, Closed

(* The invariant that the records of the calls, and what their dispatches  *)
(* stand on, make together with those before it.                           *)
THEOREM AuthorisationsHold == Spec => [](Calls /\ Authorisations)
<1>1. Init => Calls /\ Authorisations
  <2> SUFFICES ASSUME Init PROVE Calls /\ Authorisations
    OBVIOUS
  <2>1. log = <<>> /\ effects = <<>> /\ turn = None
    BY DEF Init
  <2>2. DOMAIN log = {} /\ DOMAIN effects = {}
    BY <2>1
  <2> QED  BY <2>1, <2>2 DEF Calls, Authorisations
<1>2. Base /\ (Dispatches /\ Effects) /\ Decisions /\ (Calls /\ Authorisations) /\ [Next]_vars
        => (Calls /\ Authorisations)'
  BY CallsNext, AuthorisationsNext
<1> QED  BY <1>1, <1>2, BaseHolds, DispatchesHold, DecisionsHold, PTL DEF Spec

(* A command that changes anything runs only when the log holds, before    *)
(* its dispatch, the user's approval of this call, or the permission mode  *)
(* asked for none at some moment since the call was made; and never after  *)
(* a rejection (processTool, approve, reject).                             *)
THEOREM RunsAuthorized == Spec => []EffectsAuthorized
<1>1. Base /\ Dispatches /\ Authorisations => EffectsAuthorized
  <2> SUFFICES ASSUME Base, Dispatches, Authorisations,
                      NEW n \in DOMAIN effects,
                      NEW call \in Records("tool/call", effects[n], {"command"})
               PROVE  \E dispatch \in Records("tool/execution", effects[n], {"dispatched"}) :
                        /\ Records("tool/approval", effects[n], {"rejected"}) = {}
                        /\ \/ \E i \in Records("tool/approval", effects[n], {"approved"}) : i < dispatch
                           \/ \E i \in call..(dispatch - 1) : ModeAt(i) # "requestApproval"
    BY DEF EffectsAuthorized
  <2> DEFINE c == effects[n]
  <2>1. call \in DOMAIN log /\ IsCommandCall(log[call]) /\ log[call].id = c
    BY DEF Records, Places, IsCommandCall, IsCall
  <2>2. PICK dispatch \in DOMAIN log :
          IsDispatch(log[dispatch]) /\ log[dispatch].id = c /\ Grounds(log, c, dispatch)
    BY DEF Authorisations, Authorized
  <2>3. dispatch \in Records("tool/execution", c, {"dispatched"})
    BY <2>2 DEF Records, Places, Dispatches, IsDispatch
  <2>4. Records("tool/approval", c, {"rejected"}) = {}
    BY DEF Records, Places, Authorisations, Cleared, Unrejected, IsRejection
  <2>5. CASE \E i \in DOMAIN log : IsApproval(log[i]) /\ log[i].id = c /\ i < dispatch
    <3>1. PICK i \in DOMAIN log : IsApproval(log[i]) /\ log[i].id = c /\ i < dispatch
      BY <2>5
    <3>2. i \in Records("tool/approval", c, {"approved"})
      BY <3>1 DEF Records, Places, IsApproval
    <3> QED  BY <2>3, <2>4, <3>1, <3>2
  <2>6. CASE \E i \in call..(dispatch - 1) : ModeIn(log, i) # "requestApproval"
    <3>1. \E i \in call..(dispatch - 1) : ModeAt(i) # "requestApproval"
      BY <2>6, PermissionModeIs DEF Base, TypeOK
    <3> QED  BY <2>3, <2>4, <3>1
  <2> QED  BY <2>1, <2>2, <2>5, <2>6 DEF Grounds
<1> QED  BY <1>1, BaseHolds, DispatchesHold, AuthorisationsHold, PTL
-----------------------------------------------------------------------------
(* No tool runs for a Turn after the Session has been ended under it.      *)

Live == turn # None /\ ~turn.aborted /\ turn.pc \notin Quitting

IsEnd(event) == event.type = "session/ended"

(* In the queue, whatever ends the Session comes before the Turn's entry.  *)
EndsFirst ==
  \A k, l \in DOMAIN queue : Ends(queue[k]) /\ queue[l].then = "turn" => k < l

NothingEnds == \A k \in DOMAIN queue : Unseen(k) => ~Ends(queue[k])

(* A Turn was started in l after the Session was last ended.               *)
StartsLast(l) ==
  \E s \in DOMAIN l : l[s].type = "turn/start" /\ \A i \in DOMAIN l : IsEnd(l[i]) => i < s

RunsBeforeEnd(l, c) ==
  \A d \in DOMAIN l : IsDispatch(l[d]) /\ l[d].id = c =>
    \A e \in DOMAIN l : IsEnd(l[e]) /\ e < d =>
      \E s \in DOMAIN l : l[s].type = "turn/start" /\ e < s /\ s < d

(* Nobody ends the Session under a Turn but by aborting it first.          *)
Endings ==
  /\ Live /\ ~turn.turnOpen /\ ~TurnShown => EndsFirst
  /\ Live /\ (turn.turnOpen \/ TurnShown) => NothingEnds /\ StartsLast(log)
  /\ \A n \in DOMAIN effects : RunsBeforeEnd(log, effects[n])

(* What is appended while the Turn stays live does not end the Session.    *)
LEMMA NoNewEnds ==
  ASSUME Base, Serves \/ Decides \/ TurnForm, Live'
  PROVE  \E d, new :
           /\ Slides(d, new)
           /\ \A k \in DOMAIN new : ~Ends(new[k])
           /\ Serves \/ Decides => \A k \in DOMAIN new : new[k].then # "turn"
<1>1. turn' # None /\ ~turn'.aborted /\ turn'.pc \notin Quitting
  BY DEF Live
<1>2. CASE Serves
  BY <1>1, <1>2 DEF Serves, PlainEntry, Replies
<1>3. CASE Decides
  <2>1. PICK status \in Verdicts :
          Slides(0, <<Entry(<<About("tool/approval", pendingDecision, status)>>, status)>>)
    BY <1>3 DEF Decides
  <2> DEFINE event == About("tool/approval", pendingDecision, status)
             entry == Entry(<<event>>, status)
             new == <<entry>>
  <2>2. DOMAIN new = {1} /\ new[1] = entry
    OBVIOUS
  <2>3. ~Ends(entry) /\ entry.then # "turn"
    <3>1. entry.events = <<event>> /\ entry.then = status /\ event.type = "tool/approval"
      BY DEF Entry, About, Event
    <3>2. DOMAIN <<event>> = {1} /\ <<event>>[1] = event
      OBVIOUS
    <3> QED  BY <3>1, <3>2 DEF Ends, Verdicts
  <2>4. Slides(0, new)
    BY <2>1
  <2> HIDE DEF new, entry, event
  <2> QED  BY <2>2, <2>3, <2>4
<1>4. CASE TurnForm /\ ~(Serves \/ Decides)
  <2>1. CASE Claims \/ Waiting \/ Executes
    <3> DEFINE new == <<>>
    <3>1. Slides(1, new) /\ DOMAIN new = {}
      BY <2>1 DEF Claims, Waiting, Executes, Arrives
    <3> HIDE DEF new
    <3> QED  BY <1>4, <3>1
  <2>2. CASE Begins \/ MakesCall \/ Requests \/ Dispatching \/ Advances
    <3>1. PICK d, events : Awaits(d, events)
      BY <2>2 DEF Begins, MakesCall, Requests, Dispatching, Advances
    <3>2. PICK new :
            /\ Slides(d, new)
            /\ Len(new) > 0 /\ new[Len(new)] = Entry(events, "turn")
            /\ \A k \in 1..Len(new) - 1 : Ends(new[k]) => turn'.aborted
      BY <3>1 DEF Awaits
    <3>3. new \in Seq(Entries)
      BY <3>2 DEF Slides
    <3>4. \A k \in DOMAIN new : k = Len(new) \/ k \in 1..Len(new) - 1
      BY <3>3
    <3>5. Owes(turn', events)
      BY <3>1 DEF Awaits
    <3>6. ~Ends(Entry(events, "turn"))
      BY <1>1, <3>5 DEF Ends, Entry, Owes, Suits
    <3> QED  BY <1>1, <1>4, <3>2, <3>4, <3>6
  <2>3. ~Leaves
    BY <1>1 DEF Leaves
  <2> QED  BY <1>4, <2>1, <2>2, <2>3 DEF TurnForm
<1> QED  BY <1>2, <1>3, <1>4

(* A Turn that is live after a step was so before, or begins.              *)
LEMMA StaysLive ==
  ASSUME Base, Serves \/ Decides \/ TurnForm, Live', ~Begins
  PROVE  /\ Live
         /\ \/ (Serves \/ Decides) /\ turn'.turnOpen = turn.turnOpen
            \/ TurnForm /\ turn'.turnOpen /\ (turn.turnOpen \/ TurnShown)
<1>1. turn # None => turn \in TurnRecord
  BY DEF Base, TypeOK
<1>2. turn' # None /\ ~turn'.aborted /\ turn'.pc \notin Quitting
  BY DEF Live
<1>3. CASE Serves \/ Decides
  <2>1. turn # None
    BY <1>2, <1>3 DEF Serves, Decides
  <2>2. /\ turn'.pc = turn.pc /\ turn'.turnOpen = turn.turnOpen
        /\ turn.aborted \in BOOLEAN /\ (turn.aborted => turn'.aborted)
    BY <1>1, <1>3, <2>1 DEF Serves, Decides, TurnRecord
  <2> QED  BY <1>2, <1>3, <2>1, <2>2 DEF Live
<1>4. CASE Claims \/ Waiting \/ Executes \/ Requests \/ Dispatching
  <2>1. turn # None /\ turn \in TurnRecord
    BY <1>1, <1>4 DEF Claims, Waiting, Executes, Requests, Dispatching, Arrives
  <2>2. turn.pc \in {"claiming", "requesting", "dispatching", "calling", "waiting", "deaf"}
    BY <1>4 DEF Claims, Waiting, Executes, Requests, Dispatching, Arrives, Waits
  <2>3. turn.pc = "claiming" \/ turn.turnOpen
    BY <2>1, <2>2 DEF Base, Held, Quitting
  <2>4. turn.pc = "claiming" => Claims /\ TurnShown
    BY <1>4 DEF Claims, Waiting, Executes, Requests, Dispatching, Arrives, Waits
  <2>5. turn'.aborted = turn.aborted
        /\ turn'.turnOpen = (IF turn.pc = "claiming" THEN TRUE ELSE turn.turnOpen)
    BY <1>4, <2>1, <2>4 DEF Claims, Waiting, Executes, Requests, Dispatching, Arrives, Waits, TurnRecord
  <2>6. Live
    BY <1>2, <2>1, <2>2, <2>5 DEF Live, Quitting
  <2> QED  BY <1>4, <2>3, <2>4, <2>5, <2>6 DEF TurnForm
<1>5. CASE MakesCall \/ Advances
  <2>1. turn # None /\ turn'.turnOpen = turn.turnOpen /\ turn'.turnOpen /\ turn.pc \notin Quitting
        /\ (turn.aborted => turn'.aborted)
    BY <1>2, <1>5 DEF MakesCall, Advances, Quitting
  <2> QED  BY <1>2, <1>5, <2>1 DEF Live, TurnForm
<1>6. ~Leaves
  BY <1>2 DEF Leaves
<1> QED  BY <1>3, <1>4, <1>5, <1>6 DEF TurnForm

(* What ends the Session was in the queue before, in the same order.       *)
LEMMA SlidEnds ==
  ASSUME Base, Serves \/ Decides \/ TurnForm, Live', ~Begins
  PROVE  /\ NothingEnds => NothingEnds'
         /\ Serves \/ Decides => /\ TurnShown' => TurnShown
                                 /\ EndsFirst => EndsFirst'
<1>1. PICK d, new :
        /\ Slides(d, new)
        /\ \A k \in DOMAIN new : ~Ends(new[k])
        /\ Serves \/ Decides => \A k \in DOMAIN new : new[k].then # "turn"
  BY NoNewEnds
<1>2. TypeOK /\ (shown => queue # <<>>) /\ queue' \in Seq(Entries)
  BY <1>1 DEF Base, Owned, Slides, Queues
<1>3. NothingEnds => NothingEnds'
  <2> SUFFICES ASSUME NothingEnds, NEW k \in DOMAIN queue', Unseen(k)'
               PROVE  ~Ends(queue'[k])
    BY DEF NothingEnds, Ends
  <2> DEFINE P == { entry \in Entries : Ends(entry) }
  <2>1. queue'[k] \in Entries
    BY <1>2
  <2>2. \A i \in DOMAIN new : new[i] \notin P
    BY <1>1
  <2>3. \A entry \in P : Ends(entry)
    OBVIOUS
  <2>4. Ends(queue'[k]) => queue'[k] \in P
    BY <2>1
  <2> HIDE DEF P
  <2>5. queue'[k] \in P => /\ k + d \in DOMAIN queue /\ queue'[k] = queue[k + d]
                           /\ Unseen(k)' => Unseen(k + d)
    BY <1>1, <1>2, <2>2, SlidEntries
  <2>6. queue'[k] \notin P
    BY <2>3, <2>5 DEF NothingEnds
  <2> QED  BY <2>4, <2>6
<1>4. ASSUME Serves \/ Decides
      PROVE  (TurnShown' => TurnShown) /\ (EndsFirst => EndsFirst')
  <2>1. TurnShown' => TurnShown
    BY <1>1, <1>2, NotShownYet
  <2>2. ASSUME EndsFirst, NEW k \in DOMAIN queue', NEW l \in DOMAIN queue',
               Ends(queue'[k]), queue'[l].then = "turn"
        PROVE  k < l
    <3> DEFINE P == { entry \in Entries : Ends(entry) \/ entry.then = "turn" }
    <3>1. queue'[k] \in P /\ queue'[l] \in P
      BY <1>2, <2>2
    <3>2. \A i \in DOMAIN new : new[i] \notin P
      BY <1>1, <1>4
    <3> HIDE DEF P
    <3>3. k + d \in DOMAIN queue /\ queue'[k] = queue[k + d]
      BY <1>1, <1>2, <3>1, <3>2, SlidEntries
    <3>4. l + d \in DOMAIN queue /\ queue'[l] = queue[l + d]
      BY <1>1, <1>2, <3>1, <3>2, SlidEntries
    <3>5. k + d < l + d
      BY <2>2, <3>3, <3>4 DEF EndsFirst
    <3>6. k \in Nat /\ l \in Nat /\ d \in {0, 1}
      BY <1>1, <1>2 DEF Slides
    <3> QED  BY <3>5, <3>6
  <2> QED  BY <2>1, <2>2 DEF EndsFirst, Ends
<1> QED  BY <1>3, <1>4

(* The Turn that begins comes last in the queue.                           *)
LEMMA BeginsLast ==
  ASSUME Base, Begins
  PROVE  /\ turn' # None /\ ~turn'.turnOpen /\ ~TurnShown'
         /\ EndsFirst'
<1>1. turn' = NewTurn(ids + 1)
  BY DEF Begins
<1>2. PICK d, events : Awaits(d, events)
  BY DEF Begins
<1>3. PICK new :
        /\ Slides(d, new)
        /\ Len(new) > 0 /\ new[Len(new)] = Entry(events, "turn")
        /\ \A k \in 1..Len(new) - 1 : PlainEntry(new[k])
  BY <1>2 DEF Awaits
<1>4. /\ turn' \in TurnRecord /\ turn'.pc = "claiming" /\ ~turn'.turnOpen /\ turn' # None
  BY <1>1, <1>2, SentinelAssumption DEF Awaits, NewTurn
<1>5. \A k \in DOMAIN queue : k > d => queue[k].then # "turn"
  BY <1>2 DEF Awaits
<1>6. TypeOK /\ (shown => queue # <<>>)
  BY DEF Base, Owned
<1>7. ~TurnShown'
  <2>1. TurnShown' => TurnShown /\ d = 0
    BY <1>3, <1>6, NotShownYet
  <2>2. queue # <<>> => 1 \in DOMAIN queue
    BY <1>6 DEF TypeOK
  <2> QED  BY <1>5, <1>6, <2>1, <2>2 DEF TurnShown
<1> DEFINE n == Len(queue')
           m == Len(queue) - d
<1>8. /\ new \in Seq(Entries) /\ queue' \in Seq(Entries) /\ d \in {0, 1} /\ d <= Len(queue)
      /\ n = Len(queue) - d + Len(new)
      /\ \A k \in 1..Len(queue) - d : queue'[k] = queue[k + d]
      /\ \A k \in 1..Len(new) : queue'[Len(queue) - d + k] = new[k]
  BY <1>3 DEF Slides, Queues
<1>9. Len(queue) \in Nat /\ DOMAIN queue = 1..Len(queue)
  BY <1>6 DEF TypeOK
<1>10. m \in Nat /\ Len(new) \in Nat /\ n = m + Len(new) /\ DOMAIN queue' = 1..n
  BY <1>8, <1>9
<1>11. queue'[n] = Entry(events, "turn")
  <2>1. Len(new) \in 1..Len(new)
    BY <1>3, <1>10
  <2> QED  BY <1>3, <1>8, <2>1
<1>12. ASSUME NEW l \in DOMAIN queue', l # n
       PROVE  queue'[l].then # "turn"
  <2>1. CASE l <= m
    <3>1. l \in 1..m /\ l + d \in DOMAIN queue /\ l + d > d
      BY <1>8, <1>9, <1>10, <2>1
    <3>2. queue'[l] = queue[l + d]
      BY <1>8, <3>1
    <3> QED  BY <1>5, <3>1, <3>2
  <2>2. CASE l > m
    <3> DEFINE i == l - m
    <3>1. i \in 1..Len(new) /\ i \in 1..Len(new) - 1 /\ m + i = l
      BY <1>10, <1>12, <2>2
    <3>2. queue'[l] = new[i]
      BY <1>8, <3>1
    <3>3. PlainEntry(new[i])
      BY <1>3, <3>1
    <3> QED  BY <3>2, <3>3 DEF PlainEntry, Replies
  <2> QED  BY <1>10, <2>1, <2>2
<1>13. ~Ends(queue'[n])
  <2>1. Owes(turn', events)
    BY <1>2 DEF Awaits
  <2>2. ~Ends(Entry(events, "turn"))
    BY <1>4, <2>1 DEF Ends, Entry, Owes, Suits, Quitting
  <2> QED  BY <1>11, <2>2
<1>14. EndsFirst'
  <2> SUFFICES ASSUME NEW k \in DOMAIN queue', NEW l \in DOMAIN queue',
                      Ends(queue'[k]), queue'[l].then = "turn"
               PROVE  k < l
    BY DEF EndsFirst, Ends
  <2>1. l = n /\ k # n
    BY <1>12, <1>13
  <2> HIDE DEF n
  <2> QED  BY <1>10, <2>1
<1> QED  BY <1>4, <1>7, <1>14

(* A tool that was dispatched in time stays so.                            *)
LEMMA RunsBeforeEndKept ==
  ASSUME NEW l, NEW m, Extends(l, m), NEW c, RunsBeforeEnd(l, c),
         NEW r \in DOMAIN l, \A i \in DOMAIN m : IsDispatch(m[i]) /\ m[i].id = c => i = r
  PROVE  RunsBeforeEnd(m, c)
<1> SUFFICES ASSUME NEW d \in DOMAIN m, IsDispatch(m[d]), m[d].id = c,
                    NEW e \in DOMAIN m, IsEnd(m[e]), e < d
             PROVE  \E s \in DOMAIN m : m[s].type = "turn/start" /\ e < s /\ s < d
  BY DEF RunsBeforeEnd
<1>1. d = r /\ d \in DOMAIN l /\ m[d] = l[d]
  BY ExtendsFacts
<1>2. e \in DOMAIN l /\ m[e] = l[e]
  <2>1. e \in 1..Len(l)
    BY <1>1, ExtendsFacts
  <2> QED  BY <2>1, ExtendsFacts
<1>3. PICK s \in DOMAIN l : l[s].type = "turn/start" /\ e < s /\ s < d
  BY <1>1, <1>2 DEF RunsBeforeEnd
<1> QED  BY <1>3, ExtendsFacts

(* What Commit makes of a live Turn's prospects.                           *)
LEMMA CommitEndings ==
  ASSUME Base, Endings, Commit, Live
  PROVE  /\ ~turn.turnOpen /\ ~TurnShown' => EndsFirst'
         /\ turn.turnOpen \/ TurnShown' => NothingEnds' /\ StartsLast(log')
<1> DEFINE events == queue[1].events
<1>1. /\ Grows(Len(events)) /\ shown' = TRUE /\ queue' = queue /\ turn' = turn
  BY CommitForm DEF Base
<1>2. /\ ~shown /\ 1 \in DOMAIN queue
      /\ \A i \in DOMAIN log : i \in DOMAIN log' /\ log'[i] = log[i] /\ i <= Len(log)
      /\ \A i \in DOMAIN log' : \/ i \in DOMAIN log /\ log'[i] = log[i]
                                \/ /\ i > Len(log) /\ i - Len(log) \in 1..Len(events)
                                   /\ log'[i] = events[i - Len(log)]
      /\ events \in Seq(Events) /\ Len(log) \in Nat /\ DOMAIN log' = 1..Len(log) + Len(events)
  BY <1>1, Positions DEF Base, Grows
<1>3. ~TurnShown /\ Unseen(1)
  BY <1>2 DEF TurnShown, Unseen
<1>4. DOMAIN events = 1..Len(events)
  BY <1>2
<1>5. EndsFirst => EndsFirst'
  BY <1>1 DEF EndsFirst, Ends
<1>6. CASE turn.turnOpen
  <2>1. NothingEnds /\ StartsLast(log)
    BY <1>6 DEF Endings
  <2>2. NothingEnds'
    BY <1>1, <1>2, <2>1 DEF NothingEnds, Unseen, Ends
  <2>3. ~Ends(queue[1])
    BY <1>2, <1>3, <2>1 DEF NothingEnds
  <2>4. \A i \in DOMAIN log' : IsEnd(log'[i]) => i \in DOMAIN log /\ log'[i] = log[i]
    BY <1>2, <1>4, <2>3 DEF Ends, IsEnd
  <2>5. PICK s \in DOMAIN log :
          log[s].type = "turn/start" /\ \A i \in DOMAIN log : IsEnd(log[i]) => i < s
    BY <2>1 DEF StartsLast
  <2>6. StartsLast(log')
    BY <1>2, <2>4, <2>5 DEF StartsLast
  <2> QED  BY <1>6, <2>2, <2>6
<1>7. CASE ~turn.turnOpen /\ queue[1].then = "turn"
  <2>1. EndsFirst
    BY <1>3, <1>7 DEF Endings
  <2>2. \A k \in DOMAIN queue : ~Ends(queue[k])
    <3> SUFFICES ASSUME NEW k \in DOMAIN queue, Ends(queue[k]) PROVE FALSE
      OBVIOUS
    <3>1. k < 1
      BY <1>2, <1>7, <2>1 DEF EndsFirst
    <3>2. k \in 1..Len(queue) /\ Len(queue) \in Nat
      BY DEF Base, TypeOK
    <3> QED  BY <3>1, <3>2
  <2>3. NothingEnds'
    BY <1>1, <2>2 DEF NothingEnds, Ends
  <2>4. Proper(queue[1])
    BY <1>2 DEF Base, Owned
  <2>5. Owes(turn, events)
    BY <1>7, <2>4 DEF Proper, ProperOf, Verdicts, Replies
  <2>6. turn.pc = "claiming"
    BY <1>7 DEF Live, Base, Held
  <2>7. Len(events) > 0 /\ events[1].type = "turn/start"
    BY <1>7, <2>5, <2>6 DEF Owes
  <2> DEFINE s == Len(log) + 1
  <2>8. s \in DOMAIN log' /\ 1 \in 1..Len(events) /\ \A i \in DOMAIN log : i < s
    BY <1>2, <2>7
  <2>9. log'[s] = events[1]
    BY <1>1, <2>8 DEF Grows
  <2>10. \A i \in DOMAIN log' : IsEnd(log'[i]) => i \in DOMAIN log
    BY <1>2, <1>4, <2>2 DEF Ends, IsEnd
  <2> HIDE DEF s
  <2>11. StartsLast(log')
    BY <2>7, <2>8, <2>9, <2>10 DEF StartsLast
  <2>12. TurnShown'
    BY <1>1, <1>7 DEF TurnShown
  <2> QED  BY <1>7, <2>3, <2>11, <2>12
<1>8. CASE ~turn.turnOpen /\ queue[1].then # "turn"
  <2>1. ~TurnShown'
    BY <1>1, <1>8 DEF TurnShown
  <2>2. EndsFirst
    BY <1>3, <1>8 DEF Endings
  <2> QED  BY <1>5, <1>8, <2>1, <2>2
<1> QED  BY <1>6, <1>7, <1>8

LEMMA EndingsNext ==
  ASSUME Base, Dispatches, Effects, Endings, [Next]_vars
  PROVE  Endings'
<1>1. Dispatches'
  BY DispatchesNext
<1>2. Extends(log, log')
  BY LogExtends
<1>3. ASSUME NEW n \in DOMAIN effects'
      PROVE  RunsBeforeEnd(log', effects'[n])
  <2>1. CASE effects' = effects
    <3> DEFINE c == effects[n]
    <3>1. PICK r \in DOMAIN log : IsDispatch(log[r]) /\ log[r].id = c
      BY <1>3, <2>1 DEF Effects
    <3>2. r \in DOMAIN log' /\ log'[r] = log[r]
      BY <1>2, ExtendsFacts
    <3>3. \A i \in DOMAIN log' : IsDispatch(log'[i]) /\ log'[i].id = c => i = r
      BY <1>1, <3>1, <3>2 DEF Dispatches
    <3>4. RunsBeforeEnd(log, c)
      BY <1>3, <2>1 DEF Endings
    <3> QED  BY <1>2, <2>1, <3>3, <3>4, RunsBeforeEndKept
  <2>2. CASE Executes
    <3> DEFINE c == turn.call
    <3>1. /\ turn # None /\ TurnShown /\ turn.pc = "dispatching" /\ ~turn.aborted
          /\ effects' = Append(effects, c) /\ effects \in Seq(Nat) /\ log' = log
      BY <2>2 DEF Executes, Arrives, Base, TypeOK, Slides
    <3>2. c \in Nat
      BY <3>1 DEF Base, TypeOK, TurnRecord
    <3>3. (n \in DOMAIN effects /\ effects'[n] = effects[n]) \/ effects'[n] = c
      BY <1>3, <3>1, <3>2
    <3>4. Len(log) \in DOMAIN log /\ IsDispatch(log[Len(log)]) /\ log[Len(log)].id = c
      BY <3>1, ShownDispatch
    <3>5. Live
      BY <3>1 DEF Live, Quitting
    <3>6. PICK s \in DOMAIN log :
            log[s].type = "turn/start" /\ \A i \in DOMAIN log : IsEnd(log[i]) => i < s
      BY <3>1, <3>5 DEF Endings, StartsLast
    <3>7. s < Len(log)
      <4>1. s # Len(log)
        BY <3>4, <3>6 DEF IsDispatch
      <4>2. s \in 1..Len(log) /\ Len(log) \in Nat
        BY DEF Base, TypeOK
      <4> QED  BY <4>1, <4>2
    <3>8. \A d \in DOMAIN log : IsDispatch(log[d]) /\ log[d].id = c => d = Len(log)
      BY <3>4 DEF Dispatches
    <3>9. RunsBeforeEnd(log, c)
      BY <3>6, <3>7, <3>8 DEF RunsBeforeEnd
    <3> QED  BY <3>1, <3>3, <3>9 DEF Endings
  <2>3. Executes \/ effects' = effects
    <3>1. Commit => effects' = effects
      BY CommitForm DEF Base
    <3> QED  BY <3>1, Steps DEF Restarts, Serves, Decides, TurnForm, Claims, Waiting, Leaves,
                Begins, MakesCall, Requests, Dispatching, Advances
  <2> QED  BY <2>1, <2>2, <2>3
<1>4. ASSUME Live'
      PROVE  /\ ~turn'.turnOpen /\ ~TurnShown' => EndsFirst'
             /\ turn'.turnOpen \/ TurnShown' => NothingEnds' /\ StartsLast(log')
  <2>1. CASE Begins
    BY <2>1, BeginsLast
  <2>2. CASE log' = log /\ (Serves \/ Decides \/ TurnForm) /\ ~Begins
    <3>1. /\ Live
          /\ \/ (Serves \/ Decides) /\ turn'.turnOpen = turn.turnOpen
             \/ TurnForm /\ turn'.turnOpen /\ (turn.turnOpen \/ TurnShown)
      BY <1>4, <2>2, StaysLive
    <3>2. /\ NothingEnds => NothingEnds'
          /\ Serves \/ Decides => /\ TurnShown' => TurnShown
                                  /\ EndsFirst => EndsFirst'
      BY <1>4, <2>2, SlidEnds
    <3>3. CASE TurnForm /\ turn'.turnOpen /\ (turn.turnOpen \/ TurnShown)
      BY <2>2, <3>1, <3>2, <3>3 DEF Endings
    <3>4. CASE (Serves \/ Decides) /\ turn'.turnOpen = turn.turnOpen
      <4>1. TurnShown => TurnShown'
        <5>1. (\E new : Slides(0, new)) \/ Serves
          BY <3>4 DEF Decides
        <5>2. TypeOK /\ (TurnShown => queue # <<>>)
          BY DEF Base, Owned, TurnShown
        <5> QED  BY <5>1, <5>2, StaysShown
      <4> QED  BY <2>2, <3>1, <3>2, <3>4, <4>1 DEF Endings
    <3> QED  BY <3>1, <3>3, <3>4
  <2>3. CASE Restarts
    BY <1>4, <2>3 DEF Live, Restarts
  <2>4. CASE Commit
    <3>1. turn' = turn
      BY <2>4, CommitForm DEF Base
    <3>2. Live
      BY <1>4, <3>1 DEF Live
    <3> QED  BY <2>4, <3>1, <3>2, CommitEndings
  <2> QED  BY <2>1, <2>2, <2>3, <2>4, LogSteps
<1> QED  BY <1>3, <1>4 DEF Endings

(* The invariant on what ends the Session, wherever it still is.           *)
THEOREM EndingsHold == Spec => []Endings
<1>1. Init => Endings
  <2> SUFFICES ASSUME Init PROVE Endings
    OBVIOUS
  <2>1. effects = <<>> /\ turn = None
    BY DEF Init
  <2>2. DOMAIN effects = {}
    BY <2>1
  <2> QED  BY <2>1, <2>2 DEF Endings, Live
<1>2. Base /\ (Dispatches /\ Effects) /\ Endings /\ [Next]_vars => Endings'
  BY EndingsNext
<1> QED  BY <1>1, <1>2, BaseHolds, DispatchesHold, PTL DEF Spec

(* No tool runs for a Turn when the log ended the Session before the       *)
(* tool's dispatch, unless a Turn was started between them (cancel aborts  *)
(* before it appends; processTool tests the abort after it).               *)
THEOREM RunsBeforeTheEnd == Spec => []EffectsBeforeEnd
<1>1. Endings => EffectsBeforeEnd
  <2> SUFFICES ASSUME Endings,
                      NEW n \in DOMAIN effects,
                      NEW dispatch \in Records("tool/execution", effects[n], {"dispatched"}),
                      NEW end \in Places({"session/ended"}), end < dispatch
               PROVE  \E i \in Places({"turn/start"}) : end < i /\ i < dispatch
    BY DEF EffectsBeforeEnd
  <2>1. dispatch \in DOMAIN log /\ IsDispatch(log[dispatch]) /\ log[dispatch].id = effects[n]
    BY DEF Records, Places, IsDispatch
  <2>2. end \in DOMAIN log /\ IsEnd(log[end])
    BY DEF Places, IsEnd
  <2>3. RunsBeforeEnd(log, effects[n])
    BY DEF Endings
  <2> QED  BY <2>1, <2>2, <2>3 DEF RunsBeforeEnd, Places
<1> QED  BY <1>1, EndingsHold, PTL

-----------------------------------------------------------------------------
(* Turns do not overlap.                                                   *)

IsStart(event) == event.type = "turn/start"
StartOf(event, id) == IsStart(event) /\ event.id = id

EndsTurn(event, id) == event.type = "turn/end" /\ event.id = id

(* Between the places i and j the Turn that was started at i has ended, or *)
(* the process has died.                                                   *)
Apart(l, b, i, j) ==
  \/ \E k \in DOMAIN l : i < k /\ k < j /\ EndsTurn(l[k], l[i].id)
  \/ \E n \in DOMAIN b : i <= b[n] /\ b[n] < j

(* It has done so by now.                                                  *)
Settled(l, b, i) ==
  \/ \E k \in DOMAIN l : i < k /\ EndsTurn(l[k], l[i].id)
  \/ \E n \in DOMAIN b : i <= b[n]

(* An append of the Turn has not been committed yet.                       *)
Due == \E k \in DOMAIN queue : Unseen(k) /\ queue[k].then = "turn"

(* The Turn's start is, or is about to become, known to it, and its end is *)
(* not in the log.                                                         *)
Runs(id) ==
  /\ turn # None /\ turn.id = id
  /\ \/ turn.turnOpen /\ turn.pc \notin Quitting
     \/ turn.pc = "claiming" /\ TurnShown
     \/ turn.turnOpen /\ turn.pc \in Quitting /\ Due

AllApart(l, b) == \A i, j \in DOMAIN l : IsStart(l[i]) /\ IsStart(l[j]) /\ i < j => Apart(l, b, i, j)

Bounded(l, b) == \A n \in DOMAIN b : b[n] <= Len(l)

Separate ==
  /\ Bounded(log, boots)
  /\ AllApart(log, boots)
  /\ ~archived => \A i \in DOMAIN log : \A id : StartOf(log[i], id) => Settled(log, boots, i) \/ Runs(id)

(* The log and the list of crashes grow.                                   *)
Later(l, b, m, c) ==
  /\ Extends(l, m)
  /\ DOMAIN b \subseteq DOMAIN c /\ \A n \in DOMAIN b : c[n] = b[n] /\ b[n] \in Nat

LEMMA ApartKept ==
  ASSUME NEW l, NEW b, NEW m, NEW c, Later(l, b, m, c), NEW i \in DOMAIN l
  PROVE  /\ \A j \in DOMAIN l : Apart(l, b, i, j) => Apart(m, c, i, j)
         /\ Settled(l, b, i) => Settled(m, c, i)
         /\ \A j \in DOMAIN m : j > Len(l) /\ Bounded(l, b) /\ Settled(l, b, i) => Apart(m, c, i, j)
<1>1. /\ Len(l) \in Nat /\ DOMAIN l = 1..Len(l)
      /\ \A k \in DOMAIN l : k \in DOMAIN m /\ m[k] = l[k]
  BY ExtendsFacts DEF Later
<1>2. DOMAIN m \subseteq Nat
  BY ExtendsFacts DEF Later
<1>3. \A n \in DOMAIN b : n \in DOMAIN c /\ c[n] = b[n] /\ b[n] \in Nat
  BY DEF Later
<1>4. ASSUME NEW j \in DOMAIN l, Apart(l, b, i, j)
      PROVE  Apart(m, c, i, j)
  BY <1>1, <1>3, <1>4 DEF Apart
<1>5. Settled(l, b, i) => Settled(m, c, i)
  BY <1>1, <1>3 DEF Settled
<1>6. ASSUME NEW j \in DOMAIN m, j > Len(l), Bounded(l, b), Settled(l, b, i)
      PROVE  Apart(m, c, i, j)
  <2>1. CASE \E k \in DOMAIN l : i < k /\ EndsTurn(l[k], l[i].id)
    <3>1. PICK k \in DOMAIN l : i < k /\ EndsTurn(l[k], l[i].id)
      BY <2>1
    <3>2. k < j
      BY <1>1, <1>2, <1>6
    <3> QED  BY <1>1, <3>1, <3>2 DEF Apart
  <2>2. CASE \E n \in DOMAIN b : i <= b[n]
    <3>1. PICK n \in DOMAIN b : i <= b[n]
      BY <2>2
    <3>2. b[n] < j
      BY <1>1, <1>2, <1>3, <1>6 DEF Bounded
    <3> QED  BY <1>3, <3>1, <3>2 DEF Apart
  <2> QED  BY <1>6, <2>1, <2>2 DEF Settled
<1> QED  BY <1>4, <1>5, <1>6

LEMMA AlwaysLater ==
  ASSUME Base, [Next]_vars
  PROVE  Later(log, boots, log', boots')
<1>1. Extends(log, log')
  BY LogExtends
<1>2. boots \in Seq(Nat) /\ (boots' = boots \/ boots' = Append(boots, Len(log')))
  <2>1. Commit => boots' = boots
    BY CommitForm DEF Base
  <2>2. Serves \/ Decides \/ TurnForm => boots' = boots
    BY AlwaysSlides DEF Slides
  <2>3. boots \in Seq(Nat)
    BY DEF Base, TypeOK
  <2> QED  BY <2>1, <2>2, <2>3, Steps DEF Restarts
<1>3. Len(log') \in Nat
  BY <1>1, ExtendsFacts
<1>4. \A n \in DOMAIN boots : n \in DOMAIN boots' /\ boots'[n] = boots[n] /\ boots[n] \in Nat
  BY <1>2, <1>3
<1> QED  BY <1>1, <1>4 DEF Later

(* A start that is being committed is the Turn's first event, and the Turn *)
(* is not under way yet.                                                   *)
LEMMA NewStart ==
  ASSUME Base, NEW n, Grows(n), NEW j \in 1..n, IsStart(queue[1].events[j])
  PROVE  /\ j = 1 /\ queue[1].then = "turn"
         /\ turn # None /\ turn.pc = "claiming" /\ turn.id = queue[1].events[j].id
         /\ \A id : ~Runs(id)
<1> DEFINE events == queue[1].events
<1>1. Proper(queue[1]) /\ j \in DOMAIN events
  BY Positions DEF Base, Owned, Grows
<1>2. ~(queue[1].then \in Replies /\ \A i \in DOMAIN events : events[i].type \in PlainTypes)
  BY <1>1 DEF IsStart, PlainTypes, CommandTypes
<1>3. ~(\E c \in 1..ids : events = <<About("tool/approval", c, queue[1].then)>>)
  <2> SUFFICES ASSUME NEW c \in 1..ids, events = <<About("tool/approval", c, queue[1].then)>>
               PROVE  FALSE
    OBVIOUS
  <2>1. j = 1 /\ events[1] = About("tool/approval", c, queue[1].then)
    BY <1>1
  <2> QED  BY <2>1 DEF IsStart, About, Event
<1>4. queue[1].then = "turn" /\ turn # None /\ Owes(turn, events)
  BY <1>1, <1>2, <1>3 DEF Proper, ProperOf
<1>5. Suits(turn, events[j])
  BY <1>1, <1>4 DEF Owes
<1>6. turn.pc = "claiming" /\ ~turn.turnOpen /\ events[j].id = turn.id
  BY <1>5 DEF Suits, IsStart
<1>7. j = 1
  BY <1>1, <1>4, <1>6 DEF Owes, IsStart
<1>8. ~shown
  BY DEF Grows
<1> QED  BY <1>4, <1>6, <1>7, <1>8 DEF Runs, TurnShown

(* Whatever is put in the log keeps the Turns apart.                       *)
LEMMA GrownApart ==
  ASSUME Base, [Next]_vars, Separate, ~archived, NEW n, Grows(n)
  PROVE  AllApart(log', boots')
<1>1. Later(log, boots, log', boots')
  BY AlwaysLater
<1>2. /\ Len(log) \in Nat /\ DOMAIN log = 1..Len(log) /\ DOMAIN log' = 1..Len(log) + n /\ n \in Nat
      /\ \A i \in DOMAIN log' : \/ i \in DOMAIN log /\ log'[i] = log[i]
                                \/ /\ i > Len(log) /\ i - Len(log) \in 1..n
                                   /\ log'[i] = queue[1].events[i - Len(log)]
  BY Positions DEF Base
<1> SUFFICES ASSUME NEW i \in DOMAIN log', NEW j \in DOMAIN log',
                    IsStart(log'[i]), IsStart(log'[j]), i < j
             PROVE  Apart(log', boots', i, j)
  BY DEF AllApart
<1>3. CASE j \in DOMAIN log /\ log'[j] = log[j]
  <2>1. i \in DOMAIN log /\ log'[i] = log[i]
    BY <1>2, <1>3
  <2>2. Apart(log, boots, i, j)
    BY <1>3, <2>1 DEF Separate, AllApart
  <2> QED  BY <1>1, <1>3, <2>1, <2>2, ApartKept
<1>4. CASE j > Len(log) /\ j - Len(log) \in 1..n /\ log'[j] = queue[1].events[j - Len(log)]
  <2>1. j - Len(log) = 1 /\ \A id : ~Runs(id)
    BY <1>4, NewStart
  <2>2. i \in DOMAIN log /\ log'[i] = log[i]
    BY <1>2, <2>1
  <2>3. Settled(log, boots, i)
    BY <2>1, <2>2 DEF Separate, StartOf
  <2> QED  BY <1>1, <1>4, <2>2, <2>3, ApartKept DEF Separate
<1> QED  BY <1>2, <1>3, <1>4

LEMMA SeparateCommit ==
  ASSUME Base, [Next]_vars, Separate, Commit
  PROVE  Separate'
<1> DEFINE events == queue[1].events
           n == Len(events)
<1>1. /\ Grows(n) /\ shown' = TRUE /\ ~archived
      /\ UNCHANGED <<queue, turn, boots, archived>>
  BY CommitForm DEF Base, Commit
<1>2. /\ Len(log) \in Nat /\ DOMAIN log = 1..Len(log) /\ DOMAIN log' = 1..Len(log) + n /\ n \in Nat
      /\ events \in Seq(Events) /\ ~shown /\ 1 \in DOMAIN queue /\ Len(log') = Len(log) + n
      /\ \A j \in 1..n : log'[Len(log) + j] = events[j]
      /\ \A i \in DOMAIN log' : \/ i \in DOMAIN log /\ log'[i] = log[i]
                                \/ /\ i > Len(log) /\ i - Len(log) \in 1..n
                                   /\ log'[i] = events[i - Len(log)]
  BY <1>1, Positions DEF Base, Grows
<1>3. Later(log, boots, log', boots')
  BY AlwaysLater
<1>4. AllApart(log', boots')
  BY <1>1, GrownApart
<1>5. Bounded(log', boots')
  <2>1. Bounded(log, boots) /\ boots \in Seq(Nat)
    BY DEF Separate, Base, TypeOK
  <2> QED  BY <1>1, <1>2, <2>1 DEF Bounded
<1>6. ASSUME NEW i \in DOMAIN log', NEW id, StartOf(log'[i], id)
      PROVE  Settled(log', boots', i) \/ Runs(id)'
  <2>1. CASE i \in DOMAIN log /\ log'[i] = log[i]
    <3>1. CASE Settled(log, boots, i)
      BY <1>3, <2>1, <3>1, ApartKept
    <3>2. CASE turn # None /\ turn.id = id /\ turn.turnOpen /\ turn.pc \notin Quitting
      BY <1>1, <2>1, <3>2 DEF Runs
    <3>3. CASE turn # None /\ turn.id = id /\ turn.turnOpen /\ turn.pc \in Quitting /\ Due
      <4>1. PICK k \in DOMAIN queue : Unseen(k) /\ queue[k].then = "turn"
        BY <3>3 DEF Due
      <4>2. CASE k # 1
        <5>1. Due'
          BY <1>1, <4>1, <4>2 DEF Due, Unseen
        <5> QED  BY <1>1, <2>1, <3>3, <5>1 DEF Runs
      <4>3. CASE k = 1
        <5>1. Proper(queue[1])
          BY <1>2 DEF Base, Owned
        <5>2. Owes(turn, events)
          BY <4>1, <4>3, <5>1 DEF Proper, ProperOf, Verdicts, Replies
        <5>3. PICK j \in DOMAIN events : events[j].type = "turn/end"
          BY <3>3, <5>2 DEF Owes
        <5>4. EndsTurn(events[j], turn.id)
          BY <5>2, <5>3 DEF Owes, Suits, EndsTurn
        <5>5. j \in 1..n
          BY <1>2
        <5>6. Len(log) + j \in DOMAIN log' /\ i < Len(log) + j
          BY <1>2, <2>1, <5>5
        <5>7. EndsTurn(log'[Len(log) + j], log'[i].id)
          BY <1>2, <1>6, <2>1, <3>3, <5>4, <5>5 DEF StartOf
        <5> QED  BY <5>6, <5>7 DEF Settled, StartOf
      <4> QED  BY <4>2, <4>3
    <3>4. Settled(log, boots, i) \/ Runs(id)
      BY <1>1, <1>6, <2>1 DEF Separate
    <3> QED  BY <1>2, <3>1, <3>2, <3>3, <3>4 DEF Runs, TurnShown
  <2>2. CASE i > Len(log) /\ i - Len(log) \in 1..n /\ log'[i] = events[i - Len(log)]
    <3>1. queue[1].then = "turn" /\ turn # None /\ turn.pc = "claiming" /\ turn.id = id
      BY <1>1, <1>6, <2>2, NewStart DEF StartOf
    <3> QED  BY <1>1, <3>1 DEF Runs, TurnShown
  <2> QED  BY <1>2, <1>6, <2>1, <2>2
<1> QED  BY <1>4, <1>5, <1>6 DEF Separate

LEMMA SeparateRestart ==
  ASSUME Base, [Next]_vars, Separate, Restarts
  PROVE  Separate'
<1>1. Later(log, boots, log', boots') /\ Extends(log, log')
  BY AlwaysLater DEF Later
<1>2. boots' = Append(boots, Len(log')) /\ boots \in Seq(Nat)
  BY DEF Restarts, Base, TypeOK
<1>3. Len(log') \in Nat /\ Len(log) <= Len(log') /\ Len(log) \in Nat /\ DOMAIN log' = 1..Len(log')
  BY <1>1, ExtendsFacts
<1>4. AllApart(log', boots')
  <2>1. CASE log' = log
    <3> SUFFICES ASSUME NEW i \in DOMAIN log, NEW j \in DOMAIN log,
                        IsStart(log[i]), IsStart(log[j]), i < j
                 PROVE  Apart(log', boots', i, j)
      BY <2>1 DEF AllApart
    <3>1. Apart(log, boots, i, j)
      BY DEF Separate, AllApart
    <3> QED  BY <1>1, <3>1, ApartKept
  <2>2. CASE ~archived /\ \E n : Grows(n)
    BY <2>2, GrownApart
  <2>3. log' # log => ~archived
    BY DEF Restarts
  <2> QED  BY <2>1, <2>2, <2>3, RestartGrows DEF Base
<1>5. Bounded(log', boots')
  <2>1. Bounded(log, boots)
    BY DEF Separate
  <2> QED  BY <1>2, <1>3, <2>1 DEF Bounded
<1>6. ASSUME NEW i \in DOMAIN log'
      PROVE  Settled(log', boots', i)
  <2>1. Len(boots') \in DOMAIN boots' /\ boots'[Len(boots')] = Len(log')
    BY <1>2, <1>3
  <2> QED  BY <1>3, <2>1 DEF Settled
<1> QED  BY <1>4, <1>5, <1>6 DEF Separate

(* The Turn's appends stay due while it does not run.                      *)
LEMMA StaysDue ==
  ASSUME Base, Serves \/ Decides, Due
  PROVE  Due'
<1>1. PICK d, new : Slides(d, new) /\ (d = 1 => queue[1].then # "turn")
  <2>1. CASE Serves
    BY <2>1 DEF Serves
  <2>2. CASE Decides
    <3>1. \E new : Slides(0, new)
      BY <2>2 DEF Decides
    <3> QED  BY <3>1
  <2> QED  BY <2>1, <2>2
<1>2. PICK k \in DOMAIN queue : Unseen(k) /\ queue[k].then = "turn"
  BY DEF Due
<1>3. /\ d \in {0, 1} /\ Len(queue) \in Nat /\ DOMAIN queue = 1..Len(queue) /\ d <= Len(queue)
      /\ Len(new) \in Nat /\ DOMAIN queue' = 1..Len(queue) - d + Len(new)
      /\ shown' => shown /\ d = 0
  BY <1>1 DEF Slides, Queues, Base, TypeOK
<1>4. k - d \in 1..Len(queue) - d /\ (k - d) + d = k
  <2>1. d = 1 => k # 1
    BY <1>1, <1>2
  <2> QED  BY <1>2, <1>3, <2>1
<1>5. k - d \in DOMAIN queue' /\ queue'[k - d] = queue[k]
  <2>1. queue'[k - d] = queue[(k - d) + d]
    BY <1>1, <1>4 DEF Slides
  <2> QED  BY <1>3, <1>4, <2>1
<1>6. Unseen(k - d)'
  BY <1>2, <1>3, <1>5 DEF Unseen
<1> QED  BY <1>2, <1>5, <1>6 DEF Due

(* What the Turn appends is due.                                           *)
LEMMA AwaitsDue ==
  ASSUME Base, NEW d, NEW events, Awaits(d, events)
  PROVE  Due'
<1>1. PICK new : Slides(d, new) /\ Len(new) > 0 /\ new[Len(new)] = Entry(events, "turn")
  BY DEF Awaits
<1>2. /\ d \in {0, 1} /\ Len(queue) \in Nat /\ d <= Len(queue)
      /\ Len(new) \in Nat /\ DOMAIN queue' = 1..Len(queue) - d + Len(new)
      /\ shown' => shown /\ d = 0
  BY <1>1 DEF Slides, Queues, Base, TypeOK
<1>3. PICK k \in DOMAIN queue' : k = Len(queue) - d + Len(new) /\ Len(new) \in 1..Len(new)
  BY <1>1, <1>2
<1>4. queue'[k] = Entry(events, "turn")
  BY <1>1, <1>3 DEF Slides
<1>5. shown' => k # 1
  <2>1. shown => Len(queue) > 0
    BY DEF Base, Owned, TypeOK
  <2> QED  BY <1>1, <1>2, <1>3, <2>1
<1>6. Unseen(k)' /\ queue'[k].then = "turn"
  BY <1>3, <1>4, <1>5 DEF Unseen, Entry
<1> QED  BY <1>3, <1>6 DEF Due

(* A Turn runs on until it leaves, and it leaves only when its end is in   *)
(* the log.                                                                *)
LEMMA RunsOn ==
  ASSUME Base, Serves \/ Decides \/ TurnForm, ~MayRefuse, NEW id, Runs(id)
  PROVE  Runs(id)'
<1>1. turn # None /\ turn \in TurnRecord /\ turn.id = id
  BY DEF Runs, Base, TypeOK
<1>2. CASE Serves \/ Decides
  <2>1. turn' # None /\ turn'.id = turn.id /\ turn'.pc = turn.pc /\ turn'.turnOpen = turn.turnOpen
    <3>1. [turn EXCEPT !.aborted = TRUE] \in TurnRecord
      BY <1>1 DEF TurnRecord
    <3>2. turn' = turn \/ turn' = [turn EXCEPT !.aborted = TRUE]
      BY <1>2 DEF Serves, Decides
    <3> QED  BY <1>1, <3>1, <3>2, SentinelAssumption DEF TurnRecord
  <2>2. TurnShown => TurnShown'
    <3>1. (\E new : Slides(0, new)) \/ Serves
      BY <1>2 DEF Decides
    <3>2. TypeOK /\ (TurnShown => queue # <<>>)
      BY DEF Base, Owned, TurnShown
    <3> QED  BY <3>1, <3>2, StaysShown
  <2>3. Due => Due'
    BY <1>2, StaysDue
  <2> QED  BY <2>1, <2>2, <2>3 DEF Runs
<1>3. CASE Claims
  <2>1. turn' = [turn EXCEPT !.pc = "asking", !.turnOpen = TRUE, !.stepOpen = TRUE]
    BY <1>3 DEF Claims
  <2>2. turn' \in TurnRecord
    BY <1>1, <2>1 DEF TurnRecord, Points, Resting
  <2>3. turn'.id = turn.id /\ turn'.pc = "asking" /\ turn'.turnOpen /\ turn' # None
    BY <1>1, <2>1, <2>2, SentinelAssumption DEF TurnRecord
  <2> QED  BY <2>3 DEF Runs, Quitting
<1>4. CASE Waiting \/ Executes \/ Requests \/ Dispatching
  <2>1. turn.pc \in {"requesting", "dispatching", "calling", "waiting", "deaf"}
    BY <1>4 DEF Waiting, Executes, Requests, Dispatching, Arrives, Waits
  <2>2. turn.turnOpen
    BY <2>1 DEF Runs, Quitting
  <2>3. PICK pc \in {"requesting", "dispatching", "waiting", "deaf", "executing"} : turn' = [turn EXCEPT !.pc = pc]
    BY <1>4 DEF Waiting, Executes, Requests, Dispatching
  <2>4. turn' \in TurnRecord
    BY <1>1, <2>3 DEF TurnRecord, Points, Resting
  <2>5. turn'.id = turn.id /\ turn'.pc = pc /\ turn'.turnOpen /\ turn' # None
    BY <1>1, <2>2, <2>3, <2>4, SentinelAssumption DEF TurnRecord
  <2> QED  BY <2>5 DEF Runs, Quitting
<1>5. CASE MakesCall \/ Advances
  <2>1. turn.turnOpen /\ turn'.id = turn.id /\ turn'.turnOpen = turn.turnOpen
    BY <1>5 DEF MakesCall, Advances
  <2>2. PICK d, events : Awaits(d, events)
    BY <1>5 DEF MakesCall, Advances
  <2>3. turn' # None
    BY <2>2, SentinelAssumption DEF Awaits
  <2>4. Due'
    BY <2>2, AwaitsDue
  <2> QED  BY <2>1, <2>3, <2>4 DEF Runs
<1>6. ~Leaves
  <2> SUFFICES ASSUME Leaves PROVE FALSE
    OBVIOUS
  <2>1. shown /\ queue # <<>> /\ queue[1].then = "turn" /\ turn.pc \in Quitting
    BY DEF Leaves
  <2>2. Due
    BY <2>1 DEF Runs, Quitting
  <2>3. PICK k \in DOMAIN queue : Unseen(k) /\ queue[k].then = "turn"
    BY <2>2 DEF Due
  <2>4. 1 \in DOMAIN queue /\ k # 1
    BY <2>1, <2>3 DEF Unseen, Base, TypeOK
  <2> QED  BY <2>1, <2>3, <2>4 DEF Base, Owned
<1>7. ~Begins
  BY <1>1 DEF Begins
<1> QED  BY <1>2, <1>3, <1>4, <1>5, <1>6, <1>7 DEF TurnForm

LEMMA SeparateNext ==
  ASSUME ~AppendsFail, Base, Separate, [Next]_vars
  PROVE  Separate'
<1>1. CASE log' = log /\ (Serves \/ Decides \/ TurnForm)
  <2>1. boots' = boots
    BY <1>1, AlwaysSlides DEF Slides
  <2>2. archived => archived'
    BY Steps DEF Sundry
  <2>3. ASSUME ~archived', NEW i \in DOMAIN log, NEW id, StartOf(log[i], id)
        PROVE  Settled(log, boots, i) \/ Runs(id)'
    <3>1. ~archived /\ ~MayRefuse
      BY <2>2, <2>3 DEF MayRefuse
    <3>2. Settled(log, boots, i) \/ Runs(id)
      BY <2>3, <3>1 DEF Separate
    <3> QED  BY <1>1, <3>1, <3>2, RunsOn
  <2> QED  BY <1>1, <2>1, <2>3 DEF Separate
<1>2. CASE Restarts
  BY <1>2, SeparateRestart
<1>3. CASE Commit
  BY <1>3, SeparateCommit
<1> QED  BY <1>1, <1>2, <1>3, LogSteps

(* The invariant on the Turns whose starts are in the log.                 *)
THEOREM SeparateHolds == ASSUME ~AppendsFail PROVE Spec => []Separate
<1>1. Init => Separate
  <2> SUFFICES ASSUME Init PROVE Separate
    OBVIOUS
  <2>1. DOMAIN log = {} /\ DOMAIN boots = {}
    BY DEF Init
  <2> QED  BY <2>1 DEF Separate, Bounded, AllApart
<1>2. Base /\ Separate /\ [Next]_vars => Separate'
  BY SeparateNext
<1> QED  BY <1>1, <1>2, BaseHolds, PTL DEF Spec

(* As long as no append fails, a Turn is started only when the one before  *)
(* it has written its turn/end, or the process has been restarted.         *)
THEOREM TurnsSeparate == ASSUME ~AppendsFail PROVE Spec => []TurnsDoNotOverlap
<1>1. Separate => TurnsDoNotOverlap
  BY DEF Separate, AllApart, Apart, IsStart, EndsTurn, TurnsDoNotOverlap, Places
<1> QED  BY <1>1, SeparateHolds, PTL

-----------------------------------------------------------------------------
(* No message is given to the model twice.                                 *)

Names(event, type, x)   == event.type = type /\ event.messages = <<x>>
Submits(event, lane, x) == Names(event, "inbox/enqueued", x) /\ event.what = lane
Gives(event, x)         == Names(event, "user/message", x)
Takes(event, lane, x)   ==
  event.type = "inbox/claimed" /\ event.what = lane /\ Contains(event.messages, x)

IsMessage(event) == event.type = "user/message"

Submission(event) == \E m \in Messages, lane \in Lanes : Submits(event, lane, m)

(* The log holds one submission of x at most.                              *)
Once(l, x) ==
  \A i, j \in DOMAIN l :
    Names(l[i], "inbox/enqueued", x) /\ Names(l[j], "inbox/enqueued", x) => i = j

Submitting(entry) ==
  \A j \in DOMAIN entry.events : IsEnqueue(entry.events[j]) => Submission(entry.events[j])

(* What is put in the Inbox is a message of the user.                      *)
Submissions ==
  /\ \A i \in DOMAIN log : IsEnqueue(log[i]) => Submission(log[i])
  /\ \A k \in DOMAIN queue : Unseen(k) => Submitting(queue[k])

LEMMA NewSubmissions ==
  ASSUME Base, Serves \/ Decides \/ TurnForm
  PROVE  \E d, new : Slides(d, new) /\ \A k \in DOMAIN new : Submitting(new[k])
<1>0. \A entry : Quiet(entry) => Submitting(entry)
  BY DEF Quiet, Submitting
<1>1. CASE Serves /\ ~\E m \in Messages, lane \in Lanes : Enqueue(m, lane)
  <2>1. PICK d, new : Slides(d, new) /\ \A k \in DOMAIN new : Quiet(new[k])
    BY <1>1 DEF Serves
  <2> QED  BY <1>0, <2>1
<1>2. ASSUME NEW m \in Messages, NEW lane \in Lanes, Enqueue(m, lane)
      PROVE  \E d, new : Slides(d, new) /\ \A k \in DOMAIN new : Submitting(new[k])
  <2> DEFINE event == Event("inbox/enqueued", 0, lane, <<m>>)
             entry == Entry(<<event>>, "none")
             new   == <<entry>>
  <2>1. queue' = Append(queue, entry) /\ UNCHANGED <<log, shown, boots>>
    BY <1>2 DEF Enqueue, OnlyAppends, Appends
  <2>2. queue \in Queues /\ shown \in BOOLEAN
    BY DEF Base, TypeOK, Queues
  <2>3. entry \in Entries
    <3>1. "inbox/enqueued" \in Types /\ lane \in Words /\ <<m>> \in Seq(Given)
      <4>1. "inbox/enqueued" \in Types
        BY DEF Types, CommandTypes
      <4>2. lane \in Words
        BY DEF Words
      <4>3. m \in Given
        BY DEF Given
      <4> QED  BY <4>1, <4>2, <4>3
    <3>2. event \in Events
      BY <3>1, EventType
    <3>3. <<event>> \in Seq(Events) /\ "none" \in Replies
      BY <3>2 DEF Replies
    <3> QED  BY <3>3, EntryType
  <2>4. Slides(0, new)
    <3> HIDE DEF entry
    <3>1. queue' = queue \o <<entry>> /\ <<entry>> \in Seq(Entries)
      BY <2>1, <2>2, <2>3 DEF Queues
    <3> QED  BY <2>1, <2>2, <3>1, SlidesOn
  <2>5. Submission(event)
    BY DEF Submission, Submits, Names, Event
  <2>6. entry.events = <<event>>
    BY DEF Entry
  <2> HIDE DEF entry, event
  <2>7. Submitting(entry)
    BY <2>5, <2>6 DEF Submitting
  <2>8. DOMAIN new = {1} /\ new[1] = entry
    OBVIOUS
  <2> HIDE DEF new
  <2> QED  BY <2>4, <2>7, <2>8
<1>3. CASE Decides
  <2>1. PICK status \in Verdicts :
          Slides(0, <<Entry(<<About("tool/approval", pendingDecision, status)>>, status)>>)
    BY <1>3 DEF Decides
  <2> DEFINE event == About("tool/approval", pendingDecision, status)
             entry == Entry(<<event>>, status)
             new == <<entry>>
  <2>2. DOMAIN new = {1} /\ new[1] = entry
    OBVIOUS
  <2>3. Quiet(entry)
    <3>1. entry.events = <<event>> /\ event.type = "tool/approval"
      BY DEF Entry, About, Event
    <3>2. DOMAIN <<event>> = {1} /\ <<event>>[1] = event
      OBVIOUS
    <3> QED  BY <3>1, <3>2 DEF Quiet, IsEnqueue
  <2>4. Slides(0, new)
    BY <2>1
  <2> HIDE DEF new, entry, event
  <2> QED  BY <1>0, <2>2, <2>3, <2>4
<1>4. CASE Claims \/ Waiting \/ Executes \/ Leaves
  <2> DEFINE new == <<>>
  <2>1. Slides(1, new) /\ DOMAIN new = {}
    BY <1>4 DEF Claims, Waiting, Executes, Leaves, Arrives
  <2> HIDE DEF new
  <2> QED  BY <2>1
<1>5. CASE Begins \/ MakesCall \/ Requests \/ Dispatching \/ Advances
  <2>1. PICK d, events : Awaits(d, events)
    BY <1>5 DEF Begins, MakesCall, Requests, Dispatching, Advances
  <2>2. PICK new :
          /\ Slides(d, new)
          /\ Len(new) > 0 /\ new[Len(new)] = Entry(events, "turn")
          /\ \A k \in 1..Len(new) - 1 : Quiet(new[k])
    BY <2>1 DEF Awaits
  <2>3. new \in Seq(Entries)
    BY <2>2 DEF Slides
  <2>4. \A k \in DOMAIN new : k = Len(new) \/ k \in 1..Len(new) - 1
    BY <2>3
  <2>5. Owes(turn', events)
    BY <2>1 DEF Awaits
  <2>6. Quiet(Entry(events, "turn"))
    BY <2>5 DEF Quiet, IsEnqueue, Entry, Owes, Suits, TurnTypes
  <2> QED  BY <1>0, <2>2, <2>4, <2>6
<1> QED  BY <1>1, <1>2, <1>3, <1>4, <1>5 DEF TurnForm

LEMMA GrownSubmissions ==
  ASSUME Base, Submissions, NEW n, Grows(n)
  PROVE  \A i \in DOMAIN log' : IsEnqueue(log'[i]) => Submission(log'[i])
<1> DEFINE events == queue[1].events
<1>1. /\ \A i \in DOMAIN log' : \/ i \in DOMAIN log /\ log'[i] = log[i]
                                \/ /\ i > Len(log) /\ i - Len(log) \in 1..n
                                   /\ log'[i] = events[i - Len(log)]
      /\ 1..n \subseteq DOMAIN events
  BY Positions DEF Base
<1>2. 1 \in DOMAIN queue /\ Unseen(1)
  BY DEF Grows, Unseen
<1>3. \A j \in 1..n : IsEnqueue(events[j]) => Submission(events[j])
  BY <1>1, <1>2 DEF Submissions, Submitting
<1> QED  BY <1>1, <1>3 DEF Submissions

LEMMA SubmissionsNext ==
  ASSUME Base, Submissions, [Next]_vars
  PROVE  Submissions'
<1>1. CASE Serves \/ Decides \/ TurnForm
  <2>1. PICK d, new : Slides(d, new) /\ \A k \in DOMAIN new : Submitting(new[k])
    BY <1>1, NewSubmissions
  <2>2. TypeOK /\ log' = log /\ queue' \in Seq(Entries)
    BY <2>1 DEF Base, Slides, Queues
  <2>3. ASSUME NEW k \in DOMAIN queue', Unseen(k)'
        PROVE  Submitting(queue'[k])
    <3> DEFINE P == { entry \in Entries : ~Submitting(entry) }
    <3>1. SUFFICES ASSUME queue'[k] \in P PROVE FALSE
      BY <2>2
    <3>2. \A i \in DOMAIN new : new[i] \notin P
      BY <2>1
    <3>3. \A entry \in P : ~Submitting(entry)
      OBVIOUS
    <3> HIDE DEF P
    <3>4. k + d \in DOMAIN queue /\ queue'[k] = queue[k + d] /\ Unseen(k + d)
      BY <2>1, <2>2, <2>3, <3>1, <3>2, SlidEntries
    <3> QED  BY <3>1, <3>3, <3>4 DEF Submissions
  <2> QED  BY <2>2, <2>3 DEF Submissions, Submitting
<1>2. CASE Restarts
  <2>1. DOMAIN queue' = {}
    BY <1>2 DEF Restarts
  <2>2. \A i \in DOMAIN log' : IsEnqueue(log'[i]) => Submission(log'[i])
    BY <1>2, RestartGrows, GrownSubmissions DEF Base, Submissions
  <2> QED  BY <2>1, <2>2 DEF Submissions
<1>3. CASE Commit
  <2>1. Grows(Len(queue[1].events)) /\ shown' = TRUE /\ queue' = queue
    BY <1>3, CommitForm DEF Base
  <2>2. \A i \in DOMAIN log' : IsEnqueue(log'[i]) => Submission(log'[i])
    BY <2>1, GrownSubmissions
  <2>3. \A k \in DOMAIN queue : Unseen(k)' => Unseen(k)
    BY <2>1 DEF Unseen, Grows
  <2> QED  BY <2>1, <2>2, <2>3 DEF Submissions, Submitting
<1> QED  BY <1>1, <1>2, <1>3, Steps

THEOREM SubmissionsHold == Spec => []Submissions
<1>1. Init => Submissions
  <2> SUFFICES ASSUME Init PROVE Submissions
    OBVIOUS
  <2>1. DOMAIN log = {} /\ DOMAIN queue = {}
    BY DEF Init
  <2> QED  BY <2>1 DEF Submissions
<1>2. Base /\ Submissions /\ [Next]_vars => Submissions'
  BY SubmissionsNext
<1> QED  BY <1>1, <1>2, BaseHolds, PTL DEF Spec

(* The messages that the log holds one submission of at most.              *)
Unique(l) == { x \in Given : Once(l, x) }

(* What waits in the Inbox was submitted there and not taken since, and,   *)
(* unless it was submitted again, waits there once.                        *)
Queued(n, lane, x) ==
  \E i \in 1..n : Submits(log[i], lane, x) /\ \A c \in i + 1..n : ~Takes(log[c], lane, x)

Holds(inbox, n) ==
  \A lane \in Lanes :
    /\ \A k \in DOMAIN inbox[lane] : Queued(n, lane, inbox[lane][k])
    /\ SingleOf(inbox[lane], Unique(log))

(* A lane after a submission ...                                           *)
LEMMA LaneGrows ==
  ASSUME NEW s \in Seq(Given), NEW m \in Given, NEW lane, NEW n \in Nat, NEW X,
         \A k \in DOMAIN s : Queued(n, lane, s[k]), SingleOf(s, X),
         Submits(log[n + 1], lane, m), m \in X => \A i \in 1..n : ~Submits(log[i], lane, m)
  PROVE  /\ \A k \in DOMAIN (s \o <<m>>) : Queued(n + 1, lane, (s \o <<m>>)[k])
         /\ SingleOf(s \o <<m>>, X)
<1> DEFINE t == s \o <<m>>
<1>1. /\ Len(s) \in Nat /\ DOMAIN s = 1..Len(s) /\ DOMAIN t = 1..Len(s) + 1
      /\ t[Len(s) + 1] = m /\ \A k \in 1..Len(s) : t[k] = s[k]
  OBVIOUS
<1> HIDE DEF t
<1>2. ASSUME NEW k \in DOMAIN s PROVE (m \in X => s[k] # m) /\ Queued(n + 1, lane, s[k])
  <2>1. PICK i \in 1..n : Submits(log[i], lane, s[k]) /\ \A c \in i + 1..n : ~Takes(log[c], lane, s[k])
    BY DEF Queued
  <2>2. ~Takes(log[n + 1], lane, s[k])
    BY DEF Submits, Names, Takes
  <2>3. \A c \in i + 1..n + 1 : ~Takes(log[c], lane, s[k])
    BY <2>1, <2>2
  <2>4. i \in 1..n + 1
    OBVIOUS
  <2> QED  BY <2>1, <2>3, <2>4 DEF Queued
<1>3. Queued(n + 1, lane, m)
  <2>1. n + 1 \in 1..n + 1 /\ (n + 1) + 1..n + 1 = {}
    OBVIOUS
  <2> QED  BY <2>1 DEF Queued
<1>4. \A k \in DOMAIN t : (k \in DOMAIN s /\ t[k] = s[k]) \/ (k = Len(s) + 1 /\ t[k] = m)
  BY <1>1
<1>5. SingleOf(t, X)
  BY <1>2, <1>4 DEF SingleOf
<1> QED  BY <1>2, <1>3, <1>4, <1>5 DEF t

(* ... and after an event that does not submit anything to it.             *)
LEMMA LaneKept ==
  ASSUME NEW s, NEW t, NEW lane, NEW n \in Nat,
         \A k \in DOMAIN s : Queued(n, lane, s[k]),
         \A k \in DOMAIN t : ~Takes(log[n + 1], lane, t[k]) /\ \E h \in DOMAIN s : t[k] = s[h]
  PROVE  \A k \in DOMAIN t : Queued(n + 1, lane, t[k])
<1> SUFFICES ASSUME NEW k \in DOMAIN t PROVE Queued(n + 1, lane, t[k])
  OBVIOUS
<1>1. Queued(n, lane, t[k]) /\ ~Takes(log[n + 1], lane, t[k])
  OBVIOUS
<1>2. PICK i \in 1..n : Submits(log[i], lane, t[k]) /\ \A c \in i + 1..n : ~Takes(log[c], lane, t[k])
  BY <1>1 DEF Queued
<1>3. \A c \in i + 1..n + 1 : ~Takes(log[c], lane, t[k])
  BY <1>1, <1>2
<1>4. i \in 1..n + 1
  OBVIOUS
<1> QED  BY <1>2, <1>3, <1>4 DEF Queued

LEMMA InboxHolds ==
  ASSUME log \in Seq(Events), Submissions
  PROVE  Holds(Inbox, Len(log))
<1> DEFINE S == {n \in Nat : n <= Len(log) => Holds(InboxAt[n], n)}
           X == Unique(log)
<1>1. /\ InboxAt \in [0..Len(log) -> Boxes]
      /\ InboxAt[0] = [lane \in Lanes |-> <<>>]
      /\ \A n \in 1..Len(log) : InboxAt[n] = Splice(InboxAt[n - 1], log[n])
      /\ Len(log) \in Nat /\ DOMAIN log = 1..Len(log)
  BY InboxDefined
<1>2. 0 \in S
  <2>1. \A lane \in Lanes : DOMAIN (InboxAt[0][lane]) = {}
    BY <1>1
  <2> QED  BY <2>1 DEF Holds, SingleOf
<1>3. ASSUME NEW n \in Nat, n \in S PROVE n + 1 \in S
  <2> SUFFICES ASSUME n + 1 <= Len(log) PROVE Holds(InboxAt[n + 1], n + 1)
    OBVIOUS
  <2>1. n + 1 \in 1..Len(log) /\ (n + 1) - 1 = n /\ n \in 0..Len(log) /\ Holds(InboxAt[n], n)
    BY <1>1, <1>3
  <2> DEFINE event == log[n + 1]
             before == InboxAt[n]
             after == InboxAt[n + 1]
  <2>2. after = Splice(before, event) /\ before \in Boxes /\ event \in Events
    BY <1>1, <2>1
  <2>3. Holds(before, n)
    BY <2>1
  <2> SUFFICES ASSUME NEW lane \in Lanes
               PROVE  /\ \A k \in DOMAIN after[lane] : Queued(n + 1, lane, after[lane][k])
                      /\ SingleOf(after[lane], X)
    BY DEF Holds
  <2> DEFINE s == before[lane]
             t == after[lane]
  <2>4. s \in Seq(Given) /\ SingleOf(s, X) /\ \A k \in DOMAIN s : Queued(n, lane, s[k])
    BY <2>2, <2>3 DEF Boxes, Holds
  <2>5. CASE event.type = "inbox/enqueued" /\ event.what = lane
    <3>1. PICK m \in Messages, other \in Lanes : Submits(event, other, m)
      BY <1>1, <2>1, <2>5 DEF Submissions, IsEnqueue, Submission
    <3>2. Submits(event, lane, m) /\ event.messages = <<m>>
      BY <2>5, <3>1 DEF Submits, Names
    <3>3. t = s \o <<m>>
      BY <2>2, <2>5, <3>2 DEF Splice, Boxes
    <3>4. m \in X => \A i \in 1..n : ~Submits(log[i], lane, m)
      <4> SUFFICES ASSUME Once(log, m), NEW i \in 1..n, Submits(log[i], lane, m) PROVE FALSE
        BY DEF Unique
      <4>1. i \in DOMAIN log /\ n + 1 \in DOMAIN log /\ i # n + 1
        BY <1>1, <2>1
      <4> QED  BY <3>2, <4>1 DEF Once, Submits
    <3>5. m \in Given
      BY DEF Given
    <3> HIDE DEF s, t, event, X
    <3>6. Submits(log[n + 1], lane, m)
      BY <3>2 DEF event
    <3> QED  BY <2>4, <3>3, <3>4, <3>5, <3>6, LaneGrows DEF t
  <2>6. CASE event.type = "inbox/claimed" /\ event.what = lane
    <3>1. t = Without(s, event.messages)
      BY <2>2, <2>6 DEF Splice, Boxes
    <3>2. Remains(t, s, event.messages) /\ SingleOf(t, X)
      BY <2>4, <3>1, WithoutKeeps
    <3>3. \A k \in DOMAIN t : ~Takes(log[n + 1], lane, t[k]) /\ \E h \in DOMAIN s : t[k] = s[h]
      BY <3>2 DEF Remains, Takes
    <3> HIDE DEF s, t
    <3>4. \A k \in DOMAIN t : Queued(n + 1, lane, t[k])
      BY <2>4, <3>3, LaneKept
    <3> QED  BY <3>2, <3>4 DEF t
  <2>7. CASE ~(event.type \in {"inbox/enqueued", "inbox/claimed"} /\ event.what = lane)
    <3>1. t = s
      BY <2>2, <2>7 DEF Splice, Boxes
    <3>2. \A x : ~Takes(log[n + 1], lane, x)
      BY <2>7 DEF Takes
    <3> HIDE DEF s, t
    <3>3. \A k \in DOMAIN t : ~Takes(log[n + 1], lane, t[k]) /\ \E h \in DOMAIN s : t[k] = s[h]
      BY <3>1, <3>2
    <3>4. \A k \in DOMAIN t : Queued(n + 1, lane, t[k])
      BY <2>4, <3>3, LaneKept
    <3> QED  BY <2>4, <3>1, <3>4 DEF t
  <2> QED  BY <2>5, <2>6, <2>7
<1>4. Len(log) \in S
  <2> HIDE DEF S
  <2> QED  BY <1>1, <1>2, <1>3, SetInduction
<1> QED  BY <1>1, <1>4 DEF Inbox

-----------------------------------------------------------------------------
(* What a Step gives to the model.                                         *)

UserMessages(id, given) == [i \in 1..Len(given) |-> Event("user/message", id, "", <<given[i]>>)]

(* pre claims what is given.                                               *)
Backs(pre, given) ==
  \/ given = <<>>
  \/ given = <<Goal>> /\ Places({"user/message"}) = {}
  \/ \E lane \in Lanes :
       /\ given = Inbox[lane]
       /\ \E c \in DOMAIN pre :
            pre[c].type = "inbox/claimed" /\ pre[c].what = lane /\ pre[c].messages = given

LEMMA StepEventsGive ==
  ASSUME log \in Seq(Events), NEW id \in Nat, NEW step \in Nat
  PROVE  \E pre \in Seq(Events), given \in Seq(Given) :
           /\ StepEvents(id, step) = pre \o UserMessages(id, given)
           /\ \A j \in DOMAIN pre : ~IsMessage(pre[j])
           /\ Backs(pre, given)
<1> DEFINE queued == IF step = 0 THEN Inbox["nextTurn"] ELSE <<>>
           steps  == Inbox["nextStep"]
           given  == IF step > 0 THEN steps
                     ELSE IF queued = <<>> /\ Places({"user/message"}) = {} THEN <<Goal>>
                     ELSE queued
           Rest == {e \in Events : ~IsMessage(e)}
           begin == About("turn/start", id, "")
           start == About("step/start", id, "")
           turns == Event("inbox/claimed", id, "nextTurn", queued)
           taken == Event("inbox/claimed", id, "nextStep", steps)
           a == IF step = 0 THEN <<begin>> ELSE <<>>
           b == <<start>>
           c == IF queued # <<>> THEN <<turns>> ELSE <<>>
           d == IF steps # <<>> THEN <<taken>> ELSE <<>>
           pre == a \o b \o c \o d
<1>1. queued \in Seq(Given) /\ steps \in Seq(Given) /\ given \in Seq(Given)
  <2>1. Inbox["nextTurn"] \in Seq(Given) /\ Inbox["nextStep"] \in Seq(Given)
    BY InboxType DEF Boxes, Lanes
  <2>2. <<Goal>> \in Seq(Given) /\ <<>> \in Seq(Given)
    BY DEF Given
  <2> QED  BY <2>1, <2>2
<1>2. StepEvents(id, step) = pre \o UserMessages(id, given)
  BY DEF StepEvents, UserMessages
<1>3. begin \in Rest /\ start \in Rest /\ turns \in Rest /\ taken \in Rest
  <2> HIDE DEF queued, steps
  <2>1. begin \in Events /\ start \in Events /\ turns \in Events /\ taken \in Events
    BY <1>1, ClaimingTypes
  <2> QED  BY <2>1 DEF IsMessage, About, Event
<1>4. /\ turns.type = "inbox/claimed" /\ turns.what = "nextTurn" /\ turns.messages = queued
      /\ taken.type = "inbox/claimed" /\ taken.what = "nextStep" /\ taken.messages = steps
  BY DEF Event
<1>5. \A e \in Rest : e \in Events /\ ~IsMessage(e)
  OBVIOUS
<1>6. step > 0 => given = steps
  OBVIOUS
<1>7. step = 0 => queued = Inbox["nextTurn"] /\ (given = queued \/ (given = <<Goal>> /\ Places({"user/message"}) = {}))
  BY DEF Places
<1> HIDE DEF queued, given, Rest, begin, start, turns, taken
<1>8. a \in Seq(Rest) /\ b \in Seq(Rest) /\ c \in Seq(Rest) /\ d \in Seq(Rest)
  BY <1>3
<1>9. pre \in Seq(Rest)
  <2> HIDE DEF a, b, c, d
  <2> QED  BY <1>8
<1>10. pre \in Seq(Events) /\ \A j \in DOMAIN pre : ~IsMessage(pre[j])
  <2> HIDE DEF pre
  <2> QED  BY <1>5, <1>9
<1>11. queued # <<>> => \E j \in DOMAIN pre : pre[j] = turns
  <2> SUFFICES ASSUME queued # <<>> PROVE \E j \in DOMAIN pre : pre[j] = turns
    OBVIOUS
  <2> DEFINE ab == a \o b
  <2>1. c = <<turns>> /\ ab \in Seq(Rest) /\ pre = ab \o c \o d
    BY <1>8
  <2> HIDE DEF a, b, c, d, pre, ab
  <2>2. pre = ab \o <<turns>> \o d
    BY <2>1
  <2>3. /\ Len(ab) + 1 \in DOMAIN (ab \o <<turns>> \o d)
        /\ (ab \o <<turns>> \o d)[Len(ab) + 1] = turns
    BY <1>3, <1>8, <2>1, Between
  <2> QED  BY <2>2, <2>3
<1>12. steps # <<>> => \E j \in DOMAIN pre : pre[j] = taken
  <2> SUFFICES ASSUME steps # <<>> PROVE \E j \in DOMAIN pre : pre[j] = taken
    OBVIOUS
  <2> DEFINE abc == a \o b \o c
  <2>1. d = <<taken>> /\ abc \in Seq(Rest) /\ pre = abc \o d
    BY <1>8
  <2> HIDE DEF a, b, c, d, pre, abc
  <2>2. Len(abc) + 1 \in DOMAIN (abc \o <<taken>>) /\ (abc \o <<taken>>)[Len(abc) + 1] = taken
    BY <1>3, <2>1
  <2> QED  BY <2>1, <2>2
<1> HIDE DEF pre
<1>13. Backs(pre, given)
  <2>1. CASE step > 0
    <3>1. CASE given = <<>>
      BY <3>1 DEF Backs
    <3>2. CASE given # <<>>
      <4>1. given = Inbox["nextStep"] /\ "nextStep" \in Lanes
        BY <1>6, <2>1 DEF Lanes
      <4>2. PICK j \in DOMAIN pre : pre[j] = taken
        BY <1>6, <1>12, <2>1, <3>2
      <4> QED  BY <1>4, <1>6, <2>1, <4>1, <4>2 DEF Backs
    <3> QED  BY <3>1, <3>2
  <2>2. CASE step = 0 /\ given = queued
    <3>1. CASE given = <<>>
      BY <3>1 DEF Backs
    <3>2. CASE given # <<>>
      <4>1. given = Inbox["nextTurn"] /\ "nextTurn" \in Lanes
        BY <1>7, <2>2 DEF Lanes
      <4>2. PICK j \in DOMAIN pre : pre[j] = turns
        BY <1>11, <2>2, <3>2
      <4> QED  BY <1>4, <2>2, <4>1, <4>2 DEF Backs
    <3> QED  BY <3>1, <3>2
  <2>3. CASE given = <<Goal>> /\ Places({"user/message"}) = {}
    BY <2>3 DEF Backs
  <2> QED  BY <1>7, <2>1, <2>2, <2>3
<1> QED  BY <1>1, <1>2, <1>10, <1>13

(* The j-th event gives x, which was submitted and is claimed before, and, *)
(* unless it was submitted again, no other event does.                     *)
FreshAt(l, events, j, x) ==
  /\ Gives(events[j], x)
  /\ Once(l, x) => /\ \A i \in DOMAIN l : ~Gives(l[i], x)
                   /\ \A i \in DOMAIN events : Gives(events[i], x) => i = j
  /\ x # Goal => \E lane \in Lanes :
       /\ \E c \in DOMAIN events : c < j /\ Takes(events[c], lane, x)
       /\ \E i \in DOMAIN l : Submits(l[i], lane, x)

Fresh(l, events) ==
  \A j \in DOMAIN events : IsMessage(events[j]) => \E x \in Given : FreshAt(l, events, j, x)

(* What is given was submitted, and claimed after that.                    *)
Backed(l, x) ==
  x # Goal => \E lane \in Lanes : \E i, c \in DOMAIN l :
                i < c /\ Submits(l[i], lane, x) /\ Takes(l[c], lane, x)

GivenOnce(l) ==
  /\ \A j \in DOMAIN l : IsMessage(l[j]) => \E x \in Given : Gives(l[j], x) /\ Backed(l, x)
  /\ \A i, j \in DOMAIN l : \A x : Once(l, x) /\ Gives(l[i], x) /\ Gives(l[j], x) => i = j

(* The model is given a message once, by an event that is in the log or on *)
(* its way there, unless the message was submitted again.                  *)
Deliveries ==
  /\ GivenOnce(log)
  /\ \A k \in DOMAIN queue : Unseen(k) => Fresh(log, queue[k].events)

LEMMA BackedGives ==
  ASSUME NEW l, GivenOnce(l), NEW j \in DOMAIN l, NEW x, Gives(l[j], x)
  PROVE  Backed(l, x)
<1>1. PICK y \in Given : Gives(l[j], y) /\ Backed(l, y)
  BY DEF GivenOnce, Gives, Names, IsMessage
<1>2. <<x>> = <<y>>
  BY <1>1 DEF Gives, Names
<1>3. x = y
  BY <1>2
<1> QED  BY <1>1, <1>3

LEMMA OnceBefore ==
  ASSUME \A i \in DOMAIN log : i \in DOMAIN log' /\ log'[i] = log[i], NEW x, Once(log', x)
  PROVE  Once(log, x)
BY DEF Once

(* What a Step claims now has not been given before.                       *)
LEMMA StepEventsFresh ==
  ASSUME Base, Submissions, Deliveries, NEW id \in Nat, NEW step \in Nat
  PROVE  Fresh(log, StepEvents(id, step))
<1>1. log \in Seq(Events) /\ DOMAIN log = 1..Len(log) /\ Len(log) \in Nat
  BY DEF Base, TypeOK
<1>2. PICK pre \in Seq(Events), given \in Seq(Given) :
        /\ StepEvents(id, step) = pre \o UserMessages(id, given)
        /\ \A j \in DOMAIN pre : ~IsMessage(pre[j])
        /\ Backs(pre, given)
  BY <1>1, StepEventsGive
<1> DEFINE users  == UserMessages(id, given)
           events == StepEvents(id, step)
           p      == Len(pre)
<1>3. /\ p \in Nat /\ DOMAIN pre = 1..p /\ Len(given) \in Nat /\ DOMAIN given = 1..Len(given)
      /\ Len(users) = Len(given) /\ DOMAIN users = 1..Len(given)
  BY DEF UserMessages
<1>4. \A k \in DOMAIN given : Gives(users[k], given[k]) /\ \A x : Gives(users[k], x) => x = given[k]
  <2> SUFFICES ASSUME NEW k \in DOMAIN given
               PROVE  Gives(users[k], given[k]) /\ \A x : Gives(users[k], x) => x = given[k]
    OBVIOUS
  <2>1. users[k] = Event("user/message", id, "", <<given[k]>>)
    BY <1>3 DEF UserMessages
  <2>2. users[k].type = "user/message" /\ users[k].messages = <<given[k]>>
    <3> DEFINE event == Event("user/message", id, "", <<given[k]>>)
    <3>1. event.type = "user/message" /\ event.messages = <<given[k]>>
      BY DEF Event
    <3>2. users[k] = event
      BY <2>1
    <3> HIDE DEF users, event
    <3> QED  BY <3>1, <3>2
  <2>3. \A x, y : <<x>> = <<y>> => x = y
    OBVIOUS
  <2> QED  BY <2>2, <2>3 DEF Gives, Names
<1>5. users \in Seq(Events)
  <2>1. ASSUME NEW k \in 1..Len(given)
        PROVE  Event("user/message", id, "", <<given[k]>>) \in Events
    <3>1. <<given[k]>> \in Seq(Given)
      BY <1>3
    <3> QED  BY <3>1, ClaimingTypes
  <2> DEFINE user(k) == Event("user/message", id, "", <<given[k]>>)
  <2>2. users = [k \in 1..Len(given) |-> user(k)]
    BY DEF UserMessages
  <2>3. \A k \in 1..Len(given) : user(k) \in Events
    BY <2>1
  <2> HIDE DEF users, user
  <2> QED  BY <1>3, <2>2, <2>3
<1>6. /\ events = pre \o users
      /\ DOMAIN events = 1..p + Len(given)
      /\ \A j \in 1..p : events[j] = pre[j]
      /\ \A j \in DOMAIN events : j > p => j - p \in DOMAIN given /\ events[j] = users[j - p]
  <2>1. events = pre \o users
    BY <1>2
  <2> HIDE DEF users, events, p
  <2>2. p = Len(pre)
    BY DEF p
  <2>3. events \in Seq(Events) /\ Joins(events, pre, users)
    BY <1>5, <2>1, Concat
  <2>4. DOMAIN events = 1..p + Len(given)
    BY <1>3, <2>2, <2>3 DEF Joins
  <2>5. ASSUME NEW j \in DOMAIN events, j > p
        PROVE  j - p \in DOMAIN given /\ events[j] = users[j - p]
    <3>1. j - p \in 1..Len(given) /\ p + (j - p) = j
      BY <1>3, <2>4, <2>5
    <3> QED  BY <1>3, <2>2, <2>3, <3>1 DEF Joins
  <2> QED  BY <1>3, <2>1, <2>2, <2>3, <2>4, <2>5 DEF Joins
<1> HIDE DEF users, events, p
<1> SUFFICES ASSUME NEW j \in DOMAIN events, IsMessage(events[j])
             PROVE  \E x \in Given : FreshAt(log, events, j, x)
  BY DEF Fresh, events
<1>7. j > p
  <2>1. j \notin 1..p
    BY <1>2, <1>3, <1>6
  <2> QED  BY <1>3, <1>6, <2>1
<1>8. j - p \in DOMAIN given /\ events[j] = users[j - p]
  BY <1>6, <1>7
<1>9. PICK x \in Given : x = given[j - p]
  BY <1>3, <1>8
<1>10. Gives(events[j], x)
  BY <1>4, <1>8, <1>9
<1>11. ASSUME NEW i \in DOMAIN events, Gives(events[i], x)
       PROVE  i > p /\ i - p \in DOMAIN given /\ given[i - p] = x
  <2>1. i \notin 1..p
    BY <1>2, <1>3, <1>6, <1>11 DEF Gives, Names, IsMessage
  <2>2. i > p
    BY <1>3, <1>6, <2>1
  <2>3. i - p \in DOMAIN given /\ events[i] = users[i - p]
    BY <1>6, <2>2
  <2> QED  BY <1>4, <1>11, <2>2, <2>3
<1>12. x \in Unique(log) /\ SingleOf(given, Unique(log)) =>
         \A i \in DOMAIN events : Gives(events[i], x) => i = j
  <2> SUFFICES ASSUME x \in Unique(log), SingleOf(given, Unique(log)),
                      NEW i \in DOMAIN events, Gives(events[i], x)
               PROVE  i = j
    OBVIOUS
  <2>1. i - p = j - p
    BY <1>8, <1>9, <1>11 DEF SingleOf
  <2> QED  BY <1>3, <1>6, <2>1
<1>13. CASE given = <<Goal>> /\ Places({"user/message"}) = {}
  <2>1. x = Goal /\ SingleOf(given, Unique(log))
    <3>1. DOMAIN <<Goal>> = {1} /\ <<Goal>>[1] = Goal
      OBVIOUS
    <3> QED  BY <1>8, <1>9, <1>13, <3>1 DEF SingleOf
  <2>2. \A i \in DOMAIN log : ~Gives(log[i], x)
    BY <1>13 DEF Places, Gives, Names
  <2> QED  BY <1>10, <1>12, <2>1, <2>2 DEF FreshAt, Unique
<1>14. ASSUME NEW lane \in Lanes, given = Inbox[lane],
              NEW c \in DOMAIN pre,
              pre[c].type = "inbox/claimed", pre[c].what = lane, pre[c].messages = given
       PROVE  FreshAt(log, events, j, x)
  <2>1. Holds(Inbox, Len(log))
    BY <1>1, InboxHolds
  <2>2. SingleOf(given, Unique(log)) /\ Queued(Len(log), lane, x)
    BY <1>8, <1>9, <1>14, <2>1 DEF Holds
  <2>3. PICK i \in DOMAIN log :
          Submits(log[i], lane, x) /\ \A d \in i + 1..Len(log) : ~Takes(log[d], lane, x)
    BY <1>1, <2>2 DEF Queued
  <2>4. x \in Messages /\ x # Goal
    <3>1. PICK m \in Messages, other \in Lanes : Submits(log[i], other, m)
      BY <2>3 DEF Submissions, Submits, Names, IsEnqueue, Submission
    <3>2. <<m>> = <<x>>
      BY <2>3, <3>1 DEF Submits, Names
    <3>3. m = x
      BY <3>2
    <3> QED  BY <3>3, RuntimeAssumption
  <2>5. ASSUME Once(log, x), NEW h \in DOMAIN log, Gives(log[h], x) PROVE FALSE
    <3>1. PICK other \in Lanes, f \in DOMAIN log, d \in DOMAIN log :
            f < d /\ Submits(log[f], other, x) /\ Takes(log[d], other, x)
      BY <2>4, <2>5, BackedGives DEF Deliveries, Backed
    <3>2. f = i
      BY <2>3, <2>5, <3>1 DEF Once, Submits
    <3>3. other = lane
      BY <2>3, <3>1, <3>2 DEF Submits
    <3>4. d \in i + 1..Len(log)
      BY <1>1, <3>1, <3>2
    <3> QED  BY <2>3, <3>1, <3>3, <3>4
  <2>6. Contains(given, x)
    BY <1>3, <1>8, <1>9 DEF Contains
  <2>7. c \in DOMAIN events /\ c < j /\ Takes(events[c], lane, x)
    <3>1. c \in 1..p /\ c \in DOMAIN events /\ c < j /\ events[c] = pre[c]
      BY <1>3, <1>6, <1>7
    <3> QED  BY <1>14, <2>6, <3>1 DEF Takes
  <2>8. Once(log, x) => \A h \in DOMAIN events : Gives(events[h], x) => h = j
    BY <1>12, <2>2 DEF Unique
  <2> QED  BY <1>10, <2>3, <2>5, <2>7, <2>8 DEF FreshAt
<1>15. given # <<>>
  BY <1>3, <1>8
<1> QED  BY <1>2, <1>13, <1>14, <1>15 DEF Backs

(* Only the Turn gives messages to the model.                              *)
LEMMA TurnGives ==
  ASSUME Base, NEW k \in DOMAIN queue, NEW j \in DOMAIN queue[k].events,
         IsMessage(queue[k].events[j])
  PROVE  queue[k].then = "turn"
<1> DEFINE events == queue[k].events
<1>1. Proper(queue[k])
  BY DEF Base, Owned
<1>2. ~(queue[k].then \in Replies /\ \A i \in DOMAIN events : events[i].type \in PlainTypes)
  BY DEF IsMessage, PlainTypes, CommandTypes
<1>3. ~(\E c \in 1..ids : events = <<About("tool/approval", c, queue[k].then)>>)
  <2> SUFFICES ASSUME NEW c \in 1..ids, events = <<About("tool/approval", c, queue[k].then)>>
               PROVE  FALSE
    OBVIOUS
  <2>1. j = 1 /\ events[1] = About("tool/approval", c, queue[k].then)
    OBVIOUS
  <2> QED  BY <2>1 DEF IsMessage, About, Event
<1> QED  BY <1>1, <1>2, <1>3 DEF Proper, ProperOf

(* What gives nothing is fresh.                                            *)
Mute(entry) == \A j \in DOMAIN entry.events : ~IsMessage(entry.events[j])

(* New entries are fresh.                                                  *)
LEMMA NewDeliveries ==
  ASSUME Base, Submissions, Deliveries, Serves \/ Decides \/ TurnForm
  PROVE  \E d, new : Slides(d, new) /\ \A k \in DOMAIN new : Fresh(log, new[k].events)
<1>1. \A entry : Mute(entry) => Fresh(log, entry.events)
  BY DEF Mute, Fresh
<1>2. \A entry : PlainEntry(entry) => Mute(entry)
  BY DEF PlainEntry, PlainTypes, CommandTypes, Mute, IsMessage
<1>3. CASE Serves
  <2>1. PICK d, new : Slides(d, new) /\ \A k \in DOMAIN new : PlainEntry(new[k])
    BY <1>3 DEF Serves
  <2> QED  BY <1>1, <1>2, <2>1
<1>4. CASE Decides
  <2>1. PICK status \in Verdicts :
          Slides(0, <<Entry(<<About("tool/approval", pendingDecision, status)>>, status)>>)
    BY <1>4 DEF Decides
  <2> DEFINE event == About("tool/approval", pendingDecision, status)
             entry == Entry(<<event>>, status)
             new == <<entry>>
  <2>2. DOMAIN new = {1} /\ new[1] = entry
    OBVIOUS
  <2>3. Mute(entry)
    <3>1. entry.events = <<event>> /\ event.type = "tool/approval"
      BY DEF Entry, About, Event
    <3>2. DOMAIN <<event>> = {1} /\ <<event>>[1] = event
      OBVIOUS
    <3> QED  BY <3>1, <3>2 DEF Mute, IsMessage
  <2>4. Slides(0, new)
    BY <2>1
  <2> HIDE DEF new, entry, event
  <2> QED  BY <1>1, <2>2, <2>3, <2>4
<1>5. CASE Claims \/ Waiting \/ Executes \/ Leaves
  <2> DEFINE new == <<>>
  <2>1. Slides(1, new) /\ DOMAIN new = {}
    BY <1>5 DEF Claims, Waiting, Executes, Leaves, Arrives
  <2> HIDE DEF new
  <2> QED  BY <2>1
<1>6. CASE Begins \/ MakesCall \/ Requests \/ Dispatching \/ Advances
  <2>1. PICK d, events : Awaits(d, events)
    BY <1>6 DEF Begins, MakesCall, Requests, Dispatching, Advances
  <2>2. PICK new :
          /\ Slides(d, new)
          /\ Len(new) > 0 /\ new[Len(new)] = Entry(events, "turn")
          /\ \A k \in 1..Len(new) - 1 : PlainEntry(new[k])
    BY <2>1 DEF Awaits
  <2>3. new \in Seq(Entries)
    BY <2>2 DEF Slides
  <2>4. \A k \in DOMAIN new : k = Len(new) \/ k \in 1..Len(new) - 1
    BY <2>3
  <2>5. Owes(turn', events) /\ ClaimsNow(turn', events) /\ turn' \in TurnRecord
    BY <2>1 DEF Awaits
  <2>6. Fresh(log, events)
    <3>1. CASE turn'.pc = "claiming"
      <4>1. PICK step \in Nat : events = StepEvents(turn'.id, step)
        BY <2>5, <3>1 DEF ClaimsNow
      <4>2. PICK id \in Nat : id = turn'.id
        BY <2>5 DEF TurnRecord
      <4>3. events = StepEvents(id, step)
        BY <4>1, <4>2
      <4> QED  BY <4>3, StepEventsFresh
    <3>2. CASE turn'.pc # "claiming"
      BY <2>5, <3>2 DEF Owes, Suits, Fresh, IsMessage
    <3> QED  BY <3>1, <3>2
  <2>7. Entry(events, "turn").events = events
    BY DEF Entry
  <2> QED  BY <1>1, <1>2, <2>2, <2>4, <2>6, <2>7
<1> QED  BY <1>3, <1>4, <1>5, <1>6 DEF TurnForm

(* What is put in the log has not been given before.                       *)
LEMMA GrownDeliveries ==
  ASSUME Base, Deliveries, NEW n, Grows(n)
  PROVE  GivenOnce(log')
<1> DEFINE events == queue[1].events
<1>1. /\ \A i \in DOMAIN log' : \/ i \in DOMAIN log /\ log'[i] = log[i]
                                \/ /\ i > Len(log) /\ i - Len(log) \in 1..n
                                   /\ log'[i] = events[i - Len(log)]
      /\ 1..n \subseteq DOMAIN events /\ DOMAIN log' = 1..Len(log) + n
      /\ Len(log) \in Nat /\ DOMAIN log = 1..Len(log) /\ n \in Nat
      /\ \A i \in DOMAIN log : i \in DOMAIN log' /\ log'[i] = log[i]
  BY Positions DEF Base
<1>2. \A j \in 1..n : log'[Len(log) + j] = events[j]
  BY DEF Grows
<1>3. 1 \in DOMAIN queue /\ Unseen(1)
  BY DEF Grows, Unseen
<1>4. Fresh(log, events) /\ GivenOnce(log)
  BY <1>3 DEF Deliveries
<1>5. \A x : Backed(log, x) => Backed(log', x)
  BY <1>1 DEF Backed
<1>6. \A x, y : <<x>> = <<y>> => x = y
  OBVIOUS
<1>7. ASSUME NEW i \in DOMAIN log', IsMessage(log'[i])
      PROVE  \E x \in Given : Gives(log'[i], x) /\ Backed(log', x)
  <2>1. CASE i \in DOMAIN log /\ log'[i] = log[i]
    BY <1>4, <1>5, <1>7, <2>1 DEF GivenOnce
  <2>2. CASE i > Len(log) /\ i - Len(log) \in 1..n /\ log'[i] = events[i - Len(log)]
    <3>1. PICK j \in 1..n : j = i - Len(log)
      BY <2>2
    <3>2. PICK x \in Given : FreshAt(log, events, j, x)
      BY <1>1, <1>4, <1>7, <2>2, <3>1 DEF Fresh
    <3>3. Gives(log'[i], x)
      BY <2>2, <3>1, <3>2 DEF FreshAt
    <3>4. Backed(log', x)
      <4> SUFFICES ASSUME x # Goal PROVE Backed(log', x)
        BY DEF Backed
      <4>1. PICK lane \in Lanes :
              /\ \E c \in DOMAIN events : c < j /\ Takes(events[c], lane, x)
              /\ \E h \in DOMAIN log : Submits(log[h], lane, x)
        BY <3>2 DEF FreshAt
      <4>2. PICK c \in DOMAIN events : c < j /\ Takes(events[c], lane, x)
        BY <4>1
      <4>3. PICK h \in DOMAIN log : Submits(log[h], lane, x)
        BY <4>1
      <4>4. events \in Seq(Events)
        BY Positions DEF Base
      <4>5. c \in 1..n
        BY <1>1, <4>2, <4>4
      <4>6. Len(log) + c \in DOMAIN log' /\ h < Len(log) + c
        BY <1>1, <4>5
      <4>7. Takes(log'[Len(log) + c], lane, x)
        BY <1>2, <4>2, <4>5
      <4>8. h \in DOMAIN log' /\ Submits(log'[h], lane, x)
        BY <1>1, <4>3
      <4> QED  BY <4>6, <4>7, <4>8 DEF Backed
    <3> QED  BY <3>3, <3>4
  <2> QED  BY <1>1, <2>1, <2>2
<1>8. ASSUME NEW i \in DOMAIN log', i \notin DOMAIN log,
             NEW x, Once(log', x), Gives(log'[i], x)
      PROVE  /\ i - Len(log) \in 1..n
             /\ \A h \in DOMAIN log : ~Gives(log[h], x)
             /\ \A h \in DOMAIN events : Gives(events[h], x) => h = i - Len(log)
  <2>1. PICK j \in 1..n : j = i - Len(log) /\ log'[i] = events[j]
    BY <1>1, <1>8
  <2>2. IsMessage(events[j])
    BY <1>8, <2>1 DEF Gives, Names, IsMessage
  <2>3. PICK y \in Given : FreshAt(log, events, j, y)
    BY <1>1, <1>4, <2>2 DEF Fresh
  <2>4. <<x>> = <<y>>
    BY <1>8, <2>1, <2>3 DEF FreshAt, Gives, Names
  <2>5. x = y
    BY <1>6, <2>4
  <2>6. Once(log, x)
    BY <1>1, <1>8, OnceBefore
  <2> QED  BY <2>1, <2>3, <2>5, <2>6 DEF FreshAt
<1>9. ASSUME NEW i \in DOMAIN log', NEW j \in DOMAIN log', NEW x, Once(log', x),
             Gives(log'[i], x), Gives(log'[j], x)
      PROVE  i = j
  <2>1. CASE i \in DOMAIN log /\ j \in DOMAIN log
    <3>1. Once(log, x)
      BY <1>1, <1>9, OnceBefore
    <3> QED  BY <1>1, <1>4, <1>9, <2>1, <3>1 DEF GivenOnce
  <2>2. CASE i \notin DOMAIN log /\ j \in DOMAIN log
    BY <1>1, <1>8, <1>9, <2>2
  <2>3. CASE i \in DOMAIN log /\ j \notin DOMAIN log
    BY <1>1, <1>8, <1>9, <2>3
  <2>4. CASE i \notin DOMAIN log /\ j \notin DOMAIN log
    <3>1. j - Len(log) \in 1..n /\ log'[j] = events[j - Len(log)] /\ j - Len(log) \in DOMAIN events
      BY <1>1, <2>4
    <3>2. j - Len(log) = i - Len(log)
      BY <1>8, <1>9, <2>4, <3>1
    <3> QED  BY <1>1, <3>2
  <2> QED  BY <2>1, <2>2, <2>3, <2>4
<1> QED  BY <1>7, <1>9 DEF GivenOnce

LEMMA DeliveriesNext ==
  ASSUME Base, Submissions, Deliveries, [Next]_vars
  PROVE  Deliveries'
<1>1. CASE Serves \/ Decides \/ TurnForm
  <2>1. PICK d, new : Slides(d, new) /\ \A k \in DOMAIN new : Fresh(log, new[k].events)
    BY <1>1, NewDeliveries
  <2>2. TypeOK /\ log' = log /\ queue' \in Seq(Entries)
    BY <2>1 DEF Base, Slides, Queues
  <2>3. ASSUME NEW k \in DOMAIN queue', Unseen(k)'
        PROVE  Fresh(log, queue'[k].events)
    <3> DEFINE P == { entry \in Entries : ~Fresh(log, entry.events) }
    <3>1. SUFFICES ASSUME queue'[k] \in P PROVE FALSE
      BY <2>2
    <3>2. \A i \in DOMAIN new : new[i] \notin P
      BY <2>1
    <3>3. \A entry \in P : ~Fresh(log, entry.events)
      OBVIOUS
    <3> HIDE DEF P
    <3>4. k + d \in DOMAIN queue /\ queue'[k] = queue[k + d] /\ Unseen(k + d)
      BY <2>1, <2>2, <2>3, <3>1, <3>2, SlidEntries
    <3> QED  BY <3>1, <3>3, <3>4 DEF Deliveries
  <2> QED  BY <2>2, <2>3 DEF Deliveries
<1>2. CASE Restarts
  <2>1. DOMAIN queue' = {}
    BY <1>2 DEF Restarts
  <2>2. GivenOnce(log')
    <3>1. GivenOnce(log)
      BY DEF Deliveries
    <3> QED  BY <1>2, <3>1, RestartGrows, GrownDeliveries DEF Base
  <2> QED  BY <2>1, <2>2 DEF Deliveries
<1>3. CASE Commit
  <2>1. Grows(Len(queue[1].events)) /\ shown' = TRUE /\ queue' = queue
    BY <1>3, CommitForm DEF Base
  <2>2. GivenOnce(log')
    BY <2>1, GrownDeliveries
  <2>3. ASSUME NEW k \in DOMAIN queue, Unseen(k)'
        PROVE  Fresh(log', queue[k].events)
    <3> DEFINE events == queue[k].events
    <3>1. 1 \in DOMAIN queue /\ Unseen(k) /\ k # 1
      BY <2>1, <2>3 DEF Unseen, Grows
    <3>2. Fresh(log, events)
      BY <3>1 DEF Deliveries
    <3> SUFFICES ASSUME NEW j \in DOMAIN events, IsMessage(events[j])
                 PROVE  \E x \in Given : FreshAt(log', events, j, x)
      BY DEF Fresh
    <3>3. PICK x \in Given : FreshAt(log, events, j, x)
      BY <3>2 DEF Fresh
    <3>4. queue[k].then = "turn"
      BY TurnGives
    <3>5. Mute(queue[1])
      <4> SUFFICES ASSUME NEW h \in DOMAIN queue[1].events, IsMessage(queue[1].events[h])
                   PROVE  FALSE
        BY DEF Mute
      <4>1. queue[1].then = "turn"
        BY <3>1, TurnGives
      <4> QED  BY <3>1, <3>4, <4>1 DEF Base, Owned
    <3>6. /\ \A i \in DOMAIN log' : \/ i \in DOMAIN log /\ log'[i] = log[i]
                                    \/ IsMessage(log'[i]) = FALSE
          /\ \A i \in DOMAIN log : i \in DOMAIN log' /\ log'[i] = log[i]
      BY <2>1, <3>5, Positions DEF Base, Mute
    <3>7. Once(log', x) => Once(log, x) /\ \A i \in DOMAIN log' : ~Gives(log'[i], x)
      <4> SUFFICES ASSUME Once(log', x)
                   PROVE  Once(log, x) /\ \A i \in DOMAIN log' : ~Gives(log'[i], x)
        OBVIOUS
      <4>1. Once(log, x)
        BY <3>6, OnceBefore
      <4> QED  BY <3>3, <3>6, <4>1 DEF FreshAt, Gives, Names, IsMessage
    <3>8. FreshAt(log', events, j, x)
      <4> HIDE DEF events
      <4> QED  BY <3>3, <3>6, <3>7 DEF FreshAt
    <3> QED  BY <3>8
  <2> QED  BY <2>1, <2>2, <2>3 DEF Deliveries
<1> QED  BY <1>1, <1>2, <1>3, Steps

(* The invariant on what the model is given.                               *)
THEOREM DeliveriesHold == Spec => []Deliveries
<1>1. Init => Deliveries
  <2> SUFFICES ASSUME Init PROVE Deliveries
    OBVIOUS
  <2>1. DOMAIN log = {} /\ DOMAIN queue = {}
    BY DEF Init
  <2> QED  BY <2>1 DEF Deliveries, GivenOnce
<1>2. Base /\ Submissions /\ Deliveries /\ [Next]_vars => Deliveries'
  BY DeliveriesNext
<1> QED  BY <1>1, <1>2, BaseHolds, SubmissionsHold, PTL DEF Spec

(* The model is given no message twice, also when the client sends one     *)
(* again after a crash, if the log holds one submission of it at most: a   *)
(* Step claims what it gives before it gives it (runTurn), in one append.  *)
THEOREM DeliversOnce == Spec => []DeliveredOnce
<1>1. Deliveries => DeliveredOnce
  <2> SUFFICES ASSUME Deliveries,
                      NEW i \in Places({"user/message"}), NEW j \in Places({"user/message"}),
                      log[i].messages = log[j].messages, ~SubmittedTwice(log[i].messages)
               PROVE  i = j
    BY DEF DeliveredOnce
  <2>1. i \in DOMAIN log /\ j \in DOMAIN log /\ IsMessage(log[i]) /\ IsMessage(log[j])
    BY DEF Places, IsMessage
  <2>2. PICK x \in Given : Gives(log[i], x)
    BY <2>1 DEF Deliveries, GivenOnce
  <2>3. Gives(log[j], x)
    BY <2>1, <2>2 DEF Gives, Names, IsMessage
  <2>4. Once(log, x)
    BY <2>2 DEF SubmittedTwice, Once, Gives, Names, Places
  <2> QED  BY <2>1, <2>2, <2>3, <2>4 DEF Deliveries, GivenOnce
<1> QED  BY <1>1, DeliveriesHold, PTL
================================================================================
