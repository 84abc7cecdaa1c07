-------------------------- MODULE SessionStream_proofs --------------------------
(***************************************************************************)
(* Theorems about SessionStream, for any number of calls, events, losses   *)
(* and failures, and any two page sizes.                                   *)
(***************************************************************************)
EXTENDS SessionStream, SequenceTheorems, FiniteSetTheorems, Induction

(* The first n events.                                                     *)
Log(n) == [i \in 1..n |-> i]

(* How many events the client has.                                         *)
Read == Len(client.events)

(* Where a process awaits something for the event it is taking in.         *)
Ingesting == {"backfill", "resync1", "refetch1", "resync2", "refetch2"}

WorkPlaces == {"ingest"} \cup Ingesting

(* The types, when n events have been committed: nothing later than those  *)
(* is anywhere, and the client has the log up to some event.               *)
Logs(n) == {Log(m) : m \in 0..n}

ClientUpTo(n) ==
  [events : Logs(n), unlisten : Calls \cup {None},
   buffering : BOOLEAN, buffered : Seq(1..n)]

Places == {"new", "ingest", "done", "failed"} \cup Waits

ProcessUpTo(n) ==
  {r \in [at : Places, opens : BOOLEAN, todo : Seq(1..n), cursor : 0..n, asked : 0..n] :
     r.at \in Ingesting => r.todo # <<>>}

Known(n) ==
  /\ wire \in Seq(1..n)
  /\ client \in ClientUpTo(n)
  /\ proc \in [Process -> ProcessUpTo(n)]
  /\ since \in [Calls -> 0..n]
  /\ shown \in 0..n /\ lost \subseteq 1..n

Typed ==
  /\ committed \in 0..MaxEvents /\ Known(committed)
  /\ faults \in 0..MaxFaults
  /\ subs \subseteq Calls /\ IsFiniteSet(subs)
  /\ proc[Work].at \in WorkPlaces

(* While no call to the core has failed the client never loses what it has *)
(* read, no connect fails, and a call that reads has asked late enough.    *)
Healthy(p) ==
  /\ proc[p].at \notin {"resync1", "refetch1", "resync2", "refetch2", "failed"}
  /\ proc[p].at \in {"fetch", "backfill"} => proc[p].cursor <= Read
  /\ proc[p].at = "backfill" => Head(proc[p].todo) <= proc[p].asked

Covers(c) ==
  /\ proc[c].at = "fetch" => since[c] <= proc[c].asked
  /\ proc[c].at \in {"ingest", "backfill"} => since[c] <= Read

Fine ==
  /\ shown <= Read
  /\ \A p \in Process : Healthy(p)
  /\ \A c \in Calls : Covers(c)

Gapless == faults = 0 /\ PageSize <= MaxLimit => Fine

(* When the core refuses every page, no call gets past its first one, and  *)
(* a full resync leaves the client empty for good: the first event is the  *)
(* only one that an empty client can take in, and it comes first.          *)
NoFirst(s) == \A i \in DOMAIN s : s[i] # 1

FirstComes(todo) ==
  /\ wire # <<>> => NoFirst(Tail(wire))
  /\ \A i, j \in DOMAIN todo : i < j /\ todo[j] = 1 => todo[i] = 1
  /\ ~NoFirst(wire) => \A i \in DOMAIN todo : todo[i] = 1

Refused ==
  /\ \A c \in Calls :
       proc[c].at \in {"new", "subscribe", "snapshot", "fetch", "done", "failed"}
  /\ FirstComes(proc[Work].todo)
  /\ proc[Work].at # "ingest" => Head(proc[Work].todo) # 1
  /\ \/ shown <= Read
     \/ Read = 0 /\ committed > 0 /\ NoFirst(proc[Work].todo) /\ NoFirst(wire)

Stuck == PageSize > MaxLimit => Refused

-----------------------------------------------------------------------------
(* Sorting.  The permutation that Sorted chooses exists: by induction on   *)
(* the length, the last element is inserted after those that are not       *)
(* greater.                                                                *)

LEMMA InsertPosition ==
  ASSUME NEW n \in Nat, NEW t, NEW x \in Nat,
         \A i \in 1..n : t[i] \in Nat,
         \A i, j \in 1..n : i < j => t[i] <= t[j]
  PROVE  \E k \in 1..n + 1 : /\ \A i \in 1..n : i < k => t[i] <= x
                             /\ \A i \in 1..n : i >= k => x <= t[i]
<1> DEFINE T == {i \in 1..n + 1 : i = n + 1 \/ t[i] > x}
<1>1. PICK k \in T : \A i \in T : k <= i
  <2>1. T \subseteq Nat /\ n + 1 \in T
    OBVIOUS
  <2> QED  BY <2>1, LeastElement
<1>2. \A i \in 1..n : i < k => t[i] <= x
  BY <1>1
<1>3. \A i \in 1..n : i >= k => x <= t[i]
  BY <1>1
<1> QED  BY <1>1, <1>2, <1>3

IsPermutation(p, n) ==
  /\ \A i \in 1..n : p[i] \in 1..n
  /\ \A i, j \in 1..n : p[i] = p[j] => i = j
  /\ \A m \in 1..n : \E i \in 1..n : p[i] = m

LEMMA InsertSorts ==
  ASSUME NEW n \in Nat, NEW s, \A i \in 1..n + 1 : s[i] \in Nat,
         NEW p, IsPermutation(p, n),
         \A i, j \in 1..n : i < j => s[p[i]] <= s[p[j]]
  PROVE  \E q \in [1..n + 1 -> 1..n + 1] :
           /\ IsPermutation(q, n + 1)
           /\ \A i, j \in 1..n + 1 : i < j => s[q[i]] <= s[q[j]]
<1> DEFINE t == [i \in 1..n |-> s[p[i]]]
<1>1. \A i \in 1..n : p[i] \in 1..n + 1 /\ p[i] # n + 1
  BY DEF IsPermutation
<1>2. \A i \in 1..n : t[i] = s[p[i]] /\ t[i] \in Nat
  BY <1>1
<1> HIDE DEF t
<1>3. \A i, j \in 1..n : i < j => t[i] <= t[j]
  BY <1>2
<1>4. PICK k \in 1..n + 1 : /\ \A i \in 1..n : i < k => t[i] <= s[n + 1]
                            /\ \A i \in 1..n : i >= k => s[n + 1] <= t[i]
  <2>1. s[n + 1] \in Nat
    OBVIOUS
  <2> QED  BY <1>2, <1>3, <2>1, InsertPosition
<1> DEFINE q == [i \in 1..n + 1 |-> IF i < k THEN p[i] ELSE IF i = k THEN n + 1 ELSE p[i - 1]]
<1>5. /\ \A i \in 1..n : i < k => q[i] = p[i]
      /\ q[k] = n + 1
      /\ \A i \in 1..n : i >= k => q[i + 1] = p[i]
  OBVIOUS
<1>6. q \in [1..n + 1 -> 1..n + 1]
  BY <1>1
<1> HIDE DEF q
(* Where an index of q comes from.                                         *)
<1>7. \A i \in 1..n + 1 : \/ i < k /\ i \in 1..n
                          \/ i = k
                          \/ i > k /\ i - 1 \in 1..n /\ i - 1 >= k
  OBVIOUS
<1>8. \A i \in 1..n + 1 : \/ i < k /\ q[i] = p[i] /\ i \in 1..n
                          \/ i = k /\ q[i] = n + 1
                          \/ i > k /\ q[i] = p[i - 1] /\ i - 1 \in 1..n
  <2> TAKE i \in 1..n + 1
  <2>1. i > k => q[(i - 1) + 1] = p[i - 1]
    BY <1>5, <1>7
  <2> QED  BY <1>5, <1>7, <2>1
<1>9. IsPermutation(q, n + 1)
  <2>1. ASSUME NEW i \in 1..n + 1, NEW j \in 1..n + 1, q[i] = q[j] PROVE i = j
    <3>1. \A a, b \in 1..n : p[a] = p[b] => a = b
      BY DEF IsPermutation
    <3> QED  BY <1>1, <1>8, <2>1, <3>1
  <2>2. ASSUME NEW m \in 1..n + 1 PROVE \E i \in 1..n + 1 : q[i] = m
    <3>1. CASE m = n + 1
      BY <1>5, <3>1
    <3>2. CASE m \in 1..n
      <4>1. PICK i \in 1..n : p[i] = m
        BY <3>2 DEF IsPermutation
      <4>2. CASE i < k
        BY <1>5, <4>1, <4>2
      <4>3. CASE i >= k
        BY <1>5, <4>1, <4>3
      <4> QED  BY <4>2, <4>3
    <3> QED  BY <3>1, <3>2
  <2>3. \A i \in 1..n + 1 : q[i] \in 1..n + 1
    BY <1>6
  <2> QED  BY <2>1, <2>2, <2>3 DEF IsPermutation
<1>10. ASSUME NEW i \in 1..n + 1, NEW j \in 1..n + 1, i < j
       PROVE  s[q[i]] <= s[q[j]]
  <2>1. \/ i < k /\ q[i] = p[i] /\ i \in 1..n
        \/ i = k /\ q[i] = n + 1
        \/ i > k /\ q[i] = p[i - 1] /\ i - 1 \in 1..n
    BY <1>8
  <2>2. \/ j < k /\ q[j] = p[j] /\ j \in 1..n
        \/ j = k /\ q[j] = n + 1
        \/ j > k /\ q[j] = p[j - 1] /\ j - 1 \in 1..n
    BY <1>8
  <2>3. CASE j < k
    BY <1>10, <2>1, <2>2, <2>3
  <2>4. CASE j = k
    BY <1>10, <1>2, <1>4, <2>1, <2>2, <2>4
  <2>5. CASE j > k /\ i < k
    <3>1. t[i] <= s[n + 1] /\ s[n + 1] <= t[j - 1]
      BY <1>4, <2>1, <2>2, <2>5
    <3>2. s[q[i]] = t[i] /\ s[q[j]] = t[j - 1] /\ t[i] \in Nat /\ t[j - 1] \in Nat
      BY <1>2, <2>1, <2>2, <2>5
    <3>3. s[n + 1] \in Nat
      OBVIOUS
    <3> QED  BY <3>1, <3>2, <3>3
  <2>6. CASE j > k /\ i = k
    BY <1>10, <1>2, <1>4, <2>1, <2>2, <2>6
  <2>7. CASE i > k
    BY <1>10, <2>1, <2>2, <2>7
  <2> QED  BY <2>3, <2>4, <2>5, <2>6, <2>7
<1> QED  BY <1>6, <1>9, <1>10

LEMMA SortExists ==
  ASSUME NEW n \in Nat, NEW s, \A i \in 1..n : s[i] \in Nat
  PROVE  \E p \in [1..n -> 1..n] :
           IsPermutation(p, n) /\ \A i, j \in 1..n : i < j => s[p[i]] <= s[p[j]]
<1> DEFINE Sorting(m, p) ==
             IsPermutation(p, m) /\ \A i, j \in 1..m : i < j => s[p[i]] <= s[p[j]]
           T == {m \in Nat : m <= n => \E p \in [1..m -> 1..m] : Sorting(m, p)}
<1>1. 0 \in T
  <2>1. Sorting(0, [i \in 1..0 |-> i])
    BY DEF IsPermutation
  <2>2. [i \in 1..0 |-> i] \in [1..0 -> 1..0]
    OBVIOUS
  <2> QED  BY <2>1, <2>2
<1>2. ASSUME NEW m \in Nat, m \in T PROVE m + 1 \in T
  <2> SUFFICES ASSUME m + 1 <= n
               PROVE  \E q \in [1..m + 1 -> 1..m + 1] : Sorting(m + 1, q)
    OBVIOUS
  <2>1. PICK p \in [1..m -> 1..m] : Sorting(m, p)
    BY <1>2
  <2>2. \A i \in 1..m + 1 : s[i] \in Nat
    OBVIOUS
  <2> QED  BY <2>1, <2>2, InsertSorts
<1> HIDE DEF T
<1>3. Nat \subseteq T
  BY <1>1, <1>2, SetInduction
<1>4. n \in T
  BY <1>3
<1> QED  BY <1>4 DEF T

(* What connect takes in is what was buffered.                             *)
LEMMA SortedType ==
  ASSUME NEW n \in Nat, NEW s \in Seq(1..n)
  PROVE  Sorted(s) \in Seq(1..n)
<1> DEFINE Order(p) == \A i, j \in DOMAIN s : i < j => s[p[i]] <= s[p[j]]
           order == CHOOSE p \in Bijection(DOMAIN s, DOMAIN s) : Order(p)
<1>1. /\ Len(s) \in Nat /\ DOMAIN s = 1..Len(s)
      /\ \A i \in 1..Len(s) : s[i] \in 1..n /\ s[i] \in Nat
  BY LenProperties, ElementOfSeq
<1>2. \E p \in Bijection(DOMAIN s, DOMAIN s) : Order(p)
  <2>1. PICK p \in [1..Len(s) -> 1..Len(s)] :
          /\ IsPermutation(p, Len(s))
          /\ \A i, j \in 1..Len(s) : i < j => s[p[i]] <= s[p[j]]
    BY <1>1, SortExists
  <2>2. p \in Bijection(DOMAIN s, DOMAIN s)
    BY <1>1, <2>1 DEF Bijection, Injection, Surjection, IsInjective, IsPermutation
  <2> QED  BY <1>1, <2>1, <2>2
<1>3. order \in Bijection(DOMAIN s, DOMAIN s)
  BY <1>2
<1>4. order \in [DOMAIN s -> DOMAIN s]
  BY <1>3 DEF Bijection, Injection
<1>5. Sorted(s) = [i \in DOMAIN s |-> s[order[i]]]
  BY DEF Sorted
<1> HIDE DEF order
<1>6. \A i \in 1..Len(s) : s[order[i]] \in 1..n
  BY <1>1, <1>4, ElementOfSeq
<1> QED  BY <1>1, <1>5, <1>6

-----------------------------------------------------------------------------
(* Merging.                                                                *)

LEMMA LogProperties ==
  ASSUME NEW n \in Nat
  PROVE  /\ Log(n) \in Seq(1..n) /\ Log(n) \in Seq(Nat) /\ Len(Log(n)) = n
         /\ \A i \in 1..n : Log(n)[i] = i
<1>1. Log(n) \in [1..n -> 1..n] /\ Log(n) \in [1..n -> Nat]
  BY DEF Log
<1>2. Log(n) \in Seq(1..n) /\ Log(n) \in Seq(Nat)
  BY <1>1, SeqDef
<1>3. Len(Log(n)) = n
  BY <1>1, <1>2, LenProperties
<1> QED  BY <1>2, <1>3 DEF Log

(* Two sequences one after the other, by position.                         *)
LEMMA Joined ==
  ASSUME NEW a \in Seq(Nat), NEW b \in Seq(Nat), NEW n \in Nat, NEW m \in Nat,
         Len(a) = n, Len(b) = m, NEW k, k = n + m
  PROVE  /\ a \o b \in Seq(Nat) /\ Len(a \o b) = k
         /\ \A i \in 1..k : (a \o b)[i] = IF i <= n THEN a[i] ELSE b[i - n]
  BY ConcatProperties

(* Merging a page into a log gives a log: the longer one, unless the page  *)
(* leaves a gap.                                                           *)
LEMMA MergedLog ==
  ASSUME NEW n \in Nat, NEW first \in Nat \ {0}, NEW last \in Nat
  PROVE  Merged(Log(n), first, last) =
           Log(IF first <= n + 1 /\ n < last THEN last ELSE n)
<1>1. Len(Log(n)) = n /\ Log(n) \in Seq(Nat) /\ \A i \in 1..n : Log(n)[i] = i
  BY LogProperties
<1> DEFINE from == IF first > Len(Log(n)) THEN first ELSE Len(Log(n)) + 1
<1>2. CASE first <= n + 1 /\ n < last
  <2>1. from = n + 1 /\ Merges(Log(n), first) /\ from <= last
    BY <1>1, <1>2 DEF Merges
  <2> DEFINE new == [i \in 1..last - from + 1 |-> from + i - 1]
  <2>2. Merged(Log(n), first, last) = Log(n) \o new
    BY <2>1 DEF Merged
  <2> HIDE DEF from
  <2>3. last - from + 1 = last - n /\ last - n \in Nat
    BY <1>2, <2>1
  <2>4. new \in [1..last - n -> Nat] /\ \A i \in 1..last - n : new[i] = n + i
    <3>1. \A i \in 1..last - n : i \in 1..last - from + 1 /\ from + i - 1 = n + i
      BY <2>1, <2>3
    <3>2. \A i \in 1..last - n : new[i] = n + i /\ new[i] \in Nat
      BY <3>1
    <3>3. DOMAIN new = 1..last - n /\ new = [i \in DOMAIN new |-> new[i]]
      BY <2>3
    <3> HIDE DEF new
    <3> QED  BY <3>2, <3>3
  <2>5. new \in Seq(Nat) /\ Len(new) = last - n
    <3>1. new \in Seq(Nat)
      BY <2>3, <2>4, SeqDef
    <3> QED  BY <2>3, <2>4, <3>1, LenProperties
  <2> HIDE DEF new
  <2>6. /\ Log(n) \o new \in Seq(Nat) /\ Len(Log(n) \o new) = last
        /\ \A i \in 1..last : (Log(n) \o new)[i] = IF i <= n THEN Log(n)[i] ELSE new[i - n]
    <3>1. n + (last - n) = last
      OBVIOUS
    <3>2. Log(n) \in Seq(Nat) /\ Len(Log(n)) = n
      BY <1>1
    <3> QED  BY <1>1, <2>3, <2>5, <3>1, <3>2, Joined
  <2>7. \A i \in 1..last : (Log(n) \o new)[i] = i
    <3>1. ASSUME NEW i \in 1..last PROVE (Log(n) \o new)[i] = i
      <4>1. CASE i <= n
        <5>1. Log(n)[i] = i
          BY <1>1, <4>1
        <5> QED  BY <2>6, <4>1, <5>1
      <4>2. CASE ~(i <= n)
        <5>1. i - n \in 1..last - n /\ n + (i - n) = i
          BY <4>2
        <5> QED  BY <2>4, <2>6, <4>2, <5>1
      <4> QED  BY <4>1, <4>2
    <3> QED  BY <3>1
  <2>8. Log(last) \in Seq(Nat) /\ Len(Log(last)) = last /\ \A i \in 1..last : Log(last)[i] = i
    BY LogProperties
  <2>9. Log(n) \o new = Log(last)
    BY <2>6, <2>7, <2>8, SeqEqual
  <2> QED  BY <1>2, <2>2, <2>9
<1>3. CASE ~(first <= n + 1 /\ n < last)
  <2>1. ~(Merges(Log(n), first) /\ from <= last)
    BY <1>1, <1>3 DEF Merges
  <2>2. Merged(Log(n), first, last) = Log(n)
    BY <2>1 DEF Merged
  <2> QED  BY <1>3, <2>2
<1> QED  BY <1>2, <1>3

-----------------------------------------------------------------------------
(* Types.                                                                  *)

LEMMA ReadIsLog ==
  ASSUME Typed
  PROVE  /\ committed \in Nat /\ Read \in 0..committed
         /\ client.events = Log(Read) /\ client.events \in Logs(committed)
<1>1. PICK m \in 0..committed : client.events = Log(m)
  BY DEF Typed, Known, ClientUpTo, Logs
<1>2. committed \in Nat /\ m \in Nat
  BY <1>1, StreamAssumption DEF Typed
<1>3. Read = m
  BY <1>1, <1>2, LogProperties DEF Read
<1> QED  BY <1>1, <1>2, <1>3 DEF Logs

LEMMA LogsRead ==
  ASSUME NEW n \in Nat, NEW events \in Logs(n)
  PROVE  Len(events) \in 0..n /\ events = Log(Len(events))
<1>1. PICK m \in 0..n : events = Log(m)
  BY DEF Logs
<1> QED  BY <1>1, LogProperties

(* What a page makes of a log.                                             *)
LEMMA MergedRead ==
  ASSUME NEW n \in Nat, NEW events \in Logs(n),
         NEW first \in Nat \ {0}, NEW last \in 0..n
  PROVE  LET new == Merged(events, first, last) IN
         /\ new \in Logs(n) /\ Len(new) \in 0..n
         /\ Len(new) = IF first <= Len(events) + 1 /\ Len(events) < last
                       THEN last ELSE Len(events)
<1> DEFINE m == IF first <= Len(events) + 1 /\ Len(events) < last
                THEN last ELSE Len(events)
<1>1. m \in 0..n /\ m \in Nat /\ Len(events) \in Nat
  BY LogsRead
<1>2. Merged(events, first, last) = Log(m)
  BY <1>1, LogsRead, MergedLog
<1>3. Len(Log(m)) = m /\ Log(m) \in Logs(n)
  BY <1>1, LogProperties DEF Logs
<1> QED  BY <1>1, <1>2, <1>3

LEMMA KnownGrows ==
  ASSUME NEW n \in Nat, NEW m \in Nat, n <= m, Known(n)
  PROVE  Known(m)
<1>1. 1..n \subseteq 1..m /\ 0..n \subseteq 0..m
  OBVIOUS
<1>2. Seq(1..n) \subseteq Seq(1..m)
  BY <1>1, SeqMonotonic
<1>3. Logs(n) \subseteq Logs(m)
  BY <1>1 DEF Logs
<1>4. ClientUpTo(n) \subseteq ClientUpTo(m)
  BY <1>2, <1>3 DEF ClientUpTo
<1>5. ProcessUpTo(n) \subseteq ProcessUpTo(m)
  BY <1>1, <1>2 DEF ProcessUpTo
<1> QED  BY <1>1, <1>2, <1>4, <1>5 DEF Known

LEMMA EmptyTyped ==
  ASSUME NEW n \in Nat
  PROVE  <<>> \in Seq(1..n) /\ Log(0) = <<>> /\ <<>> \in Logs(n)
<1>1. Log(0) = <<>>
  <2>1. Log(0) \in Seq(1..0) /\ Len(Log(0)) = 0
    BY LogProperties
  <2> QED  BY <2>1, EmptySeq
<1> QED  BY <1>1 DEF Logs

LEMMA IdleTyped ==
  ASSUME NEW n \in Nat, NEW at \in Places \ Ingesting
  PROVE  /\ [Idle EXCEPT !.at = at] \in ProcessUpTo(n)
         /\ [Idle EXCEPT !.at = at].at = at
         /\ Idle \in ProcessUpTo(n)
<1>1. Idle \in ProcessUpTo(n)
  BY EmptyTyped DEF Idle, ProcessUpTo, Places, Ingesting
<1> QED  BY <1>1 DEF ProcessUpTo

LEMMA InitTyped == Init => Typed
<1> SUFFICES ASSUME Init PROVE Typed
  OBVIOUS
<1>1. committed \in Nat /\ committed \in 0..MaxEvents
  BY StreamAssumption DEF Init
<1>2. proc \in [Process -> ProcessUpTo(committed)]
  <2>1. Idle \in ProcessUpTo(committed)
    BY <1>1, EmptyTyped DEF Idle, ProcessUpTo, Places, Ingesting
  <2>2. [Idle EXCEPT !.at = "ingest"] \in ProcessUpTo(committed)
    BY <1>1, IdleTyped DEF Places, Ingesting
  <2> QED  BY <2>1, <2>2 DEF Init
<1>3. proc[Work].at \in WorkPlaces
  BY DEF Init, Process, Idle, WorkPlaces
<1>4. client \in ClientUpTo(committed)
  BY <1>1, EmptyTyped DEF Init, ClientUpTo
<1>5. wire \in Seq(1..committed)
  BY <1>1, EmptyTyped DEF Init
<1>6. IsFiniteSet(subs)
  BY FS_EmptySet DEF Init
<1> QED  BY <1>1, <1>2, <1>3, <1>4, <1>5, <1>6, StreamAssumption DEF Init, Typed, Known

(* A process that goes on, with what it takes along.                       *)
LEMMA ProcTyped ==
  ASSUME Typed, NEW p \in Process, NEW r \in ProcessUpTo(committed),
         p = Work => r.at \in WorkPlaces
  PROVE  LET q == [proc EXCEPT ![p] = r] IN
         /\ q \in [Process -> ProcessUpTo(committed)]
         /\ q[Work].at \in WorkPlaces
  BY DEF Typed, Known, Process

LEMMA AwaitTyped ==
  ASSUME Typed, NEW p \in Process, NEW at \in Places, p = Work => at \in WorkPlaces,
         at \in Ingesting => proc[p].todo # <<>>
  PROVE  LET q == Await(p, at) IN
         /\ q \in [Process -> ProcessUpTo(committed)]
         /\ q[Work].at \in WorkPlaces
<1> DEFINE r == [proc[p] EXCEPT !.at = at]
<1>1. r \in ProcessUpTo(committed) /\ r.at = at
  BY DEF Typed, Known, ProcessUpTo
<1>2. Await(p, at) = [proc EXCEPT ![p] = r]
  BY DEF Await
<1> HIDE DEF r
<1> QED  BY <1>1, <1>2, ProcTyped

LEMMA AwaitPageTyped ==
  ASSUME Typed, NEW p \in Process, NEW at \in Places, p = Work => at \in WorkPlaces,
         at \in Ingesting => proc[p].todo # <<>>, NEW cursor \in 0..committed
  PROVE  LET q == AwaitPage(p, at, cursor) IN
         /\ q \in [Process -> ProcessUpTo(committed)]
         /\ q[Work].at \in WorkPlaces
<1> DEFINE r == [proc[p] EXCEPT !.at = at, !.cursor = cursor, !.asked = committed]
<1>1. committed \in 0..committed
  BY ReadIsLog
<1>2. r \in ProcessUpTo(committed) /\ r.at = at
  BY <1>1 DEF Typed, Known, ProcessUpTo
<1>3. AwaitPage(p, at, cursor) = [proc EXCEPT ![p] = r]
  BY DEF AwaitPage, Typed, Known, ProcessUpTo
<1> HIDE DEF r
<1> QED  BY <1>2, <1>3, ProcTyped

LEMMA TakenTyped ==
  ASSUME Typed, NEW p \in Process, NEW at \in Places, p = Work => at \in WorkPlaces,
         NEW todo \in Seq(1..committed), at \in Ingesting => todo # <<>>
  PROVE  LET q == [proc EXCEPT ![p].at = at, ![p].todo = todo] IN
         /\ q \in [Process -> ProcessUpTo(committed)]
         /\ q[Work].at \in WorkPlaces
<1> DEFINE r == [proc[p] EXCEPT !.at = at, !.todo = todo]
<1>1. r \in ProcessUpTo(committed) /\ r.at = at
  BY DEF Typed, Known, ProcessUpTo
<1>2. [proc EXCEPT ![p].at = at, ![p].todo = todo] = [proc EXCEPT ![p] = r]
  BY DEF Typed, Known, ProcessUpTo
<1> HIDE DEF r
<1> QED  BY <1>1, <1>2, ProcTyped

LEMMA CommitTyped == Typed /\ Commit => Typed'
<1> SUFFICES ASSUME Typed, Commit PROVE Typed'
  OBVIOUS
<1> DEFINE n == committed + 1
<1>1. n \in 0..MaxEvents /\ n \in Nat /\ committed \in Nat /\ committed' = n
  BY StreamAssumption DEF Typed, Commit
<1>2. Known(n)
  BY <1>1, KnownGrows DEF Typed
<1>3. wire' \in Seq(1..n)
  <2>1. wire' = Append(wire, n) /\ n \in 1..n
    BY <1>1 DEF Commit
  <2> QED  BY <1>2, <2>1, AppendProperties DEF Known
<1> HIDE DEF n
<1> QED  BY <1>1, <1>2, <1>3 DEF Typed, Known, Commit

LEMMA LoseTyped == Typed /\ Lose => Typed'
<1> SUFFICES ASSUME Typed, Lose PROVE Typed'
  OBVIOUS
<1>1. Head(wire) \in 1..committed /\ wire' \in Seq(1..committed)
  BY HeadTailProperties DEF Typed, Known, Lose
<1>2. lost' \subseteq 1..committed
  BY <1>1 DEF Typed, Known, Lose
<1> QED  BY <1>1, <1>2 DEF Typed, Known, Lose

(* A position after the first a of a + b is one of the last b.             *)
LEMMA Shifted ==
  ASSUME NEW a \in Nat, NEW b \in Nat, NEW i \in Nat, i > a, i <= a + b
  PROVE  i - a \in 1..b
  OBVIOUS

LEMMA CopiesTyped ==
  ASSUME Typed, wire # <<>>
  PROVE  /\ Cardinality(subs) \in Nat
         /\ [i \in 1..Cardinality(subs) |-> Head(wire)] \in Seq(1..committed)
<1>1. Cardinality(subs) \in Nat
  BY FS_CardinalityType DEF Typed
<1>2. Head(wire) \in 1..committed
  BY HeadTailProperties DEF Typed, Known
<1>3. [i \in 1..Cardinality(subs) |-> Head(wire)] \in [1..Cardinality(subs) -> 1..committed]
  BY <1>2
<1> DEFINE copies == [i \in 1..Cardinality(subs) |-> Head(wire)]
<1>4. copies \in Seq(1..committed)
  <2>1. copies \in [1..Cardinality(subs) -> 1..committed]
    BY <1>3
  <2> HIDE DEF copies
  <2> QED  BY <1>1, <2>1, SeqDef
<1> QED  BY <1>1, <1>4

LEMMA DeliverTyped == Typed /\ Deliver => Typed'
<1> SUFFICES ASSUME Typed, Deliver PROVE Typed'
  OBVIOUS
<1> DEFINE copies == [i \in 1..Cardinality(subs) |-> Head(wire)]
<1>1. copies \in Seq(1..committed)
  BY CopiesTyped DEF Deliver
<1>2. wire' \in Seq(1..committed)
  BY HeadTailProperties DEF Typed, Known, Deliver
<1> HIDE DEF copies
<1>3. CASE client.buffering
  <2>1. client' = [client EXCEPT !.buffered = @ \o copies] /\ proc' = proc
    BY <1>3 DEF Deliver, copies
  <2>2. client.buffered \o copies \in Seq(1..committed)
    BY <1>1, ConcatProperties DEF Typed, Known, ClientUpTo
  <2>3. client' \in ClientUpTo(committed)
    BY <2>1, <2>2 DEF Typed, Known, ClientUpTo
  <2> QED  BY <1>2, <2>1, <2>3 DEF Typed, Known, Deliver
<1>4. CASE ~client.buffering
  <2>1. proc' = [proc EXCEPT ![Work].todo = @ \o copies] /\ client' = client
    BY <1>4 DEF Deliver, copies
  <2>2. /\ proc[Work].todo \o copies \in Seq(1..committed)
        /\ proc[Work].todo \o copies = <<>> => proc[Work].todo = <<>>
    BY <1>1, ConcatProperties, ConcatEqualIffEmpty DEF Typed, Known, ProcessUpTo, Process
  <2>3. proc' \in [Process -> ProcessUpTo(committed)] /\ proc'[Work].at \in WorkPlaces
    BY <2>1, <2>2 DEF Typed, Known, ProcessUpTo, Process
  <2> QED  BY <1>2, <2>1, <2>3 DEF Typed, Known, Deliver
<1> QED  BY <1>3, <1>4

LEMMA DisconnectedTyped ==
  ASSUME Typed, NEW events \in Logs(committed)
  PROVE  /\ [Disconnected EXCEPT !.events = events] \in ClientUpTo(committed)
         /\ Disconnected \in ClientUpTo(committed)
         /\ Disconnected.events = client.events
         /\ [Disconnected EXCEPT !.events = events].events = events
  BY EmptyTyped, ReadIsLog DEF Disconnected, ClientUpTo, Typed, Known

LEMMA FewerSubs ==
  ASSUME Typed, NEW s, s \subseteq subs
  PROVE  s \subseteq Calls /\ IsFiniteSet(s)
  BY FS_Subset DEF Typed

LEMMA DisconnectTyped == Typed /\ Disconnect => Typed'
<1> SUFFICES ASSUME Typed, Disconnect PROVE Typed'
  OBVIOUS
<1>1. client' \in ClientUpTo(committed)
  BY DisconnectedTyped, ReadIsLog DEF Disconnect
<1>2. subs' \subseteq Calls /\ IsFiniteSet(subs')
  BY FewerSubs DEF Disconnect
<1> QED  BY <1>1, <1>2 DEF Typed, Known, Disconnect

LEMMA CallTyped ==
  ASSUME Typed, NEW c \in Calls
  PROVE  /\ c \in Process /\ c # Work
         /\ [since EXCEPT ![c] = committed] \in [Calls -> 0..committed]
<1>1. committed \in 0..committed
  BY ReadIsLog
<1> QED  BY <1>1, StreamAssumption DEF Process, Typed, Known

LEMMA OpenTyped == \A c \in Calls : Typed /\ Open(c) => Typed'
<1> SUFFICES ASSUME NEW c \in Calls, Typed, Open(c) PROVE Typed'
  OBVIOUS
<1>1. c \in Process /\ c # Work /\ since' \in [Calls -> 0..committed]
  BY CallTyped DEF Open
<1>2. CASE client.unlisten # None
  <2>1. proc' = Await(c, "done") /\ client' = client
    BY <1>2 DEF Open
  <2>2. proc' \in [Process -> ProcessUpTo(committed)] /\ proc'[Work].at \in WorkPlaces
    BY <1>1, <2>1, AwaitTyped DEF Places, Ingesting
  <2> QED  BY <1>1, <2>1, <2>2 DEF Typed, Known, Open
<1>3. CASE client.unlisten = None
  <2>1. /\ proc' = [Await(c, "subscribe") EXCEPT ![c].opens = TRUE]
        /\ client' = [client EXCEPT !.buffering = TRUE]
    BY <1>3 DEF Open
  <2>2. client' \in ClientUpTo(committed)
    BY <2>1 DEF Typed, Known, ClientUpTo
  <2>3. /\ Await(c, "subscribe") \in [Process -> ProcessUpTo(committed)]
        /\ Await(c, "subscribe")[Work].at \in WorkPlaces
    BY <1>1, AwaitTyped DEF Places, Waits, Ingesting
  <2>4. proc' \in [Process -> ProcessUpTo(committed)] /\ proc'[Work].at \in WorkPlaces
    BY <1>1, <2>1, <2>3 DEF ProcessUpTo, Process
  <2> QED  BY <1>1, <2>2, <2>4 DEF Typed, Known, Open
<1> QED  BY <1>2, <1>3

LEMMA ReconnectTyped == \A c \in Calls : Typed /\ Reconnect(c) => Typed'
<1> SUFFICES ASSUME NEW c \in Calls, Typed, Reconnect(c) PROVE Typed'
  OBVIOUS
<1>1. c \in Process /\ c # Work /\ since' \in [Calls -> 0..committed]
  BY CallTyped DEF Reconnect
<1>2. proc' \in [Process -> ProcessUpTo(committed)] /\ proc'[Work].at \in WorkPlaces
  BY <1>1, AwaitTyped DEF Reconnect, Places, Waits, Ingesting
<1>3. client' \in ClientUpTo(committed)
  BY DEF Reconnect, Typed, Known, ClientUpTo
<1>4. subs' \subseteq Calls /\ IsFiniteSet(subs')
  BY FewerSubs DEF Reconnect
<1> QED  BY <1>1, <1>2, <1>3, <1>4 DEF Typed, Known, Reconnect

LEMMA SubscribedTyped == \A c \in Calls : Typed /\ Subscribed(c) => Typed'
<1> SUFFICES ASSUME NEW c \in Calls, Typed, Subscribed(c) PROVE Typed'
  OBVIOUS
<1>1. c \in Process /\ c # Work
  BY CallTyped
<1>2. proc' \in [Process -> ProcessUpTo(committed)] /\ proc'[Work].at \in WorkPlaces
  BY <1>1, AwaitTyped DEF Subscribed, Places, Waits, Ingesting
<1>3. client' \in ClientUpTo(committed)
  BY DEF Subscribed, Typed, Known, ClientUpTo
<1>4. subs' \subseteq Calls /\ IsFiniteSet(subs')
  BY FS_AddElement DEF Subscribed, Typed
<1> QED  BY <1>2, <1>3, <1>4 DEF Typed, Known, Subscribed

LEMMA ConnectedTyped == \A c \in Calls : Typed /\ Connected(c) => Typed'
<1> SUFFICES ASSUME NEW c \in Calls, Typed, Connected(c) PROVE Typed'
  OBVIOUS
<1>1. c \in Process /\ c # Work /\ committed \in Nat
  BY CallTyped, ReadIsLog
<1>2. [Idle EXCEPT !.at = "done"] \in ProcessUpTo(committed)
  BY <1>1, IdleTyped DEF Places, Ingesting
<1>3. proc' \in [Process -> ProcessUpTo(committed)] /\ proc'[Work].at \in WorkPlaces
  BY <1>1, <1>2, ProcTyped DEF Connected
<1>4. shown' \in 0..committed
  BY ReadIsLog DEF Connected, Read
<1> QED  BY <1>3, <1>4 DEF Typed, Known, Connected

(* What a step of a process does to the variables it has in common with    *)
(* the others.                                                             *)
Moves ==
  /\ proc' \in [Process -> ProcessUpTo(committed)] /\ proc'[Work].at \in WorkPlaces
  /\ client' \in ClientUpTo(committed)
  /\ subs' \subseteq Calls /\ IsFiniteSet(subs')

LEMMA MovesTyped ==
  ASSUME Typed, Moves, shown' \in 0..committed,
         UNCHANGED <<committed, wire, since, lost>>, faults' \in 0..MaxFaults
  PROVE  Typed'
  BY DEF Typed, Known, Moves

LEMMA ClientReads ==
  ASSUME Typed, NEW events \in Logs(committed)
  PROVE  LET new == [client EXCEPT !.events = events] IN
         new \in ClientUpTo(committed) /\ new.events = events
  BY DEF Typed, Known, ClientUpTo

LEMMA SubsTyped ==
  ASSUME Typed, subs' = subs
  PROVE  subs' \subseteq Calls /\ IsFiniteSet(subs')
  BY DEF Typed

LEMMA TodoTyped ==
  ASSUME Typed, NEW p \in Process, proc[p].todo # <<>>
  PROVE  /\ Head(proc[p].todo) \in 1..committed
         /\ Tail(proc[p].todo) \in Seq(1..committed)
<1>1. proc[p].todo \in Seq(1..committed)
  BY DEF Typed, Known, ProcessUpTo
<1> QED  BY <1>1, HeadTailProperties

LEMMA FailsMoves ==
  ASSUME Typed, NEW p \in Process, NEW events \in Logs(committed),
         p = Work => proc[p].todo # <<>>, Fails(p, events)
  PROVE  Moves
<1>1. CASE p = Work
  <2>1. /\ proc' = [proc EXCEPT ![p].at = "ingest", ![p].todo = Tail(@)]
        /\ client' = [client EXCEPT !.events = events] /\ subs' = subs
    BY <1>1 DEF Fails
  <2>2. proc' = [proc EXCEPT ![p].at = "ingest", ![p].todo = Tail(proc[p].todo)]
    BY <2>1 DEF Typed, Known, ProcessUpTo
  <2>3. proc' \in [Process -> ProcessUpTo(committed)] /\ proc'[Work].at \in WorkPlaces
    BY <1>1, <2>2, TodoTyped, TakenTyped DEF Places, Ingesting, WorkPlaces
  <2> QED  BY <2>1, <2>3, ClientReads, SubsTyped DEF Moves
<1>2. CASE p # Work
  <2>1. /\ proc' = [proc EXCEPT ![p] = [Idle EXCEPT !.at = "failed"]]
        /\ client' = [Disconnected EXCEPT !.events = events]
        /\ subs' = subs \ {client.unlisten}
    BY <1>2 DEF Fails
  <2>2. [Idle EXCEPT !.at = "failed"] \in ProcessUpTo(committed)
    BY ReadIsLog, IdleTyped DEF Places, Ingesting
  <2>3. proc' \in [Process -> ProcessUpTo(committed)] /\ proc'[Work].at \in WorkPlaces
    BY <1>2, <2>1, <2>2, ProcTyped
  <2> QED  BY <2>1, <2>3, DisconnectedTyped, FewerSubs DEF Moves
<1> QED  BY <1>1, <1>2

Paging == {"fetch", "backfill", "refetch1", "refetch2"}

LEMMA WorkIsBusy ==
  ASSUME Typed, NEW p \in Process, proc[p].at \in Paging \cup {"snapshot", "resync1", "resync2"}
  PROVE  /\ p = Work => proc[p].at \in Ingesting
         /\ proc[p].at \in Ingesting => proc[p].todo # <<>>
         /\ p = Work => proc[p].todo # <<>>
  BY DEF Typed, Known, ProcessUpTo, WorkPlaces, Ingesting, Paging

LEMMA FetchFailsMoves ==
  ASSUME Typed, NEW p \in Process, NEW events \in Logs(committed),
         proc[p].at \in Paging, FetchFails(p, events)
  PROVE  Moves
<1>1. CASE proc[p].at = "backfill"
  <2>1. /\ proc' = Await(p, "resync1") /\ subs' = subs
        /\ client' = [client EXCEPT !.events = events]
    BY <1>1 DEF FetchFails
  <2>2. proc[p].todo # <<>>
    BY <1>1, WorkIsBusy DEF Ingesting, Paging
  <2>3. proc' \in [Process -> ProcessUpTo(committed)] /\ proc'[Work].at \in WorkPlaces
    BY <2>1, <2>2, AwaitTyped DEF Places, Waits, WorkPlaces, Ingesting
  <2> QED  BY <2>1, <2>3, ClientReads, SubsTyped DEF Moves
<1>2. CASE proc[p].at # "backfill"
  BY <1>2, WorkIsBusy, FailsMoves DEF FetchFails
<1> QED  BY <1>1, <1>2

LEMMA FetchedMoves ==
  ASSUME Typed, NEW p \in Process, NEW events \in Logs(committed),
         proc[p].at \in Paging, Fetched(p, events)
  PROVE  Moves /\ shown' \in 0..committed
<1> DEFINE next == Head(proc[p].todo)
           merged == Merged(events, next, next)
<1>0. shown \in 0..committed /\ committed \in Nat
  BY ReadIsLog DEF Typed, Known
<1>1. CASE proc[p].at = "fetch"
  <2>1. /\ proc' = [proc EXCEPT ![p].at = "ingest", ![p].todo = Buffered]
        /\ client' = [client EXCEPT !.events = events, !.buffering = FALSE,
                                    !.buffered = <<>>]
        /\ subs' = subs /\ shown' = shown
    BY <1>1 DEF Fetched
  <2>2. Buffered \in Seq(1..committed)
    BY <1>0, SortedType DEF Buffered, Typed, Known, ClientUpTo
  <2>3. proc' \in [Process -> ProcessUpTo(committed)] /\ proc'[Work].at \in WorkPlaces
    BY <2>1, <2>2, TakenTyped DEF Places, Ingesting, WorkPlaces
  <2>4. client' \in ClientUpTo(committed)
    BY <1>0, <2>1, EmptyTyped DEF Typed, Known, ClientUpTo
  <2> QED  BY <1>0, <2>1, <2>3, <2>4, SubsTyped DEF Moves
<1>2. CASE proc[p].at # "fetch"
  <2>1. proc[p].at \in Ingesting /\ proc[p].todo # <<>>
    BY <1>2, WorkIsBusy DEF Ingesting, Paging
  <2>2. next \in 1..committed /\ Tail(proc[p].todo) \in Seq(1..committed)
    BY <2>1, TodoTyped
  <2>3. merged \in Logs(committed) /\ Len(merged) \in 0..committed
    BY <1>0, <2>2, MergedRead
  <2>4. CASE Merges(events, next)
    <3>1. /\ proc' = [proc EXCEPT ![p].at = "ingest", ![p].todo = Tail(@)]
          /\ client' = [client EXCEPT !.events = merged]
          /\ subs' = subs /\ shown' = Len(merged)
      BY <1>2, <2>4 DEF Fetched
    <3>2. proc' = [proc EXCEPT ![p].at = "ingest", ![p].todo = Tail(proc[p].todo)]
      BY <3>1 DEF Typed, Known, ProcessUpTo
    <3>3. proc' \in [Process -> ProcessUpTo(committed)] /\ proc'[Work].at \in WorkPlaces
      BY <2>2, <3>2, TakenTyped DEF Places, Ingesting, WorkPlaces
    <3> QED  BY <2>3, <3>1, <3>3, ClientReads, SubsTyped DEF Moves
  <2>5. CASE ~Merges(events, next) /\ proc[p].at \in {"backfill", "refetch1"}
    <3>1. /\ proc' = Await(p, "resync2") /\ subs' = subs /\ shown' = shown
          /\ client' = [client EXCEPT !.events = events]
      BY <1>2, <2>5 DEF Fetched
    <3>2. proc' \in [Process -> ProcessUpTo(committed)] /\ proc'[Work].at \in WorkPlaces
      BY <2>1, <3>1, AwaitTyped DEF Places, Waits, Ingesting, WorkPlaces
    <3> QED  BY <1>0, <3>1, <3>2, ClientReads, SubsTyped DEF Moves
  <2>6. CASE ~Merges(events, next) /\ proc[p].at \notin {"backfill", "refetch1"}
    <3>1. Fails(p, events) /\ shown' = shown
      BY <1>2, <2>6 DEF Fetched
    <3> QED  BY <1>0, <2>1, <3>1, FailsMoves
  <2> QED  BY <2>4, <2>5, <2>6
<1> QED  BY <1>1, <1>2

LEMMA SnapshotTyped == \A p \in Process : Typed /\ Snapshot(p) => Typed'
<1> SUFFICES ASSUME NEW p \in Process, Typed, Snapshot(p) PROVE Typed'
  OBVIOUS
<1>1. Read \in 0..committed /\ 0 \in 0..committed /\ <<>> \in Logs(committed)
  BY ReadIsLog, EmptyTyped
<1>2. CASE proc[p].at = "snapshot"
  <2>1. proc' = AwaitPage(p, "fetch", Read) /\ client' = client
    BY <1>2 DEF Snapshot, Read
  <2>2. p # Work
    BY <1>2 DEF Typed, WorkPlaces, Ingesting
  <2>3. proc' \in [Process -> ProcessUpTo(committed)] /\ proc'[Work].at \in WorkPlaces
    BY <1>1, <2>1, <2>2, AwaitPageTyped DEF Places, Waits, Ingesting
  <2> QED  BY <2>1, <2>3 DEF Snapshot, Typed, Known
<1>3. CASE proc[p].at \in {"resync1", "resync2"}
  <2> DEFINE at == IF proc[p].at = "resync1" THEN "refetch1" ELSE "refetch2"
  <2>1. proc' = AwaitPage(p, at, 0) /\ client' = [client EXCEPT !.events = <<>>]
    BY <1>3 DEF Snapshot
  <2>2. proc[p].todo # <<>>
    BY <1>3, WorkIsBusy DEF Ingesting
  <2>3. at \in WorkPlaces /\ at \in Places
    BY DEF Places, Waits, WorkPlaces, Ingesting
  <2>4. proc' \in [Process -> ProcessUpTo(committed)] /\ proc'[Work].at \in WorkPlaces
    BY <1>1, <2>1, <2>2, <2>3, AwaitPageTyped
  <2> QED  BY <1>1, <2>1, <2>4, ClientReads DEF Snapshot, Typed, Known
<1> QED  BY <1>2, <1>3 DEF Snapshot

(* A page, read when upto events were committed.                           *)
PageLast(p, upto) ==
  IF proc[p].cursor + PageSize < upto THEN proc[p].cursor + PageSize ELSE upto

PageMerged(p, upto) == Merged(client.events, proc[p].cursor + 1, PageLast(p, upto))

PageFails(p, upto) ==
  /\ proc[p].cursor + 1 <= PageLast(p, upto)
  /\ ~Merges(client.events, proc[p].cursor + 1)
  /\ FetchFails(p, client.events) /\ UNCHANGED shown

PageContinues(p, upto) ==
  /\ PageLast(p, upto) < upto
  /\ proc' = AwaitPage(p, proc[p].at, PageLast(p, upto))
  /\ client' = [client EXCEPT !.events = PageMerged(p, upto)]
  /\ UNCHANGED <<subs, shown>>

PageEnds(p, upto) ==
  /\ PageLast(p, upto) = upto
  /\ Fetched(p, PageMerged(p, upto))
  /\ Merges(client.events, proc[p].cursor + 1) \/ upto <= proc[p].cursor

(* What the client has read once event k is merged into it.                *)
LEMMA TakenRead ==
  ASSUME Typed, NEW k \in 1..committed
  PROVE  LET new == Merged(client.events, k, k) IN
         /\ new \in Logs(committed) /\ Len(new) \in Nat
         /\ Len(new) = IF k <= Read + 1 /\ Read < k THEN k ELSE Read
<1>1. /\ committed \in Nat /\ client.events \in Logs(committed)
      /\ k \in Nat \ {0} /\ k \in 0..committed
  BY ReadIsLog
<1>2. Merged(client.events, k, k) \in Logs(committed)
  BY <1>1, MergedRead
<1>3. Len(Merged(client.events, k, k)) \in 0..committed
  BY <1>1, MergedRead
<1>4. Len(Merged(client.events, k, k)) = IF k <= Read + 1 /\ Read < k THEN k ELSE Read
  BY <1>1, MergedRead DEF Read
<1> QED  BY <1>1, <1>2, <1>3, <1>4

LEMMA PageType ==
  ASSUME Typed, NEW p \in Process, NEW upto \in proc[p].asked..committed
  PROVE  /\ proc[p].cursor \in 0..committed /\ proc[p].asked \in 0..committed
         /\ upto \in 0..committed
         /\ proc[p].cursor + 1 \in Nat \ {0}
         /\ PageLast(p, upto) \in 0..committed /\ PageLast(p, upto) <= upto
<1>1. committed \in Nat /\ PageSize \in Nat
  BY ReadIsLog, StreamAssumption
<1>2. proc[p].cursor \in 0..committed /\ proc[p].asked \in 0..committed
  BY DEF Typed, Known, ProcessUpTo
<1> QED  BY <1>1, <1>2 DEF PageLast

LEMMA PageCases ==
  ASSUME Typed, NEW p \in Process, Page(p)
  PROVE  /\ proc[p].at \in Paging /\ PageSize <= MaxLimit
         /\ UNCHANGED <<committed, wire, since, lost, faults>>
         /\ \E upto \in proc[p].asked..committed :
              PageFails(p, upto) \/ PageContinues(p, upto) \/ PageEnds(p, upto)
<1>1. /\ proc[p].at \in Paging /\ PageSize <= MaxLimit
      /\ UNCHANGED <<committed, wire, since, lost, faults>>
  BY DEF Page, Paging
<1>2. PICK upto \in proc[p].asked..committed :
        IF proc[p].cursor + 1 <= PageLast(p, upto) /\ ~Merges(client.events, proc[p].cursor + 1)
        THEN FetchFails(p, client.events) /\ UNCHANGED shown
        ELSE IF PageLast(p, upto) < upto
        THEN /\ proc' = AwaitPage(p, proc[p].at, PageLast(p, upto))
             /\ client' = [client EXCEPT !.events = PageMerged(p, upto)]
             /\ UNCHANGED <<subs, shown>>
        ELSE Fetched(p, PageMerged(p, upto))
  BY DEF Page, PageLast, PageMerged, MorePages
<1>3. /\ PageLast(p, upto) \in Nat /\ upto \in Nat /\ proc[p].cursor \in Nat
      /\ PageLast(p, upto) <= upto
  BY PageType, ReadIsLog
<1>4. CASE PageLast(p, upto) < upto
  BY <1>1, <1>2, <1>4 DEF PageFails, PageContinues
<1>5. CASE ~(PageLast(p, upto) < upto)
  <2>1. PageLast(p, upto) = upto
    BY <1>3, <1>5
  <2>2. CASE proc[p].cursor + 1 <= PageLast(p, upto) /\ ~Merges(client.events, proc[p].cursor + 1)
    BY <1>1, <1>2, <2>2 DEF PageFails
  <2>3. CASE ~(proc[p].cursor + 1 <= PageLast(p, upto) /\ ~Merges(client.events, proc[p].cursor + 1))
    <3>1. Fetched(p, PageMerged(p, upto))
      BY <1>2, <1>5, <2>3
    <3>2. Merges(client.events, proc[p].cursor + 1) \/ upto <= proc[p].cursor
      BY <1>3, <2>1, <2>3
    <3> QED  BY <1>1, <2>1, <3>1, <3>2 DEF PageEnds
  <2> QED  BY <2>2, <2>3
<1> QED  BY <1>4, <1>5

LEMMA PageMergedRead ==
  ASSUME Typed, NEW p \in Process, NEW upto \in proc[p].asked..committed
  PROVE  /\ PageMerged(p, upto) \in Logs(committed)
         /\ Len(PageMerged(p, upto)) \in 0..committed
         /\ Len(PageMerged(p, upto)) =
              IF proc[p].cursor + 1 <= Read + 1 /\ Read < PageLast(p, upto)
              THEN PageLast(p, upto) ELSE Read
<1>1. /\ committed \in Nat /\ client.events \in Logs(committed) /\ Read \in 0..committed
      /\ proc[p].cursor + 1 \in 1..(committed + 1) /\ PageLast(p, upto) \in 0..committed
  BY PageType, ReadIsLog
<1> QED  BY <1>1, MergedRead DEF PageMerged, Read

LEMMA PageTyped == \A p \in Process : Typed /\ Page(p) => Typed'
<1> SUFFICES ASSUME NEW p \in Process, Typed, Page(p) PROVE Typed'
  OBVIOUS
<1>1. /\ proc[p].at \in Paging /\ UNCHANGED <<committed, wire, since, lost, faults>>
      /\ faults' \in 0..MaxFaults /\ shown \in 0..committed
  BY PageCases DEF Typed, Known
<1>2. PICK upto \in proc[p].asked..committed :
        PageFails(p, upto) \/ PageContinues(p, upto) \/ PageEnds(p, upto)
  BY PageCases
<1>3. PageMerged(p, upto) \in Logs(committed) /\ PageLast(p, upto) \in 0..committed
  BY PageMergedRead, PageType
<1>4. CASE PageFails(p, upto)
  BY <1>1, <1>4, FetchFailsMoves, MovesTyped, ReadIsLog DEF PageFails
<1>5. CASE PageContinues(p, upto)
  <2>1. /\ p = Work => proc[p].at \in WorkPlaces
        /\ proc[p].at \in Ingesting => proc[p].todo # <<>>
        /\ proc[p].at \in Places
    BY <1>1, WorkIsBusy DEF WorkPlaces, Places, Waits, Paging
  <2>2. proc' \in [Process -> ProcessUpTo(committed)] /\ proc'[Work].at \in WorkPlaces
    BY <1>3, <1>5, <2>1, AwaitPageTyped DEF PageContinues
  <2>3. Moves /\ shown' \in 0..committed
    BY <1>1, <1>3, <1>5, <2>2, ClientReads, SubsTyped DEF PageContinues, Moves
  <2> QED  BY <1>1, <2>3, MovesTyped
<1>6. CASE PageEnds(p, upto)
  BY <1>1, <1>3, <1>6, FetchedMoves, MovesTyped DEF PageEnds
<1> QED  BY <1>2, <1>4, <1>5, <1>6

LEMMA CallFailsTyped == \A p \in Process : Typed /\ CallFails(p) => Typed'
<1> SUFFICES ASSUME NEW p \in Process, Typed, CallFails(p) PROVE Typed'
  OBVIOUS
<1>1. Moves
  <2>1. CASE proc[p].at \in {"snapshot", "resync1", "resync2"} /\ Fails(p, client.events)
    BY <2>1, ReadIsLog, WorkIsBusy, FailsMoves
  <2>2. CASE proc[p].at \in Paging /\ FetchFails(p, client.events)
    BY <2>2, ReadIsLog, FetchFailsMoves
  <2> QED  BY <2>1, <2>2 DEF CallFails, Paging
<1>2. faults' \in 0..MaxFaults /\ shown' \in 0..committed
  BY StreamAssumption DEF CallFails, Typed, Known
<1> QED  BY <1>1, <1>2, MovesTyped DEF CallFails

LEMMA IngestTyped == \A p \in Process : Typed /\ Ingest(p) => Typed'
<1> SUFFICES ASSUME NEW p \in Process, Typed, Ingest(p) PROVE Typed'
  OBVIOUS
<1> DEFINE next == Head(proc[p].todo)
           merged == Merged(client.events, next, next)
<1>1. /\ proc[p].todo # <<>> /\ proc[p].at = "ingest" /\ subs' = subs /\ shown \in 0..committed
      /\ UNCHANGED <<committed, wire, since, lost, faults>> /\ faults' \in 0..MaxFaults
  BY DEF Ingest, Typed, Known
<1>2. next \in 1..committed /\ Tail(proc[p].todo) \in Seq(1..committed)
  BY <1>1, TodoTyped
<1>3. committed \in Nat /\ Read \in 0..committed /\ client.events \in Logs(committed)
  BY ReadIsLog
<1>4. CASE Merges(client.events, next)
  <2>1. /\ proc' = [proc EXCEPT ![p].todo = Tail(@)]
        /\ client' = [client EXCEPT !.events = merged]
        /\ shown' \in {next, shown}
    BY <1>4 DEF Ingest
  <2>2. merged \in Logs(committed)
    BY <1>2, <1>3, MergedRead
  <2>3. proc' = [proc EXCEPT ![p].at = "ingest", ![p].todo = Tail(proc[p].todo)]
    BY <1>1, <2>1 DEF Typed, Known, ProcessUpTo
  <2>4. proc' \in [Process -> ProcessUpTo(committed)] /\ proc'[Work].at \in WorkPlaces
    BY <1>2, <2>3, TakenTyped DEF Places, Ingesting, WorkPlaces
  <2>5. Moves /\ shown' \in 0..committed
    BY <1>1, <1>2, <2>1, <2>2, <2>4, ClientReads, SubsTyped DEF Moves
  <2> QED  BY <1>1, <2>5, MovesTyped
<1>5. CASE ~Merges(client.events, next)
  <2>1. proc' = AwaitPage(p, "backfill", Read) /\ client' = client /\ shown' = shown
    BY <1>5 DEF Ingest, Read
  <2>2. proc' \in [Process -> ProcessUpTo(committed)] /\ proc'[Work].at \in WorkPlaces
    BY <1>1, <1>3, <2>1, AwaitPageTyped DEF Places, Waits, WorkPlaces, Ingesting
  <2>3. client' \in ClientUpTo(committed)
    BY <2>1 DEF Typed, Known
  <2> QED  BY <1>1, <2>1, <2>2, <2>3, SubsTyped, MovesTyped DEF Moves
<1> QED  BY <1>4, <1>5

LEMMA TypedInductive == Typed /\ [Next]_vars => Typed'
<1> SUFFICES ASSUME Typed, [Next]_vars PROVE Typed'
  OBVIOUS
<1>1. CASE UNCHANGED vars
  BY <1>1 DEF vars, Typed, Known, ClientUpTo, ProcessUpTo
<1>2. ASSUME NEW c \in Calls, Open(c) \/ Reconnect(c) \/ Subscribed(c) \/ Connected(c)
      PROVE  Typed'
  BY <1>2, OpenTyped, ReconnectTyped, SubscribedTyped, ConnectedTyped
<1>3. ASSUME NEW p \in Process, Step(p) \/ CallFails(p)
      PROVE  Typed'
  BY <1>3, SnapshotTyped, PageTyped, IngestTyped, CallFailsTyped DEF Step
<1>4. CASE Commit \/ Deliver \/ Lose \/ Disconnect
  BY <1>4, CommitTyped, DeliverTyped, LoseTyped, DisconnectTyped
<1> QED  BY <1>1, <1>2, <1>3, <1>4 DEF Next

LEMMA TypedImplies == Typed => TypeOK /\ PrefixOfLog
<1> SUFFICES ASSUME Typed PROVE TypeOK /\ PrefixOfLog
  OBVIOUS
<1>1. committed \in Nat /\ MaxEvents \in Nat /\ committed <= MaxEvents
  BY ReadIsLog, StreamAssumption DEF Typed
<1>2. 1..committed \subseteq Seqs /\ 0..committed \subseteq 0..MaxEvents
  BY <1>1 DEF Seqs
<1>3. Seq(1..committed) \subseteq Seq(Seqs)
  BY <1>2, SeqMonotonic
<1>4. client.events = Log(Read) /\ Read \in 0..committed /\ Read \in Nat
  BY <1>1, ReadIsLog
<1>5. Log(Read) \in Seq(Seqs)
  <2>1. 1..Read \subseteq Seqs
    BY <1>1, <1>4 DEF Seqs
  <2> QED  BY <1>4, <2>1, LogProperties, SeqMonotonic
<1>6. client \in [events : Seq(Seqs), unlisten : Calls \cup {None},
                  buffering : BOOLEAN, buffered : Seq(Seqs)]
  BY <1>3, <1>4, <1>5 DEF Typed, Known, ClientUpTo
<1>7. proc \in [Process -> Processes]
  <2>1. ProcessUpTo(committed) \subseteq Processes
    BY <1>2, <1>3 DEF ProcessUpTo, Processes, Places
  <2> QED  BY <2>1 DEF Typed, Known
<1>8. TypeOK
  BY <1>2, <1>3, <1>6, <1>7 DEF TypeOK, Typed, Known
<1>9. PrefixOfLog
  BY <1>4, LogProperties DEF PrefixOfLog, Read
<1> QED  BY <1>8, <1>9

LEMMA AlwaysTyped == Spec => []Typed
  BY InitTyped, TypedInductive, PTL DEF Spec

(* Every variable keeps its type.                                          *)
THEOREM TypeCorrect == Spec => []TypeOK
  BY AlwaysTyped, TypedImplies, PTL

(* Whatever is lost, whatever fails and however calls and live events      *)
(* interleave, the client's events are the first of the committed log      *)
(* (agent-session-client.ts, merge and fullResync).                        *)
THEOREM CopyIsPrefix == Spec => []PrefixOfLog
  BY AlwaysTyped, TypedImplies, PTL

-----------------------------------------------------------------------------
(* While no call fails the client only gains events.                       *)

(* What was read and shown only grows.                                     *)
Grows == Fine' /\ Read <= Read' /\ shown <= shown'

(* A step of one process leaves the others as they were.                   *)
LEMMA FineStep ==
  ASSUME Typed, Typed', Fine, NEW q \in Process,
         Read <= Read', shown <= shown', shown' <= Read',
         \A p \in Process \ {q} : proc'[p] = proc[p],
         \A c \in Calls \ {q} : since'[c] = since[c],
         Healthy(q)', q \in Calls => Covers(q)'
  PROVE  Grows
<1>1. Read \in Nat /\ Read' \in Nat
  <2>1. committed \in Nat /\ committed' \in Nat
    BY ReadIsLog, StreamAssumption DEF Typed
  <2>2. Read' \in 0..committed'
    <3>1. client'.events \in Logs(committed')
      BY DEF Typed, Known, ClientUpTo
    <3> QED  BY <2>1, <3>1, LogsRead DEF Read
  <2> QED  BY <2>1, <2>2, ReadIsLog
<1>2. ASSUME NEW p \in Process, p # q PROVE Healthy(p)'
  <2>1. proc'[p] = proc[p] /\ Healthy(p)
    BY <1>2 DEF Fine
  <2>2. proc[p].cursor \in Nat
    BY ReadIsLog DEF Typed, Known, ProcessUpTo
  <2> QED  BY <1>1, <2>1, <2>2 DEF Healthy
<1>3. ASSUME NEW c \in Calls, c # q PROVE Covers(c)'
  <2>1. /\ proc'[c] = proc[c] /\ since'[c] = since[c] /\ Covers(c)
        /\ since[c] \in Nat
    BY <1>3, ReadIsLog DEF Fine, Process, Typed, Known
  <2> QED  BY <1>1, <2>1 DEF Covers
<1> QED  BY <1>2, <1>3 DEF Fine, Grows

(* Steps that leave the processes and what was read as they are.           *)
LEMMA FineStays ==
  ASSUME Typed, Fine, UNCHANGED <<proc, since, shown>>, Read' = Read
  PROVE  Grows
<1>1. Read \in Nat /\ shown \in Nat
  BY ReadIsLog DEF Typed, Known
<1> QED  BY <1>1 DEF Fine, Healthy, Covers, Grows

LEMMA FineDeliver ==
  ASSUME Typed, Typed', Fine, Deliver
  PROVE  Grows
<1> DEFINE copies == [i \in 1..Cardinality(subs) |-> Head(wire)]
<1>1. copies \in Seq(1..committed)
  BY CopiesTyped DEF Deliver
<1> HIDE DEF copies
<1>2. CASE client.buffering
  <2>1. client' = [client EXCEPT !.buffered = @ \o copies] /\ UNCHANGED <<proc, since, shown>>
    BY <1>2 DEF Deliver, copies
  <2>2. Read' = Read
    BY <2>1 DEF Read, Typed, Known, ClientUpTo
  <2> QED  BY <2>1, <2>2, FineStays
<1>3. CASE ~client.buffering
  <2>1. /\ proc' = [proc EXCEPT ![Work].todo = @ \o copies]
        /\ UNCHANGED <<client, since, shown>>
    BY <1>3 DEF Deliver, copies
  <2>2. Work \in Process /\ Work \notin Calls /\ Read \in Nat /\ Read' = Read
    BY <2>1, StreamAssumption, ReadIsLog DEF Process, Read
  <2>3. /\ proc'[Work].at = proc[Work].at /\ proc'[Work].cursor = proc[Work].cursor
        /\ proc'[Work].asked = proc[Work].asked
        /\ proc'[Work].todo = proc[Work].todo \o copies
        /\ \A p \in Process \ {Work} : proc'[p] = proc[p]
    BY <2>1, <2>2 DEF Typed, Known, ProcessUpTo
  <2>4. proc[Work].todo # <<>> => Head(proc'[Work].todo) = Head(proc[Work].todo)
    <3>1. proc[Work].todo \in Seq(1..committed)
      BY <2>2 DEF Typed, Known, ProcessUpTo
    <3>2. SUFFICES ASSUME proc[Work].todo # <<>>
                   PROVE  Head(proc'[Work].todo) = Head(proc[Work].todo)
      OBVIOUS
    <3>3. 1 \in 1..Len(proc[Work].todo)
      BY <3>1, <3>2, EmptySeq, LenProperties
    <3> QED  BY <1>1, <2>3, <3>1, <3>3, ConcatProperties, HeadTailProperties, EmptySeq
  <2>5. Healthy(Work)'
    <3>1. Healthy(Work) /\ (proc[Work].at = "backfill" => proc[Work].todo # <<>>)
      BY <2>2 DEF Fine, Typed, Known, ProcessUpTo, Ingesting
    <3> QED  BY <2>2, <2>3, <2>4, <3>1 DEF Healthy
  <2>6. shown' <= Read' /\ shown <= shown' /\ Read <= Read'
    BY <2>1, <2>2, ReadIsLog DEF Fine, Typed, Known
  <2> QED  BY <2>1, <2>2, <2>3, <2>5, <2>6, FineStep
<1> QED  BY <1>2, <1>3

(* Calls that begin, subscribe or end.                                     *)
LEMMA FineCalls ==
  ASSUME Typed, Typed', Fine, NEW c \in Calls,
         Open(c) \/ Reconnect(c) \/ Subscribed(c) \/ Connected(c)
  PROVE  Grows
<1>1. c \in Process /\ Read \in Nat
  BY CallTyped, ReadIsLog
<1>2. /\ Read' = Read
      /\ \A p \in Process \ {c} : proc'[p] = proc[p]
      /\ \A d \in Calls \ {c} : since'[d] = since[d]
      /\ shown' \in {shown, Read}
      /\ proc'[c].at \in {"subscribe", "snapshot", "done"}
  <2>1. CASE Open(c)
    <3>1. /\ proc' \in {Await(c, "done"), [Await(c, "subscribe") EXCEPT ![c].opens = TRUE]}
          /\ client' \in {client, [client EXCEPT !.buffering = TRUE]}
          /\ since' = [since EXCEPT ![c] = committed] /\ shown' = shown
      BY <2>1 DEF Open
    <3>2. Read' = Read
      BY <3>1 DEF Read, Typed, Known, ClientUpTo
    <3>3. /\ \A p \in Process \ {c} : proc'[p] = proc[p]
          /\ proc'[c].at \in {"subscribe", "done"}
      <4>1. CASE proc' = Await(c, "done")
        BY <1>1, <4>1 DEF Await, Typed, Known, ProcessUpTo
      <4>2. CASE proc' = [Await(c, "subscribe") EXCEPT ![c].opens = TRUE]
        BY <1>1, <4>2 DEF Await, Typed, Known, ProcessUpTo
      <4> QED  BY <3>1, <4>1, <4>2
    <3>4. \A d \in Calls \ {c} : since'[d] = since[d]
      BY <3>1 DEF Typed, Known
    <3> QED  BY <3>1, <3>2, <3>3, <3>4
  <2>2. CASE Reconnect(c)
    BY <1>1, <2>2 DEF Reconnect, Await, Read, Typed, Known, ClientUpTo, ProcessUpTo
  <2>3. CASE Subscribed(c)
    BY <1>1, <2>3 DEF Subscribed, Await, Read, Typed, Known, ClientUpTo, ProcessUpTo
  <2>4. CASE Connected(c)
    BY <1>1, <2>4 DEF Connected, Idle, Read, Typed, Known, ClientUpTo, ProcessUpTo
  <2> QED  BY <2>1, <2>2, <2>3, <2>4
<1>3. Healthy(c)' /\ Covers(c)'
  BY <1>2 DEF Healthy, Covers
<1>4. shown' <= Read' /\ Read <= Read' /\ shown <= shown'
  BY <1>1, <1>2, ReadIsLog DEF Fine, Typed, Known
<1> QED  BY <1>1, <1>2, <1>3, <1>4, FineStep

(* A process that asks for a page, for the event it takes in if it is      *)
(* "backfill".                                                             *)
LEMMA FineAsks ==
  ASSUME Typed, Typed', Fine, NEW p \in Process,
         NEW at \in {"fetch", "backfill"}, NEW cursor \in 0..committed,
         at = "backfill" => proc[p].todo # <<>>,
         at = "backfill" /\ p \in Calls => since[p] <= Read,
         proc' = AwaitPage(p, at, cursor), UNCHANGED <<since, shown>>,
         cursor <= Read', Read <= Read'
  PROVE  Grows
<1>1. /\ proc'[p].at = at /\ proc'[p].cursor = cursor
      /\ proc'[p].asked = committed /\ proc'[p].todo = proc[p].todo
      /\ \A q \in Process \ {p} : proc'[q] = proc[q]
  BY DEF AwaitPage, Typed, Known, ProcessUpTo
<1>2. Read \in Nat /\ Read' \in Nat /\ shown \in Nat /\ committed \in Nat /\ shown <= Read
  <2>1. committed \in Nat /\ committed' \in Nat
    BY ReadIsLog, StreamAssumption DEF Typed
  <2>2. client'.events \in Logs(committed')
    BY DEF Typed, Known, ClientUpTo
  <2>3. Read' \in Nat
    BY <2>1, <2>2, LogsRead DEF Read
  <2> QED  BY <2>1, <2>3, ReadIsLog DEF Typed, Known, Fine
<1>3. at = "backfill" => Head(proc[p].todo) <= committed
  BY <1>2, TodoTyped
<1>4. Healthy(p)'
  BY <1>1, <1>3 DEF Healthy
<1>5. ASSUME p \in Calls PROVE Covers(p)'
  <2>1. since'[p] = since[p] /\ since[p] \in Nat /\ since[p] <= committed
    BY <1>2, <1>5 DEF Typed, Known
  <2> QED  BY <1>1, <1>2, <1>5, <2>1 DEF Covers
<1>6. shown' <= Read' /\ shown <= shown'
  BY <1>2
<1> QED  BY <1>1, <1>4, <1>5, <1>6, FineStep

LEMMA FineSnapshot ==
  ASSUME Typed, Typed', Fine, NEW p \in Process, Snapshot(p)
  PROVE  Grows
<1>1. proc[p].at = "snapshot"
  BY DEF Snapshot, Fine, Healthy
<1>2. /\ proc' = AwaitPage(p, "fetch", Read) /\ client' = client
      /\ UNCHANGED <<since, shown>>
  BY <1>1 DEF Snapshot, Read
<1>3. Read' = Read /\ Read \in 0..committed /\ Read \in Nat
  BY <1>2, ReadIsLog DEF Read
<1> QED  BY <1>2, <1>3, FineAsks

LEMMA FineIngest ==
  ASSUME Typed, Typed', Fine, NEW p \in Process, Ingest(p)
  PROVE  Grows
<1> DEFINE next == Head(proc[p].todo)
           merged == Merged(client.events, next, next)
<1>1. proc[p].todo # <<>> /\ proc[p].at = "ingest" /\ UNCHANGED since
  BY DEF Ingest
<1>2. /\ next \in 1..committed /\ committed \in Nat /\ Read \in 0..committed
      /\ client.events \in Logs(committed) /\ shown \in Nat /\ shown <= Read
  BY <1>1, TodoTyped, ReadIsLog DEF Typed, Known, Fine
<1>3. CASE Merges(client.events, next)
  <2>1. /\ proc' = [proc EXCEPT ![p].todo = Tail(@)]
        /\ client' = [client EXCEPT !.events = merged]
        /\ shown' = IF next > Read THEN next ELSE shown
    BY <1>3 DEF Ingest, Read
  <2>2. merged \in Logs(committed) /\ Len(merged) \in Nat
        /\ Len(merged) = IF next <= Read + 1 /\ Read < next THEN next ELSE Read
    BY <1>2, TakenRead
  <2>3. Read' = Len(merged)
    BY <2>1, <2>2, ClientReads DEF Read
  <2>4. next <= Read + 1
    BY <1>3 DEF Merges, Read
  <2>5. Read <= Read' /\ shown' <= Read' /\ shown <= shown'
    BY <1>2, <2>1, <2>2, <2>3, <2>4
  <2>6. /\ proc'[p].at = "ingest"
        /\ \A q \in Process \ {p} : proc'[q] = proc[q]
    BY <1>1, <2>1 DEF Typed, Known, ProcessUpTo
  <2>7. Healthy(p)'
    BY <2>6 DEF Healthy
  <2>8. ASSUME p \in Calls PROVE Covers(p)'
    <3>1. since[p] <= Read /\ since'[p] = since[p] /\ since[p] \in Nat
      BY <1>1, <1>2, <2>8 DEF Fine, Covers, Typed, Known
    <3>2. since'[p] <= Read'
      BY <1>2, <2>2, <2>3, <2>5, <3>1
    <3> QED  BY <2>6, <3>2 DEF Covers
  <2> QED  BY <1>1, <2>5, <2>6, <2>7, <2>8, FineStep
<1>4. CASE ~Merges(client.events, next)
  <2>1. proc' = AwaitPage(p, "backfill", Read) /\ client' = client /\ shown' = shown
    BY <1>4 DEF Ingest, Read
  <2>2. Read' = Read /\ Read <= Read
    BY <1>2, <2>1 DEF Read
  <2>3. p \in Calls => since[p] <= Read
    BY <1>1 DEF Fine, Covers
  <2> QED  BY <1>1, <1>2, <2>1, <2>2, <2>3, FineAsks
<1> QED  BY <1>3, <1>4

(* The last page of a read: the event that was awaited is there.           *)
LEMMA FineFetched ==
  ASSUME Typed, Typed', Fine, NEW p \in Process, proc[p].at \in {"fetch", "backfill"},
         NEW upto \in proc[p].asked..committed, PageEnds(p, upto), UNCHANGED since
  PROVE  Grows
<1> DEFINE events == PageMerged(p, upto)
           next   == Head(proc[p].todo)
           merged == Merged(events, next, next)
<1>1. /\ committed \in Nat /\ Read \in Nat /\ shown \in Nat /\ shown <= Read
      /\ proc[p].cursor \in Nat /\ proc[p].asked \in Nat
      /\ upto \in Nat /\ proc[p].asked <= upto /\ proc[p].cursor <= Read
  <2>1. /\ committed \in Nat /\ Read \in Nat /\ shown \in Nat /\ shown <= Read
        /\ proc[p].cursor <= Read
    BY ReadIsLog DEF Typed, Known, Fine, Healthy
  <2>2. proc[p].cursor \in Nat /\ proc[p].asked \in Nat /\ upto \in Nat
    BY <2>1, PageType
  <2> QED  BY <2>1, <2>2
<1>2. /\ events \in Logs(committed) /\ Len(events) \in Nat
      /\ Read <= Len(events) /\ upto <= Len(events)
  BY <1>1, PageMergedRead DEF PageEnds
<1> HIDE DEF events
<1>3. Fetched(p, events)
  BY DEF PageEnds, events
<1>4. CASE proc[p].at = "fetch"
  <2>1. /\ proc' = [proc EXCEPT ![p].at = "ingest", ![p].todo = Buffered]
        /\ client' = [client EXCEPT !.events = events, !.buffering = FALSE,
                                    !.buffered = <<>>]
        /\ shown' = shown
    BY <1>3, <1>4 DEF Fetched
  <2>2. Read' = Len(events)
    BY <2>1 DEF Read, Typed, Known, ClientUpTo
  <2>3. /\ proc'[p].at = "ingest"
        /\ \A q \in Process \ {p} : proc'[q] = proc[q]
    BY <2>1 DEF Typed, Known, ProcessUpTo
  <2>4. Healthy(p)'
    BY <2>3 DEF Healthy
  <2>5. ASSUME p \in Calls PROVE Covers(p)'
    <3>1. since[p] <= proc[p].asked /\ since'[p] = since[p] /\ since[p] \in Nat
      BY <1>1, <1>4, <2>5 DEF Fine, Covers, Typed, Known
    <3>2. since'[p] <= Read'
      BY <1>1, <1>2, <2>2, <3>1
    <3> QED  BY <2>3, <3>2 DEF Covers
  <2>6. Read <= Read' /\ shown' <= Read' /\ shown <= shown'
    BY <1>1, <1>2, <2>1, <2>2
  <2> QED  BY <2>3, <2>4, <2>5, <2>6, FineStep
<1>5. CASE proc[p].at = "backfill"
  <2>1. proc[p].todo # <<>>
    BY <1>5 DEF Typed, Known, ProcessUpTo, Ingesting
  <2>2. next \in 1..committed /\ next \in Nat \ {0} /\ next \in 0..committed
    BY <1>1, <2>1, TodoTyped
  <2>3. next <= proc[p].asked
    BY <1>5 DEF Fine, Healthy
  <2>4. next <= Len(events) /\ Merges(events, next)
    BY <1>1, <1>2, <2>2, <2>3 DEF Merges
  <2>5. merged \in Logs(committed) /\ Len(merged) = Len(events)
    BY <1>1, <1>2, <2>2, <2>4, MergedRead
  <2>6. /\ proc' = [proc EXCEPT ![p].at = "ingest", ![p].todo = Tail(@)]
        /\ client' = [client EXCEPT !.events = merged] /\ shown' = Len(merged)
    BY <1>3, <1>5, <2>4 DEF Fetched
  <2>7. Read' = Len(events)
    BY <2>5, <2>6, ClientReads DEF Read
  <2>8. /\ proc'[p].at = "ingest"
        /\ \A q \in Process \ {p} : proc'[q] = proc[q]
    BY <2>6 DEF Typed, Known, ProcessUpTo
  <2>9. Healthy(p)'
    BY <2>8 DEF Healthy
  <2>10. ASSUME p \in Calls PROVE Covers(p)'
    <3>1. since[p] <= Read /\ since'[p] = since[p] /\ since[p] \in Nat
      BY <1>1, <1>5, <2>10 DEF Fine, Covers, Typed, Known
    <3>2. since'[p] <= Read'
      BY <1>1, <1>2, <2>7, <3>1
    <3> QED  BY <2>8, <3>2 DEF Covers
  <2>11. Read <= Read' /\ shown' <= Read' /\ shown <= shown'
    BY <1>1, <1>2, <2>5, <2>6, <2>7
  <2> QED  BY <2>8, <2>9, <2>10, <2>11, FineStep
<1> QED  BY <1>4, <1>5

LEMMA FinePage ==
  ASSUME Typed, Typed', Fine, NEW p \in Process, Page(p)
  PROVE  Grows
<1>1. PICK upto \in proc[p].asked..committed :
        PageFails(p, upto) \/ PageContinues(p, upto) \/ PageEnds(p, upto)
  BY PageCases
<1>2. proc[p].at \in {"fetch", "backfill"} /\ UNCHANGED since
  BY PageCases DEF Paging, Fine, Healthy
<1>3. /\ Read \in Nat /\ proc[p].cursor \in Nat /\ proc[p].cursor <= Read
      /\ PageLast(p, upto) \in 0..committed /\ committed \in Nat
  BY <1>2, PageType, ReadIsLog DEF Fine, Healthy
<1>4. ~PageFails(p, upto)
  BY <1>3 DEF PageFails, Merges, Read
<1>5. CASE PageContinues(p, upto)
  <2>1. /\ proc' = AwaitPage(p, proc[p].at, PageLast(p, upto))
        /\ client' = [client EXCEPT !.events = PageMerged(p, upto)] /\ shown' = shown
    BY <1>5 DEF PageContinues
  <2>2. Read' = Len(PageMerged(p, upto))
    BY <2>1, PageMergedRead, ClientReads DEF Read
  <2>3. Read <= Read' /\ PageLast(p, upto) <= Read'
    BY <1>3, <2>2, PageMergedRead
  <2>4. /\ proc[p].at = "backfill" => proc[p].todo # <<>>
        /\ proc[p].at = "backfill" /\ p \in Calls => since[p] <= Read
    BY DEF Typed, Known, ProcessUpTo, Ingesting, Fine, Covers
  <2> QED  BY <1>2, <1>3, <2>1, <2>3, <2>4, FineAsks
<1>6. CASE PageEnds(p, upto)
  BY <1>2, <1>6, FineFetched
<1> QED  BY <1>1, <1>4, <1>5, <1>6

LEMMA GaplessInit == Init => Gapless
<1> SUFFICES ASSUME Init PROVE Fine
  BY DEF Gapless
<1>1. Read = 0 /\ shown = 0
  BY InitTyped, EmptyTyped, EmptySeq DEF Init, Read
<1>2. \A p \in Process : proc[p].at \in {"new", "ingest"}
  BY DEF Init, Idle
<1>3. \A c \in Calls : proc[c].at = "new"
  BY StreamAssumption DEF Init, Idle, Process
<1> QED  BY <1>1, <1>2, <1>3 DEF Fine, Healthy, Covers

(* A call that fails keeps what the client had.                            *)
LEMMA CallFailsReads ==
  ASSUME Typed, NEW p \in Process, CallFails(p)
  PROVE  Read' = Read
<1>1. ASSUME Fails(p, client.events) PROVE Read' = Read
  BY <1>1, ReadIsLog, DisconnectedTyped, ClientReads DEF Fails, Read
<1>2. ASSUME FetchFails(p, client.events) PROVE Read' = Read
  BY <1>1, <1>2, ReadIsLog, ClientReads DEF FetchFails, Read
<1> QED  BY <1>1, <1>2 DEF CallFails

LEMMA FineNext ==
  ASSUME Typed, Typed', Fine, [Next]_vars
  PROVE  /\ Read <= Read' /\ shown <= shown'
         /\ PageSize <= MaxLimit /\ faults' = 0 => Fine'
<1>1. CASE UNCHANGED vars
  BY <1>1, FineStays DEF vars, Read, Grows
<1>2. CASE Commit \/ Lose
  BY <1>2, FineStays DEF Commit, Lose, Read, Grows
<1>3. CASE Disconnect
  <2>1. Read' = Read
    BY <1>3, ReadIsLog, DisconnectedTyped DEF Disconnect, Read
  <2> QED  BY <1>3, <2>1, FineStays DEF Disconnect, Grows
<1>4. CASE Deliver
  BY <1>4, FineDeliver DEF Grows
<1>5. ASSUME NEW c \in Calls, Open(c) \/ Reconnect(c) \/ Subscribed(c) \/ Connected(c)
      PROVE  Grows
  BY <1>5, FineCalls
<1>6. ASSUME NEW p \in Process, Step(p) PROVE Grows
  BY <1>6, FineSnapshot, FinePage, FineIngest DEF Step
<1>7. ASSUME NEW p \in Process, CallFails(p)
      PROVE  /\ Read <= Read' /\ shown <= shown'
             /\ ~(PageSize <= MaxLimit /\ faults' = 0)
  <2>1. Read' = Read /\ shown' = shown
    BY <1>7, CallFailsReads DEF CallFails
  <2>2. Read \in Nat /\ shown \in Nat /\ faults \in Nat
    BY ReadIsLog, StreamAssumption DEF Typed, Known
  <2>3. PageSize <= MaxLimit => ~(PageSize > MaxLimit)
    BY StreamAssumption
  <2> QED  BY <1>7, <2>1, <2>2, <2>3 DEF CallFails
<1> QED  BY <1>1, <1>2, <1>3, <1>4, <1>5, <1>6, <1>7 DEF Next, Grows

LEMMA GaplessInductive == Typed /\ Typed' /\ Gapless /\ [Next]_vars => Gapless'
<1> SUFFICES ASSUME Typed, Typed', Gapless, [Next]_vars, faults' = 0, PageSize <= MaxLimit
             PROVE  Fine'
  BY DEF Gapless
<1>1. faults \in Nat
  BY StreamAssumption DEF Typed
<1>2. ASSUME NEW p \in Process, CallFails(p) PROVE FALSE
  <2>1. ~(PageSize > MaxLimit)
    BY StreamAssumption
  <2> QED  BY <1>1, <1>2, <2>1 DEF CallFails
<1>3. faults = 0
  BY <1>2 DEF Next, vars, Commit, Deliver, Lose, Disconnect, Open, Reconnect, Subscribed,
              Connected, Step, Snapshot, Page, Ingest
<1> QED  BY <1>3, FineNext DEF Gapless

-----------------------------------------------------------------------------
(* While every page is refused an empty client stays empty.                *)

LEMMA TodoType ==
  ASSUME Typed
  PROVE  /\ proc[Work].todo \in Seq(1..committed) /\ wire \in Seq(1..committed)
         /\ proc[Work].at # "ingest" => proc[Work].todo # <<>>
         /\ Work \in Process /\ Work \notin Calls
         /\ committed \in Nat /\ Read \in Nat /\ shown \in Nat
  BY ReadIsLog, StreamAssumption
     DEF Typed, Known, ProcessUpTo, WorkPlaces, Ingesting, Process

LEMMA TailElements ==
  ASSUME NEW n \in Nat, NEW s \in Seq(1..n), s # <<>>
  PROVE  /\ DOMAIN s = 1..Len(s) /\ Len(s) \in Nat \ {0} /\ 1 \in DOMAIN s
         /\ Head(s) = s[1] /\ Head(s) \in 1..n
         /\ Tail(s) \in Seq(1..n) /\ DOMAIN Tail(s) = 1..Len(s) - 1
         /\ \A i \in DOMAIN Tail(s) : i + 1 \in DOMAIN s /\ Tail(s)[i] = s[i + 1]
<1>1. Len(s) \in Nat \ {0} /\ DOMAIN s = 1..Len(s)
  BY LenProperties, EmptySeq
<1>2. /\ Tail(s) \in Seq(1..n) /\ Len(Tail(s)) = Len(s) - 1
      /\ \A i \in 1..Len(Tail(s)) : Tail(s)[i] = s[i + 1]
      /\ Head(s) = s[1] /\ Head(s) \in 1..n
  BY HeadTailProperties
<1>3. DOMAIN Tail(s) = 1..Len(Tail(s))
  BY <1>2, LenProperties
<1> QED  BY <1>1, <1>2, <1>3

(* The event that is taken off leaves the rest in its order.               *)
LEMMA FirstComesTail ==
  ASSUME NEW n \in Nat, NEW todo \in Seq(1..n), todo # <<>>, FirstComes(todo)
  PROVE  /\ FirstComes(Tail(todo))
         /\ NoFirst(todo) => NoFirst(Tail(todo))
         /\ Head(todo) # 1 => NoFirst(todo) /\ NoFirst(wire)
<1>1. /\ 1 \in DOMAIN todo /\ DOMAIN todo = 1..Len(todo) /\ Len(todo) \in Nat
      /\ \A i \in DOMAIN Tail(todo) : i \in Nat /\ i + 1 \in DOMAIN todo
                                      /\ Tail(todo)[i] = todo[i + 1]
      /\ Head(todo) = todo[1]
  BY TailElements
<1>2. NoFirst(todo) => NoFirst(Tail(todo))
  BY <1>1 DEF NoFirst
<1>3. Head(todo) # 1 => NoFirst(todo) /\ NoFirst(wire)
  BY <1>1 DEF FirstComes, NoFirst
<1>4. FirstComes(Tail(todo))
  BY <1>1 DEF FirstComes
<1> QED  BY <1>2, <1>3, <1>4

(* Steps that leave what is on its way as it is.                           *)
LEMMA RefusedStays ==
  ASSUME Typed, Refused, UNCHANGED <<wire, committed, shown>>, Read' = Read,
         proc'[Work].todo = proc[Work].todo,
         proc'[Work].at # "ingest" => proc[Work].at # "ingest",
         \A c \in Calls :
           proc'[c].at \in {"new", "subscribe", "snapshot", "fetch", "done", "failed"}
  PROVE  Refused'
  BY DEF Refused, FirstComes, NoFirst

LEMMA RefusedCommit ==
  ASSUME Typed, Refused, Commit
  PROVE  Refused'
<1> DEFINE n == committed + 1
           todo == proc[Work].todo
<1>1. /\ committed \in Nat /\ wire' = Append(wire, n) /\ committed' = n
      /\ UNCHANGED <<client, proc, shown>> /\ Read' = Read
  BY TodoType DEF Commit, Read
<1>2. /\ wire \in Seq(1..committed) /\ Len(wire) \in Nat
      /\ DOMAIN wire = 1..Len(wire) /\ wire' \in Seq(Nat)
      /\ DOMAIN wire' = 1..Len(wire) + 1
      /\ \A i \in 1..Len(wire) : wire'[i] = wire[i]
      /\ wire'[Len(wire) + 1] = n
  <2>1. wire \in Seq(1..committed) /\ wire \in Seq(Nat)
    <3>1. 1..committed \subseteq Nat
      OBVIOUS
    <3> QED  BY <3>1, TodoType, SeqMonotonic
  <2> QED  BY <1>1, <2>1, AppendProperties, LenProperties
<1>3. NoFirst(wire) /\ committed > 0 => NoFirst(wire')
  BY <1>1, <1>2 DEF NoFirst
<1>4. NoFirst(Tail(wire'))
  <2>1. wire' # <<>>
    BY <1>2, EmptySeq
  <2>2. /\ DOMAIN Tail(wire') = 1..Len(wire)
        /\ \A i \in 1..Len(wire) : Tail(wire')[i] = wire'[i + 1]
    <3>1. Len(wire') = Len(wire) + 1
      BY <1>2, LenProperties
    <3>2. /\ Tail(wire') \in Seq(Nat) /\ Len(Tail(wire')) = Len(wire)
          /\ \A i \in 1..Len(wire) : Tail(wire')[i] = wire'[i + 1]
      BY <1>2, <2>1, <3>1, HeadTailProperties
    <3> QED  BY <3>2, LenProperties
  <2>3. CASE wire = <<>>
    BY <2>2, <2>3, EmptySeq DEF NoFirst
  <2>4. CASE wire # <<>>
    <3>1. /\ \A i \in DOMAIN Tail(wire) : Tail(wire)[i] = wire[i + 1]
          /\ DOMAIN Tail(wire) = 1..Len(wire) - 1
          /\ Head(wire) \in 1..committed
      BY <1>1, <1>2, <2>4, TailElements
    <3>2. \A i \in 1..Len(wire) - 1 : wire[i + 1] # 1
      BY <2>4, <3>1 DEF Refused, FirstComes, NoFirst
    <3>3. n # 1
      BY <1>1, <3>1
    <3>4. \A i \in 1..Len(wire) : wire'[i + 1] # 1
      <4> SUFFICES ASSUME NEW i \in 1..Len(wire) PROVE wire'[i + 1] # 1
        OBVIOUS
      <4>1. Len(wire) \in Nat
        BY <1>2
      <4>2. CASE i < Len(wire)
        <5>1. i + 1 \in 1..Len(wire) /\ i \in 1..Len(wire) - 1
          BY <4>1, <4>2
        <5>2. wire'[i + 1] = wire[i + 1] /\ wire[i + 1] # 1
          BY <1>2, <3>2, <5>1
        <5> QED  BY <5>2
      <4>3. CASE i = Len(wire)
        BY <1>2, <3>3, <4>3
      <4> QED  BY <4>1, <4>2, <4>3
    <3> QED  BY <2>2, <3>4 DEF NoFirst
  <2> QED  BY <2>3, <2>4
<1>5. ~NoFirst(wire') => \A i \in DOMAIN todo : todo[i] = 1
  <2>1. CASE committed > 0
    BY <1>3, <2>1 DEF Refused, FirstComes
  <2>2. CASE committed = 0
    <3>1. \A i \in DOMAIN todo : todo[i] \in 1..0
      BY <2>2, TodoType, LenProperties, ElementOfSeq
    <3> QED  BY <3>1
  <2> QED  BY <1>1, <2>1, <2>2
<1>6. FirstComes(todo)'
  BY <1>1, <1>4, <1>5 DEF Refused, FirstComes
<1> QED  BY <1>1, <1>3, <1>6 DEF Refused

LEMMA RefusedDeliver ==
  ASSUME Typed, Refused, Deliver
  PROVE  Refused'
<1> DEFINE copies == [i \in 1..Cardinality(subs) |-> Head(wire)]
           todo == proc[Work].todo
<1>1. /\ wire # <<>> /\ wire' = Tail(wire) /\ wire \in Seq(1..committed)
      /\ UNCHANGED <<committed, shown>> /\ committed \in Nat /\ Work \notin Calls
      /\ todo \in Seq(1..committed) /\ Work \in Process
  BY TodoType DEF Deliver
<1>2. NoFirst(wire')
  BY <1>1 DEF Refused, FirstComes
<1>3. wire' # <<>> => NoFirst(Tail(wire'))
  <2> SUFFICES ASSUME wire' # <<>> PROVE NoFirst(Tail(wire'))
    OBVIOUS
  <2>1. wire' \in Seq(1..committed)
    BY <1>1, TailElements
  <2>2. \A i \in DOMAIN Tail(wire') : i + 1 \in DOMAIN wire' /\ Tail(wire')[i] = wire'[i + 1]
    BY <1>1, <2>1, TailElements
  <2> QED  BY <1>2, <2>2 DEF NoFirst
<1>4. CASE client.buffering
  <2>1. proc' = proc /\ Read' = Read
    BY <1>4, ReadIsLog DEF Deliver, Read, Typed, Known, ClientUpTo
  <2> QED  BY <1>1, <1>2, <1>3, <2>1 DEF Refused, FirstComes
<1>5. CASE ~client.buffering
  <2>1. copies \in Seq(1..committed) /\ DOMAIN copies = 1..Cardinality(subs)
        /\ Cardinality(subs) \in Nat /\ \A i \in DOMAIN copies : copies[i] = Head(wire)
    BY <1>1, CopiesTyped
  <2> HIDE DEF copies
  <2>2. proc' = [proc EXCEPT ![Work].todo = @ \o copies] /\ client' = client
    BY <1>5 DEF Deliver, copies
  <2>3. /\ proc'[Work].todo = todo \o copies /\ proc'[Work].at = proc[Work].at
        /\ \A c \in Calls : proc'[c] = proc[c]
        /\ Read' = Read
    BY <1>1, <2>2 DEF Typed, Known, ProcessUpTo, Process, Read
  <2> DEFINE new == todo \o copies
  <2>4. /\ Len(todo) \in Nat /\ DOMAIN todo = 1..Len(todo)
        /\ DOMAIN new = 1..Len(todo) + Cardinality(subs)
        /\ \A i \in DOMAIN new :
             \/ i \in DOMAIN todo /\ new[i] = todo[i]
             \/ i > Len(todo) /\ new[i] = Head(wire)
    <3>1. Len(copies) = Cardinality(subs)
      BY <2>1, LenProperties
    <3>2. /\ new \in Seq(1..committed) /\ Len(new) = Len(todo) + Len(copies)
          /\ \A i \in 1..Len(todo) + Len(copies) :
               new[i] = IF i <= Len(todo) THEN todo[i] ELSE copies[i - Len(todo)]
      BY <1>1, <2>1, ConcatProperties
    <3>3. DOMAIN new = 1..Len(new) /\ Len(todo) \in Nat /\ DOMAIN todo = 1..Len(todo)
      BY <1>1, <3>2, LenProperties
    <3> HIDE DEF new
    <3>4. ASSUME NEW i \in DOMAIN new
          PROVE  \/ i \in DOMAIN todo /\ new[i] = todo[i]
                 \/ i > Len(todo) /\ new[i] = Head(wire)
      <4>1. i \in 1..Len(todo) + Len(copies)
        BY <3>2, <3>3
      <4>2. CASE i <= Len(todo)
        <5>1. i \in DOMAIN todo
          BY <3>3, <4>1, <4>2
        <5> QED  BY <3>2, <4>1, <4>2, <5>1
      <4>3. CASE i > Len(todo)
        <5>1. i - Len(todo) \in DOMAIN copies
          <6>1. Len(copies) \in Nat /\ DOMAIN copies = 1..Len(copies)
            BY <2>1, LenProperties
          <6>2. i \in Nat /\ i <= Len(todo) + Len(copies)
            BY <3>3, <4>1, <6>1
          <6>3. i - Len(todo) \in 1..Len(copies)
            BY <3>3, <4>3, <6>1, <6>2, Shifted
          <6> QED  BY <6>1, <6>3
        <5>2. new[i] = copies[i - Len(todo)]
          <6>1. ~(i <= Len(todo))
            BY <3>3, <4>1, <4>3
          <6> QED  BY <3>2, <4>1, <6>1
        <5> QED  BY <2>1, <4>3, <5>1, <5>2
      <4>4. i <= Len(todo) \/ i > Len(todo)
        BY <3>3, <4>1
      <4> QED  BY <4>2, <4>3, <4>4
    <3> QED  BY <3>1, <3>2, <3>3, <3>4
  <2> HIDE DEF new
  <2>5. Head(wire) = 1 => ~NoFirst(wire)
    BY <1>1, TailElements DEF NoFirst
  <2>6. ASSUME NEW i \in DOMAIN new, NEW j \in DOMAIN new, i < j, new[j] = 1
        PROVE  new[i] = 1
    <3>1. /\ \A a, b \in DOMAIN todo : a < b /\ todo[b] = 1 => todo[a] = 1
          /\ ~NoFirst(wire) => \A a \in DOMAIN todo : todo[a] = 1
      BY DEF Refused, FirstComes
    <3> QED  BY <2>4, <2>5, <2>6, <3>1
  <2>7. FirstComes(proc[Work].todo)'
    BY <1>2, <1>3, <2>3, <2>6 DEF FirstComes, new
  <2>8. proc'[Work].at # "ingest" => Head(proc'[Work].todo) # 1
    <3> SUFFICES ASSUME proc'[Work].at # "ingest" PROVE Head(new) # 1
      BY <2>3 DEF new
    <3>1. todo # <<>> /\ Head(todo) # 1 /\ Head(todo) = todo[1] /\ 1 \in DOMAIN todo
      BY <1>1, <2>3, TodoType, TailElements DEF Refused
    <3>2. Head(new) = new[1]
      <4>1. new \in Seq(1..committed)
        BY <1>1, <2>1, ConcatProperties DEF new
      <4>2. new # <<>>
        BY <2>1, <2>4, <3>1, EmptySeq
      <4> QED  BY <1>1, <4>1, <4>2, TailElements
    <3> QED  BY <2>1, <2>4, <3>1, <3>2
  <2>9. NoFirst(todo) /\ NoFirst(wire) => NoFirst(new)
    BY <2>4, <2>5 DEF NoFirst
  <2> QED  BY <1>1, <1>2, <2>3, <2>7, <2>8, <2>9 DEF Refused, new
<1> QED  BY <1>4, <1>5

LEMMA RefusedLose ==
  ASSUME Typed, Refused, Lose
  PROVE  Refused'
<1>1. /\ wire # <<>> /\ wire' = Tail(wire) /\ wire \in Seq(1..committed)
      /\ UNCHANGED <<committed, shown, client, proc>> /\ committed \in Nat /\ Read' = Read
  BY TodoType DEF Lose, Read
<1>2. NoFirst(wire')
  BY <1>1 DEF Refused, FirstComes
<1>3. wire' # <<>> => NoFirst(Tail(wire'))
  <2> SUFFICES ASSUME wire' # <<>> PROVE NoFirst(Tail(wire'))
    OBVIOUS
  <2>1. wire' \in Seq(1..committed)
    BY <1>1, TailElements
  <2>2. \A i \in DOMAIN Tail(wire') : i + 1 \in DOMAIN wire' /\ Tail(wire')[i] = wire'[i + 1]
    BY <1>1, <2>1, TailElements
  <2> QED  BY <1>2, <2>2 DEF NoFirst
<1> QED  BY <1>1, <1>2, <1>3 DEF Refused, FirstComes

(* Calls that begin, subscribe or end: none takes in an event.             *)
LEMMA RefusedCalls ==
  ASSUME Typed, Refused, NEW c \in Calls,
         Open(c) \/ Reconnect(c) \/ Subscribed(c) \/ Connected(c)
  PROVE  Refused'
<1>1. c \in Process /\ c # Work /\ Work \in Process
  BY CallTyped, TodoType
<1>2. ~Connected(c)
  BY DEF Refused, Connected
<1>3. /\ Read' = Read /\ UNCHANGED <<wire, committed, shown>>
      /\ \A p \in Process \ {c} : proc'[p] = proc[p]
      /\ proc'[c].at \in {"subscribe", "snapshot", "done"}
  <2>1. CASE Open(c)
    <3>1. /\ proc' \in {Await(c, "done"), [Await(c, "subscribe") EXCEPT ![c].opens = TRUE]}
          /\ client' \in {client, [client EXCEPT !.buffering = TRUE]}
          /\ UNCHANGED <<wire, committed, shown>>
      BY <2>1 DEF Open
    <3>2. Read' = Read
      BY <3>1 DEF Read, Typed, Known, ClientUpTo
    <3>3. CASE proc' = Await(c, "done")
      BY <1>1, <3>1, <3>2, <3>3 DEF Await, Typed, Known, ProcessUpTo
    <3>4. CASE proc' = [Await(c, "subscribe") EXCEPT ![c].opens = TRUE]
      BY <1>1, <3>1, <3>2, <3>4 DEF Await, Typed, Known, ProcessUpTo
    <3> QED  BY <3>1, <3>3, <3>4
  <2>2. CASE Reconnect(c)
    BY <1>1, <2>2 DEF Reconnect, Await, Read, Typed, Known, ClientUpTo, ProcessUpTo
  <2>3. CASE Subscribed(c)
    BY <1>1, <2>3 DEF Subscribed, Await, Read, Typed, Known, ClientUpTo, ProcessUpTo
  <2> QED  BY <1>2, <2>1, <2>2, <2>3
<1>4. \A d \in Calls :
        proc'[d].at \in {"new", "subscribe", "snapshot", "fetch", "done", "failed"}
  BY <1>3 DEF Refused, Process
<1> QED  BY <1>1, <1>3, <1>4, RefusedStays

(* A full resync empties the client, and what is left comes after the      *)
(* first event.                                                            *)
LEMMA RefusedSnapshot ==
  ASSUME Typed, Refused, NEW p \in Process, Snapshot(p)
  PROVE  Refused'
<1>1. UNCHANGED <<wire, committed, shown>> /\ Work \in Process /\ Work \notin Calls
  BY TodoType DEF Snapshot
<1>2. CASE proc[p].at = "snapshot"
  <2>1. proc' = AwaitPage(p, "fetch", Read) /\ client' = client
    BY <1>2 DEF Snapshot, Read
  <2>2. p \in Calls /\ p # Work
    BY <1>1, <1>2 DEF Process, Typed, WorkPlaces, Ingesting
  <2>3. /\ proc'[p].at = "fetch" /\ \A q \in Process \ {p} : proc'[q] = proc[q]
    BY <2>1 DEF AwaitPage, Typed, Known, ProcessUpTo
  <2>4. \A d \in Calls :
          proc'[d].at \in {"new", "subscribe", "snapshot", "fetch", "done", "failed"}
    BY <2>3 DEF Refused, Process
  <2> QED  BY <1>1, <2>1, <2>2, <2>3, <2>4, RefusedStays DEF Read
<1>3. CASE proc[p].at \in {"resync1", "resync2"}
  <2>1. p = Work
    BY <1>3 DEF Process, Refused
  <2>2. /\ client' = [client EXCEPT !.events = <<>>]
        /\ proc' = AwaitPage(p, IF proc[p].at = "resync1" THEN "refetch1" ELSE "refetch2", 0)
    BY <1>3 DEF Snapshot
  <2>3. Read' = 0
    BY <2>2, ClientReads, EmptyTyped, ReadIsLog, EmptySeq DEF Read
  <2>4. /\ proc'[Work].todo = proc[Work].todo
        /\ \A c \in Calls : proc'[c] = proc[c]
    BY <1>1, <2>1, <2>2 DEF AwaitPage, Typed, Known, ProcessUpTo, Process
  <2>5. /\ proc[Work].todo # <<>> /\ Head(proc[Work].todo) # 1
        /\ proc[Work].todo \in Seq(1..committed) /\ committed \in Nat
    BY <1>3, <2>1, TodoType DEF Refused
  <2>6. NoFirst(proc[Work].todo) /\ NoFirst(wire)
    BY <2>5, FirstComesTail DEF Refused
  <2>7. committed > 0
    BY <2>5, TailElements
  <2>8. FirstComes(proc[Work].todo)'
    BY <1>1, <2>4 DEF Refused, FirstComes, NoFirst
  <2> QED  BY <1>1, <2>3, <2>4, <2>5, <2>6, <2>7, <2>8 DEF Refused, NoFirst
<1> QED  BY <1>2, <1>3 DEF Snapshot

(* Work has done with the event it was taking in.                          *)
LEMMA RefusedTakes ==
  ASSUME Typed, Refused, UNCHANGED <<wire, committed>>, proc[Work].todo # <<>>,
         proc'[Work].todo = Tail(proc[Work].todo), proc'[Work].at = "ingest",
         \A c \in Calls : proc'[c] = proc[c],
         shown' <= Read' \/ (shown' = shown /\ Read' = Read)
  PROVE  Refused'
<1>1. proc[Work].todo \in Seq(1..committed) /\ committed \in Nat
  BY TodoType
<1>2. /\ FirstComes(Tail(proc[Work].todo))
      /\ NoFirst(proc[Work].todo) => NoFirst(Tail(proc[Work].todo))
  BY <1>1, FirstComesTail DEF Refused
<1>3. FirstComes(proc[Work].todo)'
  BY <1>2 DEF FirstComes, NoFirst
<1> QED  BY <1>2, <1>3 DEF Refused, NoFirst

LEMMA RefusedFails ==
  ASSUME Typed, Refused, NEW p \in Process, CallFails(p)
  PROVE  Refused'
<1>1. /\ UNCHANGED <<wire, committed, shown>> /\ Work \in Process /\ Work \notin Calls
      /\ Read' = Read /\ proc[Work].todo \in Seq(1..committed) /\ committed \in Nat
  BY TodoType, CallFailsReads DEF CallFails
<1>2. CASE p \in Calls
  <2>1. proc' = [proc EXCEPT ![p] = [Idle EXCEPT !.at = "failed"]]
    BY <1>1, <1>2 DEF CallFails, FetchFails, Fails, Refused
  <2>2. proc'[p].at = "failed" /\ \A q \in Process \ {p} : proc'[q] = proc[q]
    BY <2>1 DEF Idle, Typed, Known
  <2>3. \A d \in Calls :
          proc'[d].at \in {"new", "subscribe", "snapshot", "fetch", "done", "failed"}
    BY <2>2 DEF Refused, Process
  <2> QED  BY <1>1, <1>2, <2>2, <2>3, RefusedStays
<1>3. CASE p = Work
  <2>1. proc[p].todo # <<>> /\ proc[p].at # "ingest"
    BY WorkIsBusy, <1>3 DEF CallFails, Paging
  <2>2. CASE proc[p].at = "backfill"
    <3>1. proc' = Await(p, "resync1")
      BY <2>2 DEF CallFails, FetchFails
    <3>2. /\ proc'[Work].todo = proc[Work].todo
          /\ \A c \in Calls : proc'[c] = proc[c]
      BY <1>1, <1>3, <3>1 DEF Await, Typed, Known, ProcessUpTo, Process
    <3>3. \A d \in Calls :
            proc'[d].at \in {"new", "subscribe", "snapshot", "fetch", "done", "failed"}
      BY <3>2 DEF Refused
    <3> QED  BY <1>1, <1>3, <2>1, <3>2, <3>3, RefusedStays
  <2>3. CASE proc[p].at # "backfill"
    <3>1. proc' = [proc EXCEPT ![p].at = "ingest", ![p].todo = Tail(@)]
      BY <1>3, <2>3 DEF CallFails, FetchFails, Fails
    <3>2. /\ proc'[Work].todo = Tail(proc[Work].todo) /\ proc'[Work].at = "ingest"
          /\ \A c \in Calls : proc'[c] = proc[c]
      BY <1>1, <1>3, <3>1 DEF Typed, Known, ProcessUpTo, Process
    <3> QED  BY <1>1, <1>3, <2>1, <3>2, RefusedTakes
  <2> QED  BY <2>2, <2>3
<1> QED  BY <1>2, <1>3 DEF Process

LEMMA RefusedIngest ==
  ASSUME Typed, Refused, NEW p \in Process, Ingest(p)
  PROVE  Refused' /\ shown <= shown'
<1> DEFINE next == Head(proc[p].todo)
           merged == Merged(client.events, next, next)
<1>1. /\ UNCHANGED <<wire, committed>> /\ Work \in Process /\ Work \notin Calls
      /\ proc[Work].todo \in Seq(1..committed) /\ committed \in Nat
      /\ Read \in Nat /\ shown \in Nat
      /\ p = Work /\ proc[p].todo # <<>> /\ proc[p].at = "ingest"
  BY TodoType DEF Ingest, Process, Refused
<1>2. next \in 1..committed /\ client.events \in Logs(committed)
  BY <1>1, TodoTyped, ReadIsLog
<1>3. CASE Merges(client.events, next)
  <2>1. /\ proc' = [proc EXCEPT ![p].todo = Tail(@)]
        /\ client' = [client EXCEPT !.events = merged]
        /\ shown' = IF next > Read THEN next ELSE shown
    BY <1>3 DEF Ingest, Read
  <2>2. merged \in Logs(committed) /\ Len(merged) \in Nat
        /\ Len(merged) = IF next <= Read + 1 /\ Read < next THEN next ELSE Read
    BY <1>2, TakenRead
  <2>3. Read' = Len(merged)
    BY <2>1, <2>2, ClientReads DEF Read
  <2>4. next <= Read + 1
    BY <1>3 DEF Merges, Read
  <2>5. shown <= Read
    <3>1. CASE Read = 0
      <4>1. next = 1
        BY <1>2, <2>4, <3>1
      <4>2. ~NoFirst(proc[Work].todo)
        BY <1>1, <4>1, TailElements DEF NoFirst
      <4> QED  BY <4>2 DEF Refused
    <3>2. CASE Read # 0
      BY <3>2 DEF Refused
    <3> QED  BY <3>1, <3>2
  <2>6. shown <= shown' /\ shown' <= Read'
    BY <1>1, <1>2, <2>1, <2>2, <2>3, <2>4, <2>5
  <2>7. /\ proc'[Work].todo = Tail(proc[Work].todo) /\ proc'[Work].at = "ingest"
        /\ \A c \in Calls : proc'[c] = proc[c]
    BY <1>1, <2>1 DEF Typed, Known, ProcessUpTo, Process
  <2>8. Refused'
    <3>1. wire' = wire /\ committed' = committed /\ proc[Work].todo # <<>>
      BY <1>1
    <3> QED  BY <2>6, <2>7, <3>1, RefusedTakes
  <2> QED  BY <2>6, <2>8
<1>4. CASE ~Merges(client.events, next)
  <2>1. proc' = AwaitPage(p, "backfill", Read) /\ client' = client /\ shown' = shown
    BY <1>4 DEF Ingest, Read
  <2>2. /\ proc'[Work].todo = proc[Work].todo
        /\ \A c \in Calls : proc'[c] = proc[c]
    BY <1>1, <2>1 DEF AwaitPage, Typed, Known, ProcessUpTo, Process
  <2>3. next # 1
    BY <1>1, <1>4 DEF Merges, Read
  <2> QED  BY <1>1, <2>1, <2>2, <2>3 DEF Refused, FirstComes, NoFirst, Read
<1> QED  BY <1>3, <1>4

LEMMA StuckInit == Init => Stuck
<1> SUFFICES ASSUME Init PROVE Refused
  BY DEF Stuck
<1>1. Read = 0 /\ shown = 0
  BY EmptySeq DEF Init, Read
<1>2. /\ \A c \in Calls : proc[c].at = "new"
      /\ proc[Work].at = "ingest" /\ proc[Work].todo = <<>>
  BY StreamAssumption DEF Init, Idle, Process
<1>3. DOMAIN proc[Work].todo = {} /\ DOMAIN wire = {}
  BY <1>2 DEF Init
<1> QED  BY <1>1, <1>2, <1>3 DEF Refused, FirstComes, NoFirst, Init

LEMMA RefusedNext ==
  ASSUME Typed, Refused, PageSize > MaxLimit, [Next]_vars
  PROVE  Refused' /\ shown <= shown'
<1>1. shown \in Nat
  BY TodoType
<1>2. CASE UNCHANGED vars
  BY <1>1, <1>2 DEF vars, Read, Refused, FirstComes, NoFirst
<1>3. CASE Commit \/ Lose \/ Deliver
  <2>1. Refused'
    BY <1>3, RefusedCommit, RefusedLose, RefusedDeliver
  <2>2. shown' = shown
    BY <1>3 DEF Commit, Lose, Deliver
  <2> QED  BY <1>1, <2>1, <2>2
<1>4. CASE Disconnect
  <2>1. Read' = Read
    BY <1>4, ReadIsLog, DisconnectedTyped DEF Disconnect, Read
  <2> QED  BY <1>1, <1>4, <2>1, RefusedStays DEF Disconnect, Refused
<1>5. ASSUME NEW c \in Calls, Open(c) \/ Reconnect(c) \/ Subscribed(c) \/ Connected(c)
      PROVE  Refused' /\ shown <= shown'
  BY <1>1, <1>5, RefusedCalls DEF Open, Reconnect, Subscribed, Connected, Refused
<1>6. ASSUME NEW p \in Process, CallFails(p) PROVE Refused' /\ shown <= shown'
  BY <1>1, <1>6, RefusedFails DEF CallFails
<1>7. ASSUME NEW p \in Process, Step(p) PROVE Refused' /\ shown <= shown'
  <2>1. CASE Snapshot(p)
    BY <1>1, <2>1, RefusedSnapshot DEF Snapshot
  <2>2. CASE Page(p)
    <3>1. ~(PageSize <= MaxLimit)
      BY StreamAssumption
    <3> QED  BY <2>2, <3>1 DEF Page
  <2>3. CASE Ingest(p)
    BY <2>3, RefusedIngest
  <2> QED  BY <1>7, <2>1, <2>2, <2>3 DEF Step
<1> QED  BY <1>2, <1>3, <1>4, <1>5, <1>6, <1>7 DEF Next

-----------------------------------------------------------------------------
(* What a step does.                                                       *)

IInv == Typed /\ Gapless /\ Stuck

LEMMA Inductive == Spec => []IInv
<1>1. Init => IInv
  BY InitTyped, GaplessInit, StuckInit DEF IInv
<1>2. IInv /\ [Next]_vars => IInv'
  BY TypedInductive, GaplessInductive, RefusedNext DEF IInv, Stuck
<1> QED  BY <1>1, <1>2, PTL DEF Spec

LEMMA PageSizes == PageSize <= MaxLimit \/ PageSize > MaxLimit
  BY StreamAssumption

(* Unless a call to the core fails, what the listeners see only grows,     *)
(* whatever backfills and full resyncs go on beside each other             *)
(* (agent-session-client.ts, ingestLive).                                  *)
THEOREM ShowsMoreAndMore == Spec => ShownGrows
<1>1. IInv /\ IInv' /\ [Next]_vars => [faults = 0 => shown' >= shown]_vars
  <2> SUFFICES ASSUME IInv, IInv', [Next]_vars, faults = 0 PROVE shown' >= shown
    OBVIOUS
  <2>1. Typed /\ Typed' /\ shown \in Nat /\ shown' \in Nat
    <3>1. committed \in Nat /\ committed' \in Nat
      BY StreamAssumption DEF IInv, Typed
    <3> QED  BY <3>1 DEF IInv, Typed, Known
  <2>2. CASE PageSize <= MaxLimit
    BY <2>1, <2>2, FineNext DEF IInv, Gapless
  <2>3. CASE PageSize > MaxLimit
    BY <2>1, <2>3, RefusedNext DEF IInv, Stuck
  <2> QED  BY <2>1, <2>2, <2>3, PageSizes
<1> QED  BY <1>1, Inductive, PTL DEF Spec, ShownGrows

(* Unless a call to the core fails, a connect that returns has read every  *)
(* event that was committed when it was called (agent-session-client.ts,   *)
(* connect).                                                               *)
THEOREM ConnectIsComplete == Spec => ConnectReadsAll
<1>1. IInv /\ IInv' /\ [Next]_vars =>
        [\A c \in Calls :
           faults = 0 /\ proc[c].at = "ingest" /\ proc'[c].at = "done"
             => Len(client'.events) >= since[c]]_vars
  <2> SUFFICES ASSUME IInv, IInv', [Next]_vars, NEW c \in Calls,
                      faults = 0, proc[c].at = "ingest"
               PROVE  Len(client'.events) >= since[c]
    OBVIOUS
  <2>1. Typed /\ Typed' /\ Read \in Nat /\ Read' \in Nat /\ since[c] \in Nat
    <3>1. committed \in Nat /\ committed' \in Nat
      BY StreamAssumption DEF IInv, Typed
    <3>2. client'.events \in Logs(committed')
      BY DEF IInv, Typed, Known, ClientUpTo
    <3>3. Typed /\ Typed' /\ since[c] \in Nat
      BY <3>1 DEF IInv, Typed, Known
    <3>4. Read' \in Nat
      BY <3>1, <3>2, LogsRead DEF Read
    <3>5. Read \in Nat
      BY <3>1, <3>3, ReadIsLog
    <3> QED  BY <3>3, <3>4, <3>5
  <2>2. CASE PageSize <= MaxLimit
    <3>1. Fine /\ Read <= Read'
      BY <2>1, <2>2, FineNext DEF IInv, Gapless
    <3>2. since[c] <= Read
      BY <3>1 DEF Fine, Covers
    <3> QED  BY <2>1, <3>1, <3>2 DEF Read
  <2>3. CASE PageSize > MaxLimit
    BY <2>3 DEF IInv, Stuck, Refused
  <2> QED  BY <2>2, <2>3, PageSizes
<1> QED  BY <1>1, Inductive, PTL DEF Spec, ConnectReadsAll

(* Had the client asked for pages that the core accepts, connect and       *)
(* reconnect would reject only when a call to the core failed: the         *)
(* disagreement of PAGE_SIZE (agent-session-client.ts) and the limit of    *)
(* getEvents (agent-runtime.ts) is the only reason that they do.           *)
THEOREM FailsOnlyIfRefused ==
  ASSUME PageSize <= MaxLimit
  PROVE  Spec => []FailsOnlyOnFault
<1>1. IInv => FailsOnlyOnFault
  <2> SUFFICES ASSUME IInv, NEW c \in Calls, proc[c].at = "failed" PROVE faults > 0
    BY DEF FailsOnlyOnFault
  <2>1. faults \in Nat /\ c \in Process
    BY StreamAssumption DEF IInv, Typed, Process
  <2>2. faults # 0
    BY <2>1 DEF IInv, Gapless, Fine, Healthy
  <2> QED  BY <2>1, <2>2
<1> QED  BY <1>1, Inductive, PTL

=============================================================================
