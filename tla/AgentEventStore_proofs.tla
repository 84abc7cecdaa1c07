------------------------ MODULE AgentEventStore_proofs ------------------------
(***************************************************************************)
(* Proofs about AgentEventStore, for every number of requests, batch size, *)
(* log bound and number of restarts.                                       *)
(***************************************************************************)
EXTENDS AgentEventStore, SequenceTheorems, TLAPS

Line == Event \cup {Torn}

-----------------------------------------------------------------------------
(* Lemmas about files and lines                                            *)

(* A log without torn lines reads back as itself.                          *)
LEMMA NoTornLine ==
  ASSUME NEW lines \in Seq(Event)
  PROVE  TornLines(lines) = {} /\ GoodPrefix(lines) = lines
<1>1. \A i \in DOMAIN lines : lines[i] \in Event
  OBVIOUS
<1>2. TornLines(lines) = {}
  BY <1>1, SentinelsAssumption DEF TornLines
<1> QED BY <1>2 DEF GoodPrefix

(* A log that ends in one torn line reads back without that line.          *)
LEMMA OneTornLine ==
  ASSUME NEW lines \in Seq(Event)
  PROVE  /\ TornLines(Append(lines, Torn)) = {Len(lines) + 1}
         /\ GoodPrefix(Append(lines, Torn)) = lines
<1> DEFINE all == Append(lines, Torn)
           n == Len(lines) + 1
<1>1. DOMAIN all = 1..n /\ n \in Nat /\ n >= 1
  OBVIOUS
<1>2. \A i \in 1..n : all[i] = IF i = n THEN Torn ELSE lines[i]
  OBVIOUS
<1>3. \A i \in 1..Len(lines) : lines[i] \in Event
  OBVIOUS
<1>4. TornLines(all) = {n}
  BY <1>1, <1>2, <1>3, SentinelsAssumption DEF TornLines
<1>5. (CHOOSE i \in TornLines(all) : \A j \in TornLines(all) : i <= j) = n
  BY <1>1, <1>4
<1>6. SubSeq(all, 1, n - 1) = lines
  OBVIOUS
<1> QED BY <1>4, <1>5, <1>6 DEF GoodPrefix

(* What loading keeps of a log it accepts, or cuts a tail off, is events.  *)
LEMMA GoodPrefixType ==
  ASSUME NEW lines \in Seq(Line),
         TornLines(lines) = {} \/ BadTail(lines)
  PROVE  GoodPrefix(lines) \in Seq(Event)
<1>1. CASE TornLines(lines) = {}
  <2>1. \A i \in DOMAIN lines : lines[i] \in Event
    BY <1>1 DEF TornLines, Line
  <2> QED BY <1>1, <2>1 DEF GoodPrefix, Line
<1>2. CASE BadTail(lines)
  <2> DEFINE n == Len(lines)
  <2>1. TornLines(lines) = {n} /\ n \in Nat /\ n >= 3
    BY <1>2 DEF BadTail
  <2>2. (CHOOSE i \in TornLines(lines) : \A j \in TornLines(lines) : i <= j) = n
    BY <2>1
  <2>3. GoodPrefix(lines) = SubSeq(lines, 1, n - 1)
    BY <2>1, <2>2 DEF GoodPrefix
  <2>4. \A i \in 1..(n - 1) : lines[i] \in Event
    BY <2>1 DEF TornLines, Line
  <2> QED BY <2>1, <2>3, <2>4
<1> QED BY <1>1, <1>2

LEMMA WrittenType ==
  ASSUME NEW file \in File,
         NEW chunk \in [lines : Seq(Line), ended : BOOLEAN]
  PROVE  Written(file, chunk) \in File
<1>1. file.lines \in Seq(Line) /\ file.ended \in BOOLEAN /\ file.synced \in Nat
  BY DEF File, Line
<1>2. CASE chunk.lines = <<>>
  BY <1>2 DEF Written
<1>3. CASE chunk.lines # <<>> /\ file.ended
  <2>1. file.lines \o chunk.lines \in Seq(Line)
    BY <1>1
  <2>2. Written(file, chunk) = [lines |-> file.lines \o chunk.lines, ended |-> chunk.ended,
                                synced |-> file.synced]
    BY <1>3 DEF Written, File
  <2> QED BY <1>1, <2>1, <2>2 DEF File, Line
<1>4. CASE chunk.lines # <<>> /\ ~file.ended
  <2>1. SubSeq(file.lines, 1, Len(file.lines) - 1) \in Seq(Line)
    BY <1>1
  <2>2. Tail(chunk.lines) \in Seq(Line)
    BY <1>4
  <2>3. <<Torn>> \in Seq(Line)
    BY DEF Line
  <2>4. SubSeq(file.lines, 1, Len(file.lines) - 1) \o <<Torn>> \o Tail(chunk.lines) \in Seq(Line)
    BY <2>1, <2>2, <2>3
  <2>5. Written(file, chunk) =
          [lines  |-> SubSeq(file.lines, 1, Len(file.lines) - 1) \o <<Torn>> \o Tail(chunk.lines),
           ended  |-> chunk.ended,
           synced |-> file.synced]
    BY <1>4 DEF Written, File
  <2> QED BY <1>1, <2>4, <2>5 DEF File, Line
<1> QED BY <1>1, <1>2, <1>3, <1>4

LEMMA SyncedType ==
  ASSUME NEW file \in File
  PROVE  Synced(file) \in File
<1>1. file.lines \in Seq(Line) /\ Len(file.lines) \in Nat
  BY DEF File, Line
<1> QED BY <1>1 DEF Synced, File

LEMMA CutsType ==
  ASSUME NEW events \in Seq(Event), NEW cut \in Cuts(events)
  PROVE  cut \in [lines : Seq(Line), ended : BOOLEAN]
<1>1. \A k \in 0..Len(events) : SubSeq(events, 1, k) \in Seq(Event)
  OBVIOUS
<1>2. \A s \in Seq(Event) : s \in Seq(Line) /\ Append(s, Torn) \in Seq(Line)
  BY DEF Line
<1>3. CASE \E k \in 0..Len(events) : cut = Chunk(SubSeq(events, 1, k), TRUE)
  BY <1>1, <1>2, <1>3 DEF Chunk
<1>4. CASE \E k \in 0..(Len(events) - 1) : cut = Chunk(Append(SubSeq(events, 1, k), Torn), FALSE)
  <2>1. PICK k \in 0..(Len(events) - 1) : cut = Chunk(Append(SubSeq(events, 1, k), Torn), FALSE)
    BY <1>4
  <2>2. SubSeq(events, 1, k) \in Seq(Event)
    BY <1>1
  <2> QED BY <1>2, <2>1, <2>2 DEF Chunk
<1>5. CASE \E k \in 1..Len(events) : cut = Chunk(SubSeq(events, 1, k), FALSE)
  BY <1>1, <1>2, <1>5 DEF Chunk
<1> QED BY <1>3, <1>4, <1>5 DEF Cuts

LEMMA FailedCutsType ==
  ASSUME NEW events \in Seq(Event), NEW cut \in FailedCuts(events)
  PROVE  cut \in [lines : Seq(Line), ended : BOOLEAN]
<1>1. CASE cut \in Cuts(events)
  BY <1>1, CutsType
<1>2. CASE cut = Chunk(<<>>, TRUE)
  BY <1>2 DEF Chunk
<1> QED BY <1>1, <1>2 DEF FailedCuts

LEMMA CreationEventsType ==
  ASSUME NEW now \in 1..MaxTime
  PROVE  CreationEvents(now) \in Seq(Event) /\ Len(CreationEvents(now)) = 2
BY ConstantsAssumption DEF CreationEvents, Event, CreationTypes

LEMMA NewBatchType ==
  ASSUME record # None, TypeOK, Len(record.events) >= 1,
         NEW c \in Calls, NEW n \in 1..MaxBatch, NEW now \in 1..MaxTime
  PROVE  NewBatch(c, n, now) \in Seq(Event) /\ Len(NewBatch(c, n, now)) = n
<1>1. record.events \in Seq(Event) /\ Len(record.events) \in Nat
  BY DEF TypeOK
<1>2. LastTime \in Nat \ {0}
  <2>1. record.events[Len(record.events)] \in Event
    BY <1>1
  <2> QED BY <2>1 DEF LastTime, Event
<1>3. n \in Nat /\ now \in Nat \ {0}
  BY ConstantsAssumption
<1>4. \A i \in 1..n : Larger(now, LastTime) + i - 1 \in Nat \ {0}
  BY <1>2, <1>3 DEF Larger
<1>5. \A i \in 1..n : Len(record.events) + i - 1 \in Nat
  BY <1>1, <1>3
<1>6. \A i \in 1..n : NewBatch(c, n, now)[i] \in Event
  BY <1>4, <1>5 DEF NewBatch, Event
<1>7. NewBatch(c, n, now) \in [1..n -> Event]
  BY <1>6 DEF NewBatch
<1> QED BY <1>3, <1>7

-----------------------------------------------------------------------------
(* Type correctness, under every fault                                     *)

(* TypeOK alone is not inductive: that a step finds a file where the code  *)
(* expects one depends on how the record, the files and the requests under *)
(* way are related.                                                        *)
Structure ==
  /\ TypeOK
  /\ store \in {"down", "archive"} => record = None
  /\ store = "active" /\ record # None => record.archived
  /\ store # "open" => queue = <<>> /\ \A c \in Creators : creates[c] = "idle"
  /\ queue # <<>> => record # None
  /\ record # None => disk[Home] # None /\ Len(record.events) >= 1
  /\ \A c \in Creators : creates[c] = "written" =>
       /\ Len(announce[c]) = 2
       /\ disk["active"] # None
       /\ record # None => record.archived
       /\ \A d \in Creators : creates[d] = "written" => c = d

LEMMA StructureInit == Init => Structure
BY ConstantsAssumption DEF Init, Structure, TypeOK, Roots

(* After the process has ended, only the files' types are to be shown.     *)
LEMMA StructureEnds ==
  ASSUME TypeOK, ProcessEnds, disk' \in [Roots -> File \cup {None}]
  PROVE  Structure'
BY DEF TypeOK, ProcessEnds, Structure, Roots

LEMMA EmptyFileType == EmptyFile \in File
BY DEF EmptyFile, File

LEMMA StructureLoad ==
  ASSUME Structure, NEW r \in Roots, LoadStep(r)
  PROVE  Structure'
<1> USE DEF Structure, TypeOK, storeVars
<1>1. CASE LoadKeep(r)
  <2>1. disk[r] \in File /\ disk[r].lines \in Seq(Line)
    BY <1>1 DEF LoadKeep, File, Line
  <2>2. GoodPrefix(disk[r].lines) \in Seq(Event) /\ Len(GoodPrefix(disk[r].lines)) >= 2
    BY <1>1, <2>1, GoodPrefixType DEF LoadKeep, Loadable, ValidLog
  <2>3. Repaired(disk[r]) \in File
    BY <2>1, <2>2 DEF Repaired, File, Line
  <2>4. disk' \in [Roots -> File \cup {None}]
    BY <1>1, <2>3 DEF LoadKeep
  <2>5. CASE record # None
    BY <1>1, <2>3, <2>4, <2>5, SentinelsAssumption DEF LoadKeep, Home, Roots, AfterLoading
  <2>6. CASE record = None
    <3>1. record' = [events |-> GoodPrefix(disk[r].lines), archived |-> r = "archive"]
      BY <1>1, <2>6 DEF LoadKeep
    <3>2. record' \in [events : Seq(Event), archived : BOOLEAN]
      <4> HIDE DEF Structure, TypeOK
      <4> QED BY <2>2, <3>1
    <3>3. record' # None
      BY <3>2, SentinelsAssumption
    <3>4. Home' = r
      BY <3>1 DEF Home, Roots
    <3>5. disk'[r] # None
      BY <1>1, <2>3, SentinelsAssumption DEF LoadKeep
    <3>6. TypeOK'
      BY <1>1, <2>4, <2>6, <3>2, SentinelsAssumption DEF LoadKeep, AfterLoading
    <3>7. Len(record'.events) >= 2 /\ record'.archived = (r = "archive")
      BY <2>2, <3>1
    <3>8. store = r /\ store' = AfterLoading(r) /\ UNCHANGED <<queue, creates, announce>>
      BY <1>1, <2>6 DEF LoadKeep
    <3> QED BY <3>3, <3>4, <3>5, <3>6, <3>7, <3>8 DEF Roots, AfterLoading
  <2> QED BY <2>5, <2>6
<1>2. CASE LoadQuarantine(r)
  BY <1>2 DEF LoadQuarantine, Home, Roots, AfterLoading
<1>3. CASE LoadNothing(r)
  BY <1>3 DEF LoadNothing, Home, Roots, AfterLoading
<1>4. CASE LoadFails(r)
  <2>1. CASE UNCHANGED disk
    BY <1>4, <2>1 DEF LoadFails, Home, Roots
  <2>2. CASE /\ BadTail(disk[r].lines)
             /\ \E cut \in FailedCuts(GoodPrefix(disk[r].lines)) :
                  disk' = [disk EXCEPT ![r] = Written(EmptyFile, cut)]
    <3>1. disk[r].lines \in Seq(Line)
      BY <1>4 DEF LoadFails, File, Line
    <3>2. PICK cut \in FailedCuts(GoodPrefix(disk[r].lines)) :
            disk' = [disk EXCEPT ![r] = Written(EmptyFile, cut)]
      BY <2>2
    <3>3. Written(EmptyFile, cut) \in File
      BY <2>2, <3>1, GoodPrefixType, EmptyFileType, FailedCutsType, WrittenType
    <3>4. disk' \in [Roots -> File \cup {None}] /\ \A q \in Roots : disk[q] # None => disk'[q] # None
      BY <3>2, <3>3, SentinelsAssumption
    <3>5. Home' = Home /\ Home \in Roots
      BY <1>4 DEF LoadFails, Home, Roots
    <3>6. TypeOK'
      BY <1>4, <3>4 DEF LoadFails
    <3>7. store' = "failed" /\ UNCHANGED <<record, queue, creates, announce>>
          /\ store \in {"archive", "active"} /\ store # "open"
      BY <1>4 DEF LoadFails, Roots
    <3>8. record # None => disk'[Home'] # None /\ Len(record.events) >= 1
      BY <3>4, <3>5
    <3> QED BY <3>6, <3>7, <3>8
  <2> QED BY <1>4, <2>1, <2>2 DEF LoadFails
<1> QED BY <1>1, <1>2, <1>3, <1>4 DEF LoadStep

LEMMA EncodedType ==
  ASSUME NEW events \in Seq(Event)
  PROVE  Encoded(events) \in [lines : Seq(Line), ended : BOOLEAN]
BY DEF Encoded, Chunk, Line

LEMMA StructureCreate ==
  ASSUME Structure, NEW c \in Creators, CreateStep(c)
  PROVE  Structure'
<1> USE DEF Structure, TypeOK
<1>1. CASE CreateCheck(c)
  BY <1>1 DEF CreateCheck, Home
<1>2. CASE CreateWrite(c)
  <2>1. PICK now \in 1..MaxTime :
          /\ disk' = [disk EXCEPT !["active"] = Written(EmptyFile, Encoded(CreationEvents(now)))]
          /\ announce' = [announce EXCEPT ![c] = CreationEvents(now)]
    BY <1>2 DEF CreateWrite
  <2>2. Written(EmptyFile, Encoded(CreationEvents(now))) \in File
    BY CreationEventsType, EmptyFileType, EncodedType, WrittenType
  <2>3. TypeOK'
    BY <1>2, <2>1, <2>2, CreationEventsType DEF CreateWrite, Roots
  <2>4. record # None => Home = "archive" /\ record.archived
    BY <1>2 DEF CreateWrite, Home
  <2>5. disk'["active"] # None /\ disk'["archive"] = disk["archive"]
    BY <2>1, <2>2, SentinelsAssumption DEF Roots
  <2>6. \A d \in Creators : creates[d] # "written"
    BY <1>2 DEF CreateWrite
  <2>7. announce'[c] = CreationEvents(now) /\ Len(CreationEvents(now)) = 2
    BY <2>1, CreationEventsType
  <2>8. store = "open"
    BY <1>2 DEF CreateWrite
  <2> QED BY <1>2, <2>3, <2>4, <2>5, <2>6, <2>7, <2>8 DEF CreateWrite, Home
<1>3. CASE CreateFails(c)
  <2>1. creates[c] = "checked" /\ store = "open"
    BY <1>3 DEF CreateFails
  <2>2. CASE UNCHANGED disk
    BY <1>3, <2>1, <2>2 DEF CreateFails, Home
  <2>3. CASE disk["active"] = None /\ \E now \in 1..MaxTime : \E cut \in FailedCuts(CreationEvents(now)) :
               disk' = [disk EXCEPT !["active"] = Written(EmptyFile, cut)]
    <3>0. PICK now \in 1..MaxTime : \E cut \in FailedCuts(CreationEvents(now)) :
            disk' = [disk EXCEPT !["active"] = Written(EmptyFile, cut)]
      BY <2>3
    <3>1. PICK cut \in FailedCuts(CreationEvents(now)) :
            disk' = [disk EXCEPT !["active"] = Written(EmptyFile, cut)]
      BY <3>0
    <3>2. Written(EmptyFile, cut) \in File
      BY CreationEventsType, EmptyFileType, FailedCutsType, WrittenType
    <3>3. disk' \in [Roots -> File \cup {None}] /\ disk'["archive"] = disk["archive"]
      BY <3>1, <3>2 DEF Roots
    <3>4. record # None => Home = "archive"
      BY <2>3 DEF Home
    <3>5. \A d \in Creators : creates[d] # "written"
      BY <2>3
    <3> QED BY <1>3, <2>1, <3>3, <3>4, <3>5 DEF CreateFails, Home
  <2> QED BY <1>3, <2>2, <2>3 DEF CreateFails
<1>4. CASE CreateRegister(c)
  <2>1. store = "open" /\ disk["active"] # None /\ Len(announce[c]) = 2 /\ announce[c] \in Seq(Event)
    BY <1>4 DEF CreateRegister
  <2>2. record' \in [events : Seq(Event), archived : BOOLEAN]
    BY <1>4, <2>1 DEF CreateRegister
  <2>3. Home' = "active" /\ record'.events = announce[c]
    BY <1>4 DEF CreateRegister, Home
  <2>4. \A d \in Creators : creates'[d] # "written"
    BY <1>4 DEF CreateRegister
  <2>5. TypeOK'
    BY <1>4, <2>1, <2>2 DEF CreateRegister
  <2>6. record' # None
    BY <2>2, SentinelsAssumption
  <2>7. disk' = disk /\ store' = store
    BY <1>4 DEF CreateRegister
  <2>8. Len(record'.events) >= 1 /\ disk'[Home'] # None
    <3> HIDE DEF Structure, TypeOK
    <3>1. Len(announce[c]) >= 1
      BY <2>1
    <3>2. disk'[Home'] = disk["active"]
      BY <2>3, <2>7
    <3> QED BY <2>1, <2>3, <3>1, <3>2
  <2> HIDE DEF TypeOK
  <2> QED BY <2>1, <2>4, <2>5, <2>6, <2>7, <2>8
<1>5. CASE CreateEmit(c)
  <2>1. Head(announce[c]) \in Event /\ Tail(announce[c]) \in Seq(Event)
    BY <1>5 DEF CreateEmit
  <2>2. published' \in Seq(Nat)
    BY <1>5, <2>1 DEF CreateEmit, Event
  <2>3. store = "open" /\ creates[c] = "emitting"
    BY <1>5 DEF CreateEmit
  <2>4. TypeOK'
    BY <1>5, <2>1, <2>2 DEF CreateEmit
  <2>5. \A d \in Creators : creates'[d] = "written" => creates[d] = "written" /\ announce'[d] = announce[d]
    BY <1>5, <2>3 DEF CreateEmit
  <2> QED BY <1>5, <2>3, <2>4, <2>5 DEF CreateEmit, Home
<1> QED BY <1>1, <1>2, <1>3, <1>4, <1>5 DEF CreateStep

LEMMA StructureSubmit ==
  ASSUME Structure, NEW o \in Ops, Submit(o)
  PROVE  Structure'
BY DEF Structure, TypeOK, Submit, Home

(* The queue moves on; nothing else the invariant is about changes.        *)
LEMMA StructureSettle ==
  ASSUME Structure, NEW o \in Ops, NEW result \in {"acked", "rejected"},
         Running(o), Settle(o, result),
         UNCHANGED <<disk, store, record, creates, announce, published, committed, starts>>
  PROVE  Structure'
<1>1. Tail(queue) \in Seq(Ops)
  BY DEF Structure, TypeOK, Running
<1>2. TypeOK'
  BY <1>1 DEF Structure, TypeOK, Settle
<1> QED BY <1>2 DEF Structure, Settle, Running, Home

(* Writing to the file of a Session that is not archived.                  *)
LEMMA StructureHomeWrite ==
  ASSUME Structure, record # None, ~record.archived,
         NEW chunk \in [lines : Seq(Line), ended : BOOLEAN],
         disk' = [disk EXCEPT ![Home] = Written(@, chunk)]
  PROVE  /\ disk' \in [Roots -> File \cup {None}]
         /\ disk'["active"] # None
         /\ Home = "active"
<1>1. Home = "active" /\ disk["active"] \in File
  BY DEF Structure, TypeOK, Home, Roots
<1>2. Written(disk["active"], chunk) \in File
  BY <1>1, WrittenType
<1> QED BY <1>1, <1>2, SentinelsAssumption DEF Structure, TypeOK, Roots

LEMMA StructureAppend ==
  ASSUME Structure, NEW c \in Calls, AppendStep(c)
  PROVE  Structure'
<1> USE DEF Structure, TypeOK
<1>0. Running(c) /\ c \in Ops /\ record # None /\ store = "open" /\ Len(record.events) >= 1
  BY DEF AppendStep, AppendRefused, AppendWrite, AppendFails, AppendCommit, SyncFails,
         AppendEmit, AppendDone, Running, Ops
<1>1. CASE AppendRefused(c)
  <2> HIDE DEF Structure, TypeOK
  <2> QED BY <1>0, <1>1, StructureSettle DEF AppendRefused
<1>2. CASE AppendWrite(c)
  <2>1. PICK n \in 1..MaxBatch, now \in 1..MaxTime :
          /\ batch' = NewBatch(c, n, now)
          /\ disk' = [disk EXCEPT ![Home] = Written(@, Encoded(NewBatch(c, n, now)))]
    BY <1>2 DEF AppendWrite
  <2>2. batch' \in Seq(Event)
    BY <1>0, <2>1, NewBatchType
  <2>3. disk' \in [Roots -> File \cup {None}] /\ disk'["active"] # None /\ Home = "active"
    BY <1>0, <1>2, <2>1, <2>2, EncodedType, StructureHomeWrite DEF AppendWrite
  <2> QED BY <1>0, <1>2, <2>2, <2>3 DEF AppendWrite, Home
<1>3. CASE AppendFails(c)
  <2>0. PICK n \in 1..MaxBatch, now \in 1..MaxTime : \E cut \in FailedCuts(NewBatch(c, n, now)) :
          disk' = [disk EXCEPT ![Home] = Written(@, cut)]
    BY <1>3 DEF AppendFails
  <2>1. PICK cut \in FailedCuts(NewBatch(c, n, now)) :
          disk' = [disk EXCEPT ![Home] = Written(@, cut)]
    BY <2>0
  <2>2. cut \in [lines : Seq(Line), ended : BOOLEAN]
    BY <1>0, NewBatchType, FailedCutsType
  <2>3. disk' \in [Roots -> File \cup {None}] /\ disk'["active"] # None /\ Home = "active"
    BY <1>0, <1>3, <2>1, <2>2, StructureHomeWrite DEF AppendFails
  <2>4. Tail(queue) \in Seq(Ops)
    BY <1>0 DEF Running
  <2> QED BY <1>0, <1>3, <2>3, <2>4 DEF AppendFails, Settle, Home
<1>4. CASE AppendCommit(c)
  <2>1. Home \in Roots /\ disk[Home] \in File
    BY <1>0 DEF Home, Roots
  <2>2. Synced(disk[Home]) \in File
    BY <2>1, SyncedType
  <2>3. disk' \in [Roots -> File \cup {None}] /\ disk'[Home] # None
    BY <1>4, <2>1, <2>2, SentinelsAssumption DEF AppendCommit
  <2>4. record.events \o batch \in Seq(Event) /\ Len(record.events \o batch) >= 1
    BY <1>0
  <2>5. /\ record' \in [events : Seq(Event), archived : BOOLEAN]
        /\ record'.events = record.events \o batch
        /\ record'.archived = record.archived
    BY <1>0, <1>4, <2>4 DEF AppendCommit
  <2>6. Home' = Home
    BY <2>5 DEF Home
  <2>7. record' # None
    BY <2>5, SentinelsAssumption
  <2>8. TypeOK'
    BY <1>4, <2>3, <2>4, <2>5 DEF AppendCommit
  <2>9. disk["active"] # None => disk'["active"] # None
    BY <1>4, <2>3, <2>1 DEF AppendCommit, Roots
  <2> QED BY <1>0, <1>4, <2>3, <2>4, <2>5, <2>6, <2>7, <2>8, <2>9 DEF AppendCommit
<1>5. CASE SyncFails(c)
  <2> HIDE DEF Structure, TypeOK
  <2> QED BY <1>0, <1>5, StructureSettle DEF SyncFails
<1>6. CASE AppendEmit(c)
  <2>1. Head(batch) \in Event /\ Tail(batch) \in Seq(Event)
    BY <1>6 DEF AppendEmit
  <2>2. published' \in Seq(Nat)
    BY <1>6, <2>1 DEF AppendEmit, Event
  <2> QED BY <1>6, <2>1, <2>2 DEF AppendEmit, Home
<1>7. CASE AppendDone(c)
  <2> HIDE DEF Structure, TypeOK
  <2> QED BY <1>0, <1>7, StructureSettle DEF AppendDone
<1> QED BY <1>1, <1>2, <1>3, <1>4, <1>5, <1>6, <1>7 DEF AppendStep

LEMMA StructureArchive ==
  ASSUME Structure, NEW a \in Archivals, ArchiveStep(a)
  PROVE  Structure'
<1>0. a \in Ops /\ Running(a) /\ record # None /\ store = "open"
  BY DEF Structure, ArchiveStep, Archive, ArchiveFails, Running, Ops
<1>1. CASE ArchiveFails(a)
  BY <1>0, <1>1, StructureSettle DEF ArchiveFails
<1>2. CASE Archive(a) /\ record.archived
  BY <1>0, <1>2, StructureSettle DEF Archive
<1>3. CASE Archive(a) /\ ~record.archived
  <2> USE DEF Structure, TypeOK
  <2>1. Home = "active" /\ disk["active"] \in File
    BY <1>0, <1>3 DEF Home, Roots
  <2>2. disk' = [disk EXCEPT !["archive"] = disk["active"], !["active"] = None]
    BY <1>3 DEF Archive
  <2>3. disk' \in [Roots -> File \cup {None}] /\ disk'["archive"] # None
    BY <2>1, <2>2, SentinelsAssumption DEF Roots
  <2>4. /\ record' \in [events : Seq(Event), archived : BOOLEAN]
        /\ record'.events = record.events
        /\ record'.archived
    BY <1>0, <1>3 DEF Archive
  <2>5. record' # None /\ Home' = "archive"
    BY <2>4, SentinelsAssumption DEF Home
  <2>6. Tail(queue) \in Seq(Ops)
    BY <1>0 DEF Running
  <2>7. TypeOK'
    <3>1. outcome' \in [Ops -> {"none", "queued", "acked", "rejected", "lost"}]
      BY <1>0, <1>3 DEF Archive, Settle
    <3>2. queue' \in Seq(Ops) /\ pc' = "idle" /\ batch' = <<>>
      BY <1>3, <2>6 DEF Archive, Settle
    <3> QED BY <1>3, <2>3, <2>4, <3>1, <3>2 DEF Archive
  <2>8. \A c \in Creators : creates'[c] # "written"
    BY <1>0, <1>3 DEF Archive
  <2> QED BY <1>0, <1>3, <2>3, <2>4, <2>5, <2>7, <2>8 DEF Archive, Settle
<1> QED BY <1>1, <1>2, <1>3 DEF ArchiveStep

LEMMA StructureEnd ==
  ASSUME Structure, End
  PROVE  Structure'
<1>0. TypeOK
  BY DEF Structure
<1>1. CASE Kill
  BY <1>0, <1>1, StructureEnds DEF Kill, TypeOK
<1>2. CASE PowerLoss
  <2>1. PICK r \in Roots :
          /\ disk[r] # None
          /\ \E k \in disk[r].synced..(Len(disk[r].lines) - 1), torn \in BOOLEAN :
               disk' = [disk EXCEPT ![r] =
                          [lines  |-> SubSeq(@.lines, 1, k) \o (IF torn THEN <<Torn>> ELSE <<>>),
                           ended  |-> ~torn,
                           synced |-> @.synced]]
    BY <1>2 DEF PowerLoss
  <2>2. disk[r].lines \in Seq(Line) /\ disk[r].synced \in Nat
    BY <1>0, <2>1 DEF TypeOK, File, Line
  <2>3. PICK k \in disk[r].synced..(Len(disk[r].lines) - 1), torn \in BOOLEAN :
          disk' = [disk EXCEPT ![r] =
                     [lines  |-> SubSeq(@.lines, 1, k) \o (IF torn THEN <<Torn>> ELSE <<>>),
                      ended  |-> ~torn,
                      synced |-> @.synced]]
    BY <2>1
  <2>4. SubSeq(disk[r].lines, 1, k) \in Seq(Line)
    BY <2>2, <2>3
  <2>5. (IF torn THEN <<Torn>> ELSE <<>>) \in Seq(Line)
    <3>1. Torn \in Line
      BY DEF Line
    <3>2. <<Torn>> \in Seq(Line) /\ <<>> \in Seq(Line)
      BY <3>1
    <3> QED BY <3>2
  <2>6. SubSeq(disk[r].lines, 1, k) \o (IF torn THEN <<Torn>> ELSE <<>>) \in Seq(Line)
    BY <2>4, <2>5
  <2>7. [lines  |-> SubSeq(disk[r].lines, 1, k) \o (IF torn THEN <<Torn>> ELSE <<>>),
         ended  |-> ~torn,
         synced |-> disk[r].synced] \in File
    BY <2>2, <2>6 DEF File, Line
  <2>8. disk' \in [Roots -> File \cup {None}]
    BY <1>0, <2>3, <2>7 DEF TypeOK
  <2> QED BY <1>0, <1>2, <2>8, StructureEnds DEF PowerLoss
<1>3. CASE \E c \in Creators : KillInCreate(c)
  <2>1. PICK c \in Creators : KillInCreate(c)
    BY <1>3
  <2>2. PICK now \in 1..MaxTime : \E cut \in Cuts(CreationEvents(now)) :
          disk' = [disk EXCEPT !["active"] = Written(EmptyFile, cut)]
    BY <2>1 DEF KillInCreate
  <2>3. PICK cut \in Cuts(CreationEvents(now)) :
          disk' = [disk EXCEPT !["active"] = Written(EmptyFile, cut)]
    BY <2>2
  <2>4. Written(EmptyFile, cut) \in File
    BY CreationEventsType, EmptyFileType, CutsType, WrittenType
  <2>5. disk' \in [Roots -> File \cup {None}]
    BY <1>0, <2>3, <2>4 DEF TypeOK
  <2> QED BY <1>0, <2>1, <2>5, StructureEnds DEF KillInCreate
<1>4. CASE \E c \in Calls : KillInAppend(c)
  <2>1. PICK c \in Calls : KillInAppend(c)
    BY <1>4
  <2>2. record # None /\ ~record.archived /\ Len(record.events) >= 1
    BY <2>1 DEF KillInAppend, Running, Structure
  <2>3. PICK n \in 1..MaxBatch, now \in 1..MaxTime : \E cut \in Cuts(NewBatch(c, n, now)) :
          disk' = [disk EXCEPT ![Home] = Written(@, cut)]
    BY <2>1 DEF KillInAppend
  <2>4. PICK cut \in Cuts(NewBatch(c, n, now)) :
          disk' = [disk EXCEPT ![Home] = Written(@, cut)]
    BY <2>3
  <2>5. cut \in [lines : Seq(Line), ended : BOOLEAN]
    BY <1>0, <2>2, NewBatchType, CutsType
  <2>6. disk' \in [Roots -> File \cup {None}]
    BY <2>2, <2>4, <2>5, StructureHomeWrite
  <2> QED BY <1>0, <2>1, <2>6, StructureEnds DEF KillInAppend
<1>5. CASE \E r \in Roots : KillInRepair(r)
  <2>1. PICK r \in Roots : KillInRepair(r)
    BY <1>5
  <2>2. disk[r].lines \in Seq(Line) /\ BadTail(disk[r].lines)
    BY <1>0, <2>1 DEF KillInRepair, TypeOK, File, Line
  <2>3. PICK cut \in Cuts(GoodPrefix(disk[r].lines)) :
          disk' = [disk EXCEPT ![r] = Written(EmptyFile, cut)]
    BY <2>1 DEF KillInRepair
  <2>4. Written(EmptyFile, cut) \in File
    BY <2>2, GoodPrefixType, EmptyFileType, CutsType, WrittenType
  <2>5. disk' \in [Roots -> File \cup {None}]
    BY <1>0, <2>3, <2>4 DEF TypeOK
  <2> QED BY <1>0, <2>1, <2>5, StructureEnds DEF KillInRepair
<1> QED BY <1>1, <1>2, <1>3, <1>4, <1>5 DEF End

LEMMA StructureStart ==
  ASSUME Structure, Start
  PROVE  Structure'
BY ConstantsAssumption DEF Structure, TypeOK, Start, storeVars, Home

LEMMA StructureNext == Structure /\ [Next]_vars => Structure'
<1> SUFFICES ASSUME Structure, [Next]_vars PROVE Structure'
  OBVIOUS
<1>1. CASE UNCHANGED vars
  BY <1>1 DEF Structure, TypeOK, vars, storeVars, Home
<1>2. CASE Next
  BY <1>2, StructureStart, StructureEnd, StructureLoad, StructureCreate, StructureSubmit,
     StructureAppend, StructureArchive DEF Next
<1> QED BY <1>1, <1>2

(* Every variable of the store keeps its type, whatever the environment    *)
(* does to the files (agent-store.ts as a whole).                          *)
THEOREM TypeCorrect == Spec => []TypeOK
<1>1. Structure => TypeOK
  BY DEF Structure
<1> QED BY <1>1, StructureInit, StructureNext, PTL DEF Spec

-----------------------------------------------------------------------------
(* Durability: what readers have seen survives a clean kill                *)

(* A file is terminated exactly when none of its lines is torn, and a      *)
(* start that finds it would load everything that was ever committed.      *)
AtRest(file) ==
  /\ file.ended <=> TornLines(file.lines) = {}
  /\ committed # <<>> => Loadable(file) /\ Extends(committed, GoodPrefix(file.lines))

InFile == IF pc = "syncing" THEN record.events \o batch ELSE record.events

(* While a record is in memory its file holds exactly its events, and the  *)
(* batch that is being synced; at any other time each file is at rest.     *)
Durable ==
  /\ OneHome
  /\ store # "failed"
  /\ pc # "idle" => queue # <<>>
  /\ record # None =>
       /\ ValidLog(record.events)
       /\ ValidLog(InFile)
       /\ committed = record.events
       /\ disk[Home].lines = InFile
       /\ disk[Home].ended
  /\ pc = "syncing" => ~record.archived
  /\ store = "active" /\ record = None => disk["archive"] = None
  /\ store = "open" /\ record = None =>
       /\ committed = <<>>
       /\ disk["archive"] = None
       /\ disk["active"] # None => \E c \in Creators : creates[c] = "written"
  /\ \A c \in Creators :
       /\ creates[c] \in {"checked", "written"} => record = None
       /\ creates[c] = "written" =>
            /\ ValidLog(announce[c])
            /\ disk["active"].lines = announce[c]
            /\ disk["active"].ended
  /\ store # "open" /\ record = None =>
       /\ \A r \in Roots : disk[r] # None => AtRest(disk[r])
       /\ committed # <<>> => \E r \in Roots : disk[r] # None

(* The Session is not being created by two requests at once.               *)
OneCreator == \A c, d \in Creators : c = d

(* Nothing happens but clean kills: none falls in the rewrite that repairs *)
(* a log, none cuts a write between a complete line and its newline, and   *)
(* no write fails.  In each of these cases the code loses committed events *)
(* or appends that were acknowledged, so the theorems that assume this do  *)
(* not hold without it.                                                    *)
CleanKills == Faults = {} /\ OneCreator

LEMMA CutsOfKill ==
  ASSUME CleanKills, NEW events \in Seq(Event), NEW cut \in Cuts(events)
  PROVE  \E k \in 0..Len(events) :
           \/ cut = Chunk(SubSeq(events, 1, k), TRUE)
           \/ cut = Chunk(Append(SubSeq(events, 1, k), Torn), FALSE)
<1>1. "unterminated" \notin Faults
  BY DEF CleanKills
<1>2. 0..(Len(events) - 1) \subseteq 0..Len(events)
  OBVIOUS
<1> QED BY <1>1, <1>2 DEF Cuts

LEMMA ConcatParts ==
  ASSUME NEW s \in Seq(Event), NEW t \in Seq(Event)
  PROVE  /\ s \o t \in Seq(Event)
         /\ Len(s \o t) = Len(s) + Len(t)
         /\ DOMAIN (s \o t) = 1..(Len(s) + Len(t))
         /\ \A i \in 1..Len(s) : (s \o t)[i] = s[i]
         /\ \A i \in (Len(s) + 1)..(Len(s) + Len(t)) : (s \o t)[i] = t[i - Len(s)]
OBVIOUS

(* A loadable log stays loadable when events that continue its numbering   *)
(* and its times are put behind it.                                        *)
LEMMA ValidConcat ==
  ASSUME NEW old \in Seq(Event), NEW part \in Seq(Event), ValidLog(old),
         \A i \in 1..Len(part) :
           /\ part[i].seq = Len(old) + i - 1
           /\ old[Len(old)].time <= part[i].time
           /\ i > 1 => part[i - 1].time <= part[i].time
  PROVE  ValidLog(old \o part)
<1> DEFINE n == Len(old)
           k == Len(part)
<1>1. n \in Nat /\ k \in Nat /\ n >= 2 /\ DOMAIN old = 1..n
  BY DEF ValidLog
<1> SUFFICES ASSUME NEW all \in Seq(Event), Len(all) = n + k, DOMAIN all = 1..(n + k),
                    \A i \in 1..n : all[i] = old[i],
                    \A i \in (n + 1)..(n + k) : all[i] = part[i - n]
             PROVE  ValidLog(all)
  BY ConcatParts
<1> HIDE DEF n, k
<1>2. ASSUME NEW i \in DOMAIN all
      PROVE  all[i].seq = i - 1 /\ (i > 1 => all[i - 1].time <= all[i].time)
  <2>1. CASE i \in 1..n
    <3>1. all[i] = old[i] /\ old[i].seq = i - 1
      BY <1>1, <2>1 DEF ValidLog
    <3>2. ASSUME i > 1 PROVE all[i - 1].time <= all[i].time
      <4>1. i - 1 \in 1..n
        BY <1>1, <2>1, <3>2
      <4>2. old[i - 1].time <= old[i].time
        BY <1>1, <2>1, <3>2 DEF ValidLog
      <4> QED BY <3>1, <4>1, <4>2
    <3> QED BY <3>1, <3>2
  <2>2. CASE i = n + 1
    <3>1. all[i] = part[1] /\ 1 \in 1..k
      BY <1>1, <2>2
    <3>2. all[i - 1] = old[n]
      BY <1>1, <2>2
    <3>3. part[1].seq = n /\ old[n].time <= part[1].time
      BY <1>1, <3>1 DEF n, k
    <3> QED BY <1>1, <2>2, <3>1, <3>2, <3>3
  <2>3. CASE i \in (n + 2)..(n + k)
    <3>1. i - n \in 1..k /\ i - n > 1
      BY <1>1, <2>3
    <3>2. all[i] = part[i - n] /\ all[i - 1] = part[(i - n) - 1]
      <4>1. i \in (n + 1)..(n + k) /\ i - 1 \in (n + 1)..(n + k) /\ (i - 1) - n = (i - n) - 1
        BY <1>1, <2>3
      <4> QED BY <4>1
    <3>3. part[i - n].seq = n + (i - n) - 1 /\ part[(i - n) - 1].time <= part[i - n].time
      BY <1>1, <3>1 DEF n, k
    <3>4. n + (i - n) - 1 = i - 1
      BY <1>1, <2>3
    <3> QED BY <3>2, <3>3, <3>4
  <2>4. i \in 1..n \/ i = n + 1 \/ i \in (n + 2)..(n + k)
    BY <1>1
  <2> QED BY <2>1, <2>2, <2>3, <2>4
<1>3. all[1].type = "session/created" /\ all[2].type = "agent/created"
  BY <1>1 DEF ValidLog
<1> QED BY <1>1, <1>2, <1>3 DEF ValidLog

(* The log stays loadable with any part of a new batch behind it.          *)
LEMMA NewBatchValid ==
  ASSUME TypeOK, record # None, ValidLog(record.events),
         NEW c \in Calls, NEW n \in 1..MaxBatch, NEW now \in 1..MaxTime,
         NEW k \in 0..n
  PROVE  /\ SubSeq(NewBatch(c, n, now), 1, k) \in Seq(Event)
         /\ ValidLog(record.events \o SubSeq(NewBatch(c, n, now), 1, k))
<1>1. record.events \in Seq(Event) /\ Len(record.events) \in Nat /\ Len(record.events) >= 2
  BY DEF TypeOK, ValidLog
<1>2. NewBatch(c, n, now) \in Seq(Event) /\ Len(NewBatch(c, n, now)) = n
  BY <1>1, NewBatchType
<1>3. n \in Nat /\ now \in Nat /\ k \in Nat /\ k <= n
  BY ConstantsAssumption
<1>4. record.events[Len(record.events)].time \in Nat
  <2>1. record.events[Len(record.events)] \in Event
    BY <1>1
  <2> QED BY <2>1 DEF Event
<1>5. ASSUME NEW i \in 1..n
      PROVE  /\ NewBatch(c, n, now)[i].seq = Len(record.events) + i - 1
             /\ NewBatch(c, n, now)[i].time = Larger(now, LastTime) + i - 1
  BY DEF NewBatch
<1>6. Larger(now, LastTime) \in Nat /\ LastTime <= Larger(now, LastTime)
  BY <1>3, <1>4 DEF LastTime, Larger
<1> HIDE DEF TypeOK
<1> SUFFICES ASSUME NEW b \in Seq(Event), b = NewBatch(c, n, now)
             PROVE  /\ SubSeq(b, 1, k) \in Seq(Event)
                    /\ ValidLog(record.events \o SubSeq(b, 1, k))
  BY <1>2
<1>7. SubSeq(b, 1, k) \in Seq(Event) /\ Len(SubSeq(b, 1, k)) = k
  BY <1>2, <1>3
<1>8. ASSUME NEW i \in 1..k
      PROVE  SubSeq(b, 1, k)[i] = b[i] /\ i \in 1..n /\ (i > 1 => i - 1 \in 1..n /\ SubSeq(b, 1, k)[i - 1] = b[i - 1])
  BY <1>2, <1>3
<1>9. ASSUME NEW i \in 1..k
      PROVE  /\ SubSeq(b, 1, k)[i].seq = Len(record.events) + i - 1
             /\ record.events[Len(record.events)].time <= SubSeq(b, 1, k)[i].time
             /\ i > 1 => SubSeq(b, 1, k)[i - 1].time <= SubSeq(b, 1, k)[i].time
  <2>1. SubSeq(b, 1, k)[i] = b[i] /\ b[i].time = Larger(now, LastTime) + i - 1
    BY <1>5, <1>8
  <2>2. i > 1 => SubSeq(b, 1, k)[i - 1].time = Larger(now, LastTime) + (i - 1) - 1
    BY <1>5, <1>8
  <2>3. b[i].seq = Len(record.events) + i - 1
    BY <1>5, <1>8
  <2> QED BY <1>3, <1>4, <1>6, <2>1, <2>2, <2>3 DEF LastTime
<1> QED BY <1>1, <1>7, <1>9, ValidConcat

LEMMA ExtendsSelf ==
  ASSUME NEW s \in Seq(Event), NEW t \in Seq(Event)
  PROVE  Extends(s, s) /\ Extends(s, s \o t) /\ Extends(<<>>, s)
BY DEF Extends

(* A terminated file that holds a loadable log is loaded as it is.         *)
LEMMA CleanFile ==
  ASSUME NEW file \in File, NEW events \in Seq(Event),
         file.lines = events, file.ended, ValidLog(events)
  PROVE  /\ TornLines(file.lines) = {}
         /\ Loadable(file)
         /\ GoodPrefix(file.lines) = events
BY NoTornLine DEF Loadable

(* So is one with a torn line behind the log, without that line.           *)
LEMMA TornFile ==
  ASSUME NEW file \in File, NEW events \in Seq(Event),
         file.lines = Append(events, Torn), ValidLog(events)
  PROVE  /\ TornLines(file.lines) # {}
         /\ Loadable(file)
         /\ GoodPrefix(file.lines) = events
<1>1. Len(Append(events, Torn)) = Len(events) + 1 /\ Len(events) >= 2 /\ Len(events) \in Nat
  BY DEF ValidLog
<1>2. BadTail(Append(events, Torn))
  BY <1>1, OneTornLine DEF BadTail
<1> QED BY <1>1, <1>2, OneTornLine DEF Loadable

LEMMA InFileType ==
  ASSUME Structure, record # None
  PROVE  InFile \in Seq(Event) /\ record.events \in Seq(Event)
<1>1. record.events \in Seq(Event) /\ batch \in Seq(Event)
  BY DEF Structure, TypeOK
<1> QED BY <1>1 DEF InFile

(* Were the process to end now, every file would be at rest.               *)
LEMMA RestNow ==
  ASSUME Structure, Durable
  PROVE  /\ \A r \in Roots : disk[r] # None => AtRest(disk[r])
         /\ committed # <<>> => \E r \in Roots : disk[r] # None
<1>1. CASE record # None
  <2>1. /\ Home \in Roots /\ disk[Home] \in File /\ disk[Home].lines = InFile /\ disk[Home].ended
        /\ ValidLog(InFile) /\ committed = record.events
    BY <1>1 DEF Structure, TypeOK, Durable, Home, Roots
  <2>2. \A r \in Roots : disk[r] # None => r = Home
    BY <1>1, <2>1 DEF Structure, Durable, OneHome, Home, Roots
  <2>3. TornLines(disk[Home].lines) = {} /\ Loadable(disk[Home]) /\ GoodPrefix(disk[Home].lines) = InFile
    BY <1>1, <2>1, InFileType, CleanFile
  <2>4. Extends(committed, InFile)
    <3>1. record.events \in Seq(Event) /\ batch \in Seq(Event)
      BY <1>1 DEF Structure, TypeOK
    <3> QED BY <2>1, <3>1, ExtendsSelf DEF InFile
  <2>5. AtRest(disk[Home])
    BY <2>1, <2>3, <2>4 DEF AtRest
  <2> QED BY <1>1, <2>1, <2>2, <2>5 DEF Structure
<1>2. CASE record = None /\ store = "open"
  <2>1. committed = <<>> /\ disk["archive"] = None
    BY <1>2 DEF Durable
  <2>2. ASSUME disk["active"] # None
        PROVE  AtRest(disk["active"])
    <3>1. PICK c \in Creators : creates[c] = "written"
      BY <1>2, <2>2 DEF Durable
    <3>2. disk["active"].lines = announce[c] /\ disk["active"].ended /\ announce[c] \in Seq(Event)
      BY <3>1 DEF Durable, Structure, TypeOK
    <3>3. TornLines(disk["active"].lines) = {}
      BY <3>2, NoTornLine
    <3> QED BY <2>1, <3>2, <3>3 DEF AtRest
  <2> QED BY <2>1, <2>2 DEF Roots
<1>3. CASE record = None /\ store # "open"
  BY <1>3 DEF Durable
<1> QED BY <1>1, <1>2, <1>3

LEMMA DurableImpliesSurvives ==
  ASSUME Structure, Durable
  PROVE  CommittedSurvives
<1>1. CASE committed = <<>>
  <2>1. Recovered \in Seq(Event)
    <3>1. CASE LiveFile # None /\ Loadable(LiveFile)
      <4>1. LiveFile \in File /\ LiveFile.lines \in Seq(Line)
        BY <3>1 DEF LiveFile, Structure, TypeOK, Roots, File, Line
      <4> QED BY <3>1, <4>1, GoodPrefixType DEF Recovered, Loadable
    <3>2. CASE ~(LiveFile # None /\ Loadable(LiveFile))
      BY <3>2 DEF Recovered
    <3> QED BY <3>1, <3>2
  <2> QED BY <1>1, <2>1, ExtendsSelf DEF CommittedSurvives
<1>2. CASE committed # <<>>
  <2>1. PICK r \in Roots : disk[r] # None
    BY <1>2, RestNow
  <2>2. LiveFile = disk[r] /\ AtRest(disk[r])
    BY <2>1, RestNow DEF LiveFile, Durable, OneHome, Roots
  <2> QED BY <1>2, <2>1, <2>2 DEF AtRest, CommittedSurvives, Recovered
<1> QED BY <1>1, <1>2

LEMMA DurableInit == Init => Durable
BY DEF Init, Durable, OneHome, Roots

(* After the process has ended, it is enough that every file is at rest.   *)
LEMMA DurableEnds ==
  ASSUME ProcessEnds, OneHome',
         \A r \in Roots : disk'[r] # None => AtRest(disk'[r]),
         committed # <<>> => \E r \in Roots : disk'[r] # None
  PROVE  Durable'
<1>1. committed' = committed /\ store' = "down" /\ record' = None /\ pc' = "idle"
      /\ \A c \in Creators : creates'[c] = "idle"
  BY DEF ProcessEnds
<1>2. \A r \in Roots : disk'[r] # None => AtRest(disk[r])'
  BY <1>1 DEF AtRest, Loadable, Extends
<1> QED BY <1>1, <1>2 DEF Durable

LEMMA DurableLoad ==
  ASSUME Structure, Durable, CleanKills, NEW r \in Roots, LoadStep(r)
  PROVE  Durable'
<1>0. /\ store = r /\ r \in {"archive", "active"} /\ store # "open" /\ pc = "idle"
      /\ \A c \in Creators : creates[c] = "idle"
  BY DEF LoadStep, LoadKeep, LoadQuarantine, LoadNothing, LoadFails, Roots, Structure, Durable
<1>1. disk[r] # None => record = None
  <2>1. CASE r = "archive"
    BY <1>0, <2>1 DEF Structure
  <2>2. CASE r = "active"
    BY <1>0, <2>2 DEF Structure, Durable, OneHome, Home
  <2> QED BY <2>1, <2>2, <1>0
<1>2. \A q \in Roots : disk[q] # None /\ record = None => AtRest(disk[q])
  BY <1>0 DEF Durable
<1>3. r = "active" /\ record = None => disk["archive"] = None
  BY <1>0 DEF Durable
<1>4. CASE LoadKeep(r)
  <2>1. disk[r] \in File /\ disk[r].lines \in Seq(Line) /\ record = None
    BY <1>1, <1>4 DEF LoadKeep, Structure, TypeOK, File, Line
  <2> DEFINE events == GoodPrefix(disk[r].lines)
  <2>2. events \in Seq(Event) /\ ValidLog(events)
    BY <1>4, <2>1, GoodPrefixType DEF LoadKeep, Loadable
  <2>3. AtRest(disk[r])
    BY <1>2, <1>4, <2>1 DEF LoadKeep
  <2>4. Repaired(disk[r]).lines = events /\ Repaired(disk[r]).ended
    <3>1. CASE BadTail(disk[r].lines)
      BY <3>1 DEF Repaired
    <3>2. CASE ~BadTail(disk[r].lines)
      <4>1. TornLines(disk[r].lines) = {}
        BY <1>4, <3>2 DEF LoadKeep, Loadable
      <4> QED BY <3>2, <4>1, <2>3 DEF Repaired, AtRest, GoodPrefix
    <3> QED BY <3>1, <3>2
  <2>5. /\ record' = [events |-> events, archived |-> r = "archive"]
        /\ committed' = events /\ store' = AfterLoading(r) /\ pc' = "idle" /\ queue' = queue
        /\ UNCHANGED <<creates, announce>>
        /\ disk' = [disk EXCEPT ![r] = Repaired(@)]
    BY <1>0, <1>4, <2>1 DEF LoadKeep
  <2>6. record'.events = events /\ record'.archived = (r = "archive")
    BY <2>5
  <2>7. Home' = r /\ InFile' = events
    BY <1>0, <2>5, <2>6 DEF Home, InFile
  <2>8. disk'[r] = Repaired(disk[r]) /\ \A q \in Roots : q # r => disk'[q] = disk[q]
    BY <2>5 DEF Structure, TypeOK
  <2>9. record' # None
    <3>1. record' \in [events : Seq(Event), archived : BOOLEAN]
      <4> HIDE DEF events
      <4> QED BY <2>2, <2>5
    <3> QED BY <3>1, SentinelsAssumption
  <2>10. OneHome'
    BY <1>3, <1>4, <2>1, <2>8 DEF OneHome, Durable, Roots, LoadKeep
  <2>11. /\ ValidLog(record'.events) /\ ValidLog(InFile') /\ committed' = record'.events
         /\ disk'[Home'].lines = InFile' /\ disk'[Home'].ended
    <3> HIDE DEF events
    <3> QED BY <2>2, <2>4, <2>5, <2>6, <2>7, <2>8
  <2>12. store' # "failed" /\ \A c \in Creators : creates'[c] = "idle"
    BY <1>0, <2>5 DEF AfterLoading
  <2> HIDE DEF events
  <2> QED BY <2>5, <2>9, <2>10, <2>11, <2>12 DEF Durable
<1>5. CASE LoadQuarantine(r)
  <2>1. disk[r] # None /\ record = None /\ committed = <<>>
    BY <1>1, <1>2, <1>5 DEF LoadQuarantine, AtRest
  <2>2. disk'[r] = None /\ \A q \in Roots : q # r => disk'[q] = disk[q]
    BY <1>5 DEF LoadQuarantine, Structure, TypeOK
  <2>3. record' = None /\ committed' = <<>> /\ pc' = "idle" /\ creates' = creates
        /\ store' = AfterLoading(r)
    BY <1>0, <1>5, <2>1 DEF LoadQuarantine, storeVars
  <2>4. \A q \in Roots : disk'[q] # None => AtRest(disk[q])'
    BY <1>2, <2>1, <2>2, <2>3 DEF AtRest, Loadable, Extends
  <2> QED BY <1>0, <1>3, <2>1, <2>2, <2>3, <2>4 DEF Durable, OneHome, Roots, AfterLoading
<1>6. CASE LoadNothing(r)
  <2>1. disk[r] = None /\ UNCHANGED <<disk, record, committed, pc, queue, batch, creates, announce>>
        /\ store' = AfterLoading(r)
    BY <1>6 DEF LoadNothing, storeVars
  <2>2. CASE record # None
    BY <1>0, <2>1, <2>2 DEF Durable, OneHome, Home, InFile, AfterLoading
  <2>3. CASE record = None
    <3>1. r = "active" => committed = <<>>
      BY <1>0, <1>3, <2>1, <2>3 DEF Durable, Roots
    <3>2. \A q \in Roots : disk'[q] # None => AtRest(disk[q])'
      BY <1>2, <2>1, <2>3 DEF AtRest, Loadable, Extends
    <3> QED BY <1>0, <1>3, <2>1, <2>3, <3>1, <3>2 DEF Durable, OneHome, Roots, AfterLoading
  <2> QED BY <2>2, <2>3
<1>7. CASE LoadFails(r)
  BY <1>7 DEF LoadFails, CleanKills
<1> QED BY <1>4, <1>5, <1>6, <1>7 DEF LoadStep

(* While there is a record, these are the parts of Durable that matter.     *)
LEMMA DurableRecord ==
  ASSUME store' # "failed", record' # None, OneHome',
         ValidLog(record'.events), ValidLog(InFile'),
         committed' = record'.events,
         disk'[Home'].lines = InFile', disk'[Home'].ended,
         pc' # "idle" => queue' # <<>>,
         pc' = "syncing" => ~record'.archived,
         \A c \in Creators : creates'[c] \notin {"checked", "written"}
  PROVE  Durable'
BY DEF Durable

LEMMA DurableCreate ==
  ASSUME Structure, Durable, CleanKills, NEW c \in Creators, CreateStep(c)
  PROVE  Durable'
<1>0. store = "open" /\ creates \in [Creators -> {"idle", "checked", "written", "emitting"}]
      /\ \A d \in Creators : d = c
  BY DEF CreateStep, CreateCheck, CreateWrite, CreateFails, CreateRegister, CreateEmit,
         Structure, TypeOK, CleanKills, OneCreator
<1>1. CASE CreateCheck(c)
  BY <1>0, <1>1 DEF CreateCheck, Durable, OneHome, Home, InFile
<1>2. CASE CreateWrite(c)
  <2>1. PICK now \in 1..MaxTime :
          /\ disk' = [disk EXCEPT !["active"] = Written(EmptyFile, Encoded(CreationEvents(now)))]
          /\ announce' = [announce EXCEPT ![c] = CreationEvents(now)]
    BY <1>2 DEF CreateWrite
  <2>2. record = None /\ record' = None /\ committed = <<>> /\ disk["archive"] = None /\ pc' = pc
        /\ store' = "open" /\ creates'[c] = "written" /\ committed' = <<>> /\ queue' = queue
    BY <1>0, <1>2 DEF CreateWrite, Durable
  <2>3. announce'[c] = CreationEvents(now)
    BY <2>1 DEF Structure, TypeOK
  <2>4. disk'["active"] = Written(EmptyFile, Encoded(CreationEvents(now))) /\ disk'["archive"] = None
    BY <2>1, <2>2 DEF Structure, TypeOK, Roots
  <2>5. ValidLog(CreationEvents(now)) /\ CreationEvents(now) # <<>>
    BY ConstantsAssumption DEF ValidLog, CreationEvents
  <2>6. CreationEvents(now) \in Seq(Event)
    BY CreationEventsType
  <2>7. Written(EmptyFile, Encoded(CreationEvents(now))).lines = CreationEvents(now)
        /\ Written(EmptyFile, Encoded(CreationEvents(now))).ended
    BY <2>5, <2>6 DEF Written, EmptyFile, Encoded, Chunk
  <2> QED BY <1>0, <2>2, <2>3, <2>4, <2>5, <2>7 DEF Durable, OneHome
<1>3. CASE CreateFails(c)
  BY <1>0, <1>3 DEF CreateFails, CleanKills, Durable, OneHome, Home, InFile
<1>4. CASE CreateRegister(c)
  <2>1. /\ ValidLog(announce[c]) /\ disk["active"].lines = announce[c] /\ disk["active"].ended
        /\ record = None /\ disk["archive"] = None /\ pc = "idle" /\ announce[c] \in Seq(Event)
    BY <1>0, <1>4 DEF CreateRegister, Durable, Structure, TypeOK
  <2>2. /\ record' = [events |-> announce[c], archived |-> FALSE] /\ committed' = announce[c]
        /\ UNCHANGED <<disk, store, queue, pc, announce>> /\ creates'[c] = "emitting"
    BY <1>0, <1>4 DEF CreateRegister
  <2>3. Home' = "active" /\ InFile' = announce[c] /\ record'.events = announce[c]
    BY <2>1, <2>2 DEF Home, InFile
  <2>4. record' # None
    <3>1. record' \in [events : Seq(Event), archived : BOOLEAN]
      BY <2>1, <2>2
    <3> QED BY <3>1, SentinelsAssumption
  <2>5. OneHome' /\ disk'[Home'].lines = InFile' /\ disk'[Home'].ended
    BY <2>1, <2>2, <2>3 DEF OneHome
  <2>6. store' # "failed" /\ pc' = "idle" /\ ~record'.archived
    BY <1>0, <2>1, <2>2
  <2>7. \A d \in Creators : creates'[d] \notin {"checked", "written"}
    BY <1>0, <2>2
  <2>8. ValidLog(record'.events) /\ ValidLog(InFile') /\ committed' = record'.events
    BY <2>1, <2>2, <2>3
  <2> QED BY <2>4, <2>5, <2>6, <2>7, <2>8, DurableRecord
<1>5. CASE CreateEmit(c)
  <2>1. creates'[c] \in {"idle", "emitting"}
        /\ UNCHANGED <<disk, store, record, queue, pc, batch, committed>>
    BY <1>0, <1>5 DEF CreateEmit
  <2>2. creates[c] = "emitting"
    BY <1>5 DEF CreateEmit
  <2> QED BY <1>0, <2>1, <2>2 DEF Durable, OneHome, Home, InFile
<1> QED BY <1>1, <1>2, <1>3, <1>4, <1>5 DEF CreateStep

LEMMA DurableSubmit ==
  ASSUME Structure, Durable, NEW o \in Ops, Submit(o)
  PROVE  Durable'
<1>1. queue' # <<>>
  <2>1. queue \in Seq(Ops) /\ queue' = Append(queue, o)
    BY DEF Submit, Structure, TypeOK
  <2>2. Len(queue') = Len(queue) + 1 /\ Len(queue) \in Nat
    BY <2>1
  <2> QED BY <2>2
<1>2. record # None /\ store' # "failed"
      /\ UNCHANGED <<disk, store, record, creates, announce, pc, batch, committed>>
  BY DEF Submit
<1> QED BY <1>1, <1>2 DEF Durable, OneHome, Home, InFile

(* The queue moves on and the file holds exactly the record's events.      *)
LEMMA DurableSettle ==
  ASSUME Structure, Durable, NEW o \in Ops, NEW result, pc # "syncing",
         record # None, Settle(o, result),
         UNCHANGED <<disk, store, record, creates, announce, published, committed, starts>>
  PROVE  Durable'
<1>1. pc' = "idle" /\ InFile' = record.events /\ Home' = Home /\ InFile = record.events
  BY DEF Settle, InFile, Home
<1>2. /\ ValidLog(record.events) /\ committed = record.events /\ store # "failed"
      /\ disk[Home].lines = record.events /\ disk[Home].ended /\ OneHome
      /\ \A c \in Creators : creates[c] \notin {"checked", "written"}
  BY <1>1 DEF Durable
<1>3. OneHome'
  BY <1>2 DEF OneHome
<1> QED BY <1>1, <1>2, <1>3, DurableRecord

LEMMA DurableAppend ==
  ASSUME Structure, Durable, CleanKills, NEW c \in Calls, AppendStep(c)
  PROVE  Durable'
<1>0. /\ Running(c) /\ c \in Ops /\ record # None /\ store = "open" /\ queue # <<>>
      /\ TypeOK
  BY DEF AppendStep, AppendRefused, AppendWrite, AppendFails, AppendCommit, SyncFails,
         AppendEmit, AppendDone, Running, Ops, Structure
<1>1. /\ ValidLog(record.events) /\ ValidLog(InFile) /\ committed = record.events
      /\ disk[Home].lines = InFile /\ disk[Home].ended /\ OneHome
      /\ \A d \in Creators : creates[d] \notin {"checked", "written"}
      /\ record.events \in Seq(Event) /\ batch \in Seq(Event)
      /\ Home \in Roots /\ disk[Home] \in File /\ disk[Home] # None
      /\ pc = "syncing" => ~record.archived
  BY <1>0 DEF Durable, TypeOK, Structure, Home, Roots
<1>2. CASE AppendRefused(c)
  BY <1>0, <1>2, DurableSettle DEF AppendRefused
<1>3. CASE AppendWrite(c)
  <2>1. PICK n \in 1..MaxBatch, now \in 1..MaxTime :
          /\ batch' = NewBatch(c, n, now)
          /\ disk' = [disk EXCEPT ![Home] = Written(@, Encoded(NewBatch(c, n, now)))]
    BY <1>3 DEF AppendWrite
  <2>2. NewBatch(c, n, now) \in Seq(Event) /\ Len(NewBatch(c, n, now)) = n
    BY <1>0, <1>1, NewBatchType DEF ValidLog
  <2>3. n \in 0..n /\ n >= 1 /\ n \in Nat
    BY ConstantsAssumption
  <2>4. SubSeq(NewBatch(c, n, now), 1, n) = NewBatch(c, n, now)
    <3> HIDE DEF NewBatch
    <3> QED BY <2>2
  <2>5. ValidLog(record.events \o NewBatch(c, n, now))
    BY <1>0, <1>1, <2>3, <2>4, NewBatchValid
  <2>6. /\ pc' = "syncing" /\ pc = "idle" /\ ~record.archived
        /\ UNCHANGED <<store, record, creates, announce, queue, committed>>
    BY <1>3 DEF AppendWrite
  <2>7. Home' = Home /\ InFile = record.events /\ InFile' = record.events \o NewBatch(c, n, now)
    BY <2>1, <2>6 DEF Home, InFile
  <2>8. disk'[Home].lines = record.events \o NewBatch(c, n, now) /\ disk'[Home].ended
    <3> HIDE DEF NewBatch
    <3>1. NewBatch(c, n, now) # <<>>
      BY <2>2, <2>3
    <3>2. disk'[Home] = Written(disk[Home], Encoded(NewBatch(c, n, now)))
      BY <1>0, <1>1, <2>1 DEF TypeOK
    <3>3. Written(disk[Home], Encoded(NewBatch(c, n, now))).lines
            = disk[Home].lines \o NewBatch(c, n, now)
      BY <1>1, <3>1 DEF Written, Encoded, Chunk, File
    <3>4. Written(disk[Home], Encoded(NewBatch(c, n, now))).ended
      BY <1>1, <3>1 DEF Written, Encoded, Chunk, File
    <3> QED BY <1>1, <2>7, <3>2, <3>3, <3>4
  <2>9. OneHome'
    BY <1>1, <2>1, <2>6 DEF OneHome, Home, Roots, TypeOK, Structure
  <2> QED BY <1>0, <1>1, <2>5, <2>6, <2>7, <2>8, <2>9, DurableRecord
<1>4. CASE AppendFails(c)
  <2>1. PICK n \in 1..MaxBatch, now \in 1..MaxTime : \E cut \in FailedCuts(NewBatch(c, n, now)) :
          disk' = [disk EXCEPT ![Home] = Written(@, cut)]
    BY <1>4 DEF AppendFails
  <2>2. disk' = [disk EXCEPT ![Home] = Written(@, Chunk(<<>>, TRUE))]
    BY <2>1 DEF FailedCuts, CleanKills
  <2>3. Written(disk[Home], Chunk(<<>>, TRUE)) = disk[Home]
    BY DEF Written, Chunk
  <2>4. disk' = disk
    BY <1>0, <1>1, <2>2, <2>3 DEF TypeOK
  <2> QED BY <1>0, <1>4, <2>4, DurableSettle DEF AppendFails
<1>5. CASE AppendCommit(c)
  <2>1. /\ pc = "syncing" /\ pc' = "emitting"
        /\ disk' = [disk EXCEPT ![Home] = Synced(@)]
        /\ record' = [record EXCEPT !.events = @ \o batch]
        /\ committed' = record.events \o batch
        /\ UNCHANGED <<store, creates, announce, queue>>
    BY <1>5 DEF AppendCommit
  <2>2. InFile = record.events \o batch
    BY <2>1 DEF InFile
  <2>3. /\ record.events \o batch \in Seq(Event)
        /\ record' \in [events : Seq(Event), archived : BOOLEAN]
        /\ record'.events = record.events \o batch
        /\ record'.archived = record.archived
    <3>1. record.events \o batch \in Seq(Event)
      BY <1>1
    <3>2. record \in [events : Seq(Event), archived : BOOLEAN]
      BY <1>0 DEF TypeOK
    <3> QED BY <2>1, <3>1, <3>2
  <2>4. record' # None /\ Home' = Home /\ InFile' = record.events \o batch
    BY <2>1, <2>3, SentinelsAssumption DEF Home, InFile
  <2>5. disk'[Home] = Synced(disk[Home])
    BY <1>0, <1>1, <2>1 DEF TypeOK
  <2>6. disk'[Home].lines = disk[Home].lines /\ disk'[Home].ended
    BY <1>1, <2>5 DEF Synced, File
  <2>7. OneHome'
    BY <1>0, <1>1, <2>1 DEF OneHome, Roots, TypeOK
  <2> QED BY <1>0, <1>1, <2>1, <2>2, <2>3, <2>4, <2>6, <2>7, DurableRecord
<1>6. CASE SyncFails(c)
  BY <1>6 DEF SyncFails, CleanKills
<1>7. CASE AppendEmit(c)
  <2>1. pc = "emitting" /\ UNCHANGED <<disk, store, record, creates, announce, queue, pc, committed>>
    BY <1>7 DEF AppendEmit
  <2>2. Home' = Home /\ InFile' = record.events /\ InFile = record.events /\ OneHome'
    BY <1>1, <2>1 DEF Home, InFile, OneHome
  <2> QED BY <1>0, <1>1, <2>1, <2>2, DurableRecord
<1>8. CASE AppendDone(c)
  BY <1>0, <1>8, DurableSettle DEF AppendDone
<1> QED BY <1>2, <1>3, <1>4, <1>5, <1>6, <1>7, <1>8 DEF AppendStep

LEMMA DurableArchive ==
  ASSUME Structure, Durable, NEW a \in Archivals, ArchiveStep(a)
  PROVE  Durable'
<1>0. /\ a \in Ops /\ record # None /\ store = "open" /\ pc = "idle" /\ TypeOK
  BY DEF Structure, ArchiveStep, Archive, ArchiveFails, Running, Ops
<1>1. CASE ArchiveFails(a)
  BY <1>0, <1>1, DurableSettle DEF ArchiveFails
<1>2. CASE Archive(a) /\ record.archived
  BY <1>0, <1>2, DurableSettle DEF Archive
<1>3. CASE Archive(a) /\ ~record.archived
  <2>1. /\ disk' = [disk EXCEPT !["archive"] = disk["active"], !["active"] = None]
        /\ record' = [record EXCEPT !.archived = TRUE]
        /\ pc' = "idle" /\ UNCHANGED <<store, creates, announce, committed>>
    BY <1>3 DEF Archive, Settle
  <2>2. /\ record' \in [events : Seq(Event), archived : BOOLEAN]
        /\ record'.events = record.events /\ record'.archived
    BY <1>0, <2>1 DEF TypeOK
  <2>3. record' # None /\ Home' = "archive" /\ InFile' = record.events
    BY <2>1, <2>2, SentinelsAssumption DEF Home, InFile
  <2>4. disk'["archive"] = disk["active"] /\ disk'["active"] = None
    BY <1>0, <2>1 DEF TypeOK, Roots
  <2>5. /\ ValidLog(record.events) /\ committed = record.events
        /\ disk["active"].lines = record.events /\ disk["active"].ended
        /\ \A d \in Creators : creates[d] \notin {"checked", "written"}
    BY <1>0, <1>3 DEF Durable, Home, InFile
  <2>6. OneHome'
    BY <2>4 DEF OneHome
  <2> QED BY <1>0, <2>1, <2>2, <2>3, <2>4, <2>5, <2>6, DurableRecord
<1> QED BY <1>1, <1>2, <1>3 DEF ArchiveStep

(* What a kill in the middle of a write leaves of a file that was intact.  *)
LEMMA WrittenCut ==
  ASSUME CleanKills, NEW file \in File, NEW old \in Seq(Event), file.lines = old, file.ended,
         NEW events \in Seq(Event), NEW cut \in Cuts(events)
  PROVE  \E k \in 0..Len(events) :
           \/ /\ Written(file, cut).lines = old \o SubSeq(events, 1, k)
              /\ Written(file, cut).ended
           \/ /\ Written(file, cut).lines = Append(old \o SubSeq(events, 1, k), Torn)
              /\ ~Written(file, cut).ended
<1>1. PICK k \in 0..Len(events) :
        \/ cut = Chunk(SubSeq(events, 1, k), TRUE)
        \/ cut = Chunk(Append(SubSeq(events, 1, k), Torn), FALSE)
  BY CutsOfKill
<1>2. SubSeq(events, 1, k) \in Seq(Event)
  BY <1>1
<1> DEFINE part == SubSeq(events, 1, k)
<1> HIDE DEF part
<1>3. part \in Seq(Event)
  BY <1>2 DEF part
<1>4. CASE cut = Chunk(part, TRUE)
  <2>1. CASE part = <<>>
    <3>1. old \o part = old
      BY <2>1
    <3> QED BY <1>4, <2>1, <3>1 DEF Written, Chunk, part
  <2>2. CASE part # <<>>
    <3>1. Written(file, cut).lines = old \o part /\ Written(file, cut).ended
      BY <1>4, <2>2 DEF Written, Chunk, File
    <3> QED BY <3>1 DEF part
  <2> QED BY <2>1, <2>2
<1>5. CASE cut = Chunk(Append(part, Torn), FALSE)
  <2>1. Append(part, Torn) # <<>>
    BY <1>3, AppendProperties
  <2>2. Written(file, cut).lines = old \o Append(part, Torn) /\ ~Written(file, cut).ended
    BY <1>5, <2>1 DEF Written, Chunk, File
  <2>3. old \o Append(part, Torn) = Append(old \o part, Torn)
    <3>1. part \in Seq(Line) /\ old \in Seq(Line) /\ Torn \in Line
      BY <1>3 DEF Line
    <3> QED BY <3>1
  <2> QED BY <2>2, <2>3 DEF part
<1> QED BY <1>1, <1>4, <1>5 DEF part

LEMMA DurableKillInCreate ==
  ASSUME Structure, Durable, CleanKills, NEW c \in Creators, KillInCreate(c)
  PROVE  Durable'
<1>1. creates[c] = "checked" /\ disk["active"] = None /\ ProcessEnds
  BY DEF KillInCreate
<1>2. record = None /\ store = "open" /\ committed = <<>> /\ disk["archive"] = None
  BY <1>1 DEF Durable, Structure
<1>3. PICK now \in 1..MaxTime : \E cut \in Cuts(CreationEvents(now)) :
        disk' = [disk EXCEPT !["active"] = Written(EmptyFile, cut)]
  BY DEF KillInCreate
<1>4. PICK cut \in Cuts(CreationEvents(now)) :
        disk' = [disk EXCEPT !["active"] = Written(EmptyFile, cut)]
  BY <1>3
<1>5. disk'["active"] = Written(EmptyFile, cut) /\ disk'["archive"] = None
  BY <1>2, <1>4 DEF Structure, TypeOK, Roots
<1>6. CreationEvents(now) \in Seq(Event)
  BY CreationEventsType
<1> DEFINE events == CreationEvents(now)
           file == Written(EmptyFile, cut)
<1> HIDE DEF events, file
<1>7. PICK k \in 0..Len(events) :
        \/ file.lines = <<>> \o SubSeq(events, 1, k) /\ file.ended
        \/ file.lines = Append(<<>> \o SubSeq(events, 1, k), Torn) /\ ~file.ended
  <2>1. EmptyFile.lines = <<>> /\ EmptyFile.ended /\ <<>> \in Seq(Event)
    BY DEF EmptyFile
  <2> QED BY <1>4, <1>6, <2>1, EmptyFileType, WrittenCut DEF events, file
<1>8. <<>> \o SubSeq(events, 1, k) \in Seq(Event)
  BY <1>6, <1>7 DEF events
<1>9. AtRest(file)
  <2>1. CASE file.lines = <<>> \o SubSeq(events, 1, k) /\ file.ended
    BY <1>2, <1>8, <2>1, NoTornLine DEF AtRest
  <2>2. CASE file.lines = Append(<<>> \o SubSeq(events, 1, k), Torn) /\ ~file.ended
    <3>1. TornLines(file.lines) # {}
      BY <1>8, <2>2, OneTornLine
    <3> QED BY <1>2, <2>2, <3>1 DEF AtRest
  <2> QED BY <1>7, <2>1, <2>2
<1>10. OneHome'
  BY <1>5 DEF OneHome
<1>11. \A r \in Roots : disk'[r] # None => AtRest(disk'[r])
  BY <1>5, <1>9 DEF Roots, file
<1> QED BY <1>1, <1>2, <1>10, <1>11, DurableEnds

LEMMA DurableKillInAppend ==
  ASSUME Structure, Durable, CleanKills, NEW c \in Calls, KillInAppend(c)
  PROVE  Durable'
<1>1. record # None /\ ~record.archived /\ pc = "idle" /\ ProcessEnds /\ TypeOK
  BY DEF KillInAppend, Running, Structure
<1>2. /\ Home = "active" /\ InFile = record.events /\ ValidLog(record.events)
      /\ committed = record.events /\ disk["active"].lines = record.events
      /\ disk["active"].ended
  BY <1>1 DEF Durable, Home, InFile
<1>3. disk["active"] \in File /\ disk["archive"] = None /\ record.events \in Seq(Event)
  BY <1>1, <1>2 DEF TypeOK, Structure, Durable, OneHome, Roots
<1>4. PICK n \in 1..MaxBatch, now \in 1..MaxTime : \E cut \in Cuts(NewBatch(c, n, now)) :
        disk' = [disk EXCEPT !["active"] = Written(@, cut)]
  BY <1>2 DEF KillInAppend
<1>5. PICK cut \in Cuts(NewBatch(c, n, now)) :
        disk' = [disk EXCEPT !["active"] = Written(@, cut)]
  BY <1>4
<1> DEFINE events == NewBatch(c, n, now)
           file == Written(disk["active"], cut)
<1>6. disk'["active"] = file /\ disk'["archive"] = None
  BY <1>1, <1>3, <1>5 DEF TypeOK, Roots
<1>7. events \in Seq(Event) /\ Len(events) = n
  BY <1>1, <1>2, NewBatchType DEF ValidLog
<1>8. cut \in [lines : Seq(Line), ended : BOOLEAN]
  BY <1>5, <1>7, CutsType
<1>9. file \in File
  BY <1>3, <1>8, WrittenType
<1>10. ASSUME NEW k \in 0..n
       PROVE  SubSeq(events, 1, k) \in Seq(Event) /\ ValidLog(record.events \o SubSeq(events, 1, k))
  BY <1>1, <1>2, NewBatchValid
<1> HIDE DEF events
<1>11. PICK k \in 0..n :
         \/ file.lines = record.events \o SubSeq(events, 1, k) /\ file.ended
         \/ file.lines = Append(record.events \o SubSeq(events, 1, k), Torn) /\ ~file.ended
  <2>1. cut \in Cuts(events)
    BY <1>5 DEF events
  <2>2. \E k \in 0..Len(events) :
          \/ file.lines = record.events \o SubSeq(events, 1, k) /\ file.ended
          \/ file.lines = Append(record.events \o SubSeq(events, 1, k), Torn) /\ ~file.ended
    BY <1>2, <1>3, <1>7, <2>1, WrittenCut
  <2> QED BY <1>7, <2>2
<1> HIDE DEF file
<1> DEFINE log == record.events \o SubSeq(events, 1, k)
<1>12. log \in Seq(Event) /\ ValidLog(log) /\ Extends(committed, log)
  <2>1. SubSeq(events, 1, k) \in Seq(Event) /\ ValidLog(log)
    BY <1>10
  <2>2. log \in Seq(Event)
    BY <1>3, <2>1
  <2> QED BY <1>2, <1>3, <2>1, <2>2, ExtendsSelf
<1> HIDE DEF log
<1>13. AtRest(file)
  <2>1. CASE file.lines = log /\ file.ended
    BY <1>9, <1>12, <2>1, CleanFile DEF AtRest
  <2>2. CASE file.lines = Append(log, Torn) /\ ~file.ended
    BY <1>9, <1>12, <2>2, TornFile DEF AtRest
  <2> QED BY <1>11, <2>1, <2>2 DEF log
<1>14. OneHome'
  BY <1>6 DEF OneHome
<1>15. disk'["active"] # None
  BY <1>6, <1>9, SentinelsAssumption
<1>16. \A r \in Roots : disk'[r] # None => AtRest(disk'[r])
  BY <1>6, <1>13 DEF Roots
<1> QED BY <1>1, <1>14, <1>15, <1>16, DurableEnds DEF Roots

LEMMA DurableEnd ==
  ASSUME Structure, Durable, CleanKills, End
  PROVE  Durable'
<1>1. CASE Kill
  <2>1. ProcessEnds /\ disk' = disk
    BY <1>1 DEF Kill
  <2>2. OneHome'
    BY <2>1 DEF Durable, OneHome
  <2> QED BY <2>1, <2>2, RestNow, DurableEnds
<1>2. CASE PowerLoss
  BY <1>2 DEF PowerLoss, CleanKills
<1>3. CASE \E c \in Creators : KillInCreate(c)
  BY <1>3, DurableKillInCreate
<1>4. CASE \E c \in Calls : KillInAppend(c)
  BY <1>4, DurableKillInAppend
<1>5. CASE \E r \in Roots : KillInRepair(r)
  BY <1>5 DEF KillInRepair, CleanKills
<1> QED BY <1>1, <1>2, <1>3, <1>4, <1>5 DEF End

LEMMA DurableStart ==
  ASSUME Structure, Durable, Start
  PROVE  Durable'
<1>1. /\ store = "down" /\ store' = "archive" /\ record = None
      /\ UNCHANGED <<disk, record, creates, announce, queue, pc, batch, committed>>
  BY DEF Start, storeVars, Structure
<1>2. \A r \in Roots : disk'[r] # None => AtRest(disk[r])'
  BY <1>1 DEF Durable, AtRest, Loadable, Extends
<1> QED BY <1>1, <1>2 DEF Durable, OneHome

LEMMA DurableNext == CleanKills /\ Structure /\ Durable /\ [Next]_vars => Durable'
<1> SUFFICES ASSUME CleanKills, Structure, Durable, [Next]_vars PROVE Durable'
  OBVIOUS
<1>1. CASE UNCHANGED vars
  <2>1. UNCHANGED <<disk, store, record, creates, announce, queue, pc, batch, committed>>
    BY <1>1 DEF vars, storeVars
  <2> QED BY <2>1 DEF Durable, OneHome, Home, InFile, AtRest, Loadable, Extends
<1>2. CASE Next
  BY <1>2, DurableStart, DurableEnd, DurableLoad, DurableCreate, DurableSubmit, DurableAppend,
     DurableArchive DEF Next
<1> QED BY <1>1, <1>2

(* Whatever a reader has been able to see is found again by a restart      *)
(* after clean kills, however many: agent-store.ts shows events only after *)
(* the write and the fsync, and a repair that is not itself cut short      *)
(* discards none of them.                                                  *)
THEOREM Durability == ASSUME CleanKills PROVE Spec => []CommittedSurvives
<1>1. Init => Structure /\ Durable
  BY StructureInit, DurableInit
<1>2. (Structure /\ Durable) /\ [Next]_vars => (Structure /\ Durable)'
  BY StructureNext, DurableNext
<1>3. Structure /\ Durable => CommittedSurvives
  BY DurableImpliesSurvives
<1> QED BY <1>1, <1>2, <1>3, PTL DEF Spec

-----------------------------------------------------------------------------
(* Under every fault: what the record holds, and where the log is          *)

(* The in-memory log, the batch being synced included, and the creation    *)
(* events of a request that is about to register them.                     *)
Valid ==
  /\ record # None => ValidLog(record.events)
  /\ pc = "syncing" => queue # <<>> /\ ~record.archived /\ ValidLog(record.events \o batch)
  /\ \A c \in Creators : creates[c] = "written" => ValidLog(announce[c])

LEMMA ValidInit == Init => Valid
BY DEF Init, Valid

LEMMA ValidSettle ==
  ASSUME Valid, NEW o, NEW result, Settle(o, result), UNCHANGED <<creates, announce>>,
         record # None => record' # None /\ record'.events = record.events,
         record = None => record' = None
  PROVE  Valid'
BY DEF Valid, Settle

LEMMA ValidAppend ==
  ASSUME Structure, Valid, NEW c \in Calls, AppendStep(c)
  PROVE  Valid'
<1>0. record # None /\ TypeOK /\ queue # <<>>
  BY DEF AppendStep, AppendRefused, AppendWrite, AppendFails, AppendCommit, SyncFails,
         AppendEmit, AppendDone, Running, Structure
<1>1. CASE AppendRefused(c) \/ AppendFails(c) \/ SyncFails(c) \/ AppendDone(c)
  BY <1>1, ValidSettle DEF AppendRefused, AppendFails, SyncFails, AppendDone
<1>2. CASE AppendWrite(c)
  <2>1. PICK n \in 1..MaxBatch, now \in 1..MaxTime : batch' = NewBatch(c, n, now)
    BY <1>2 DEF AppendWrite
  <2>2. /\ ~record.archived /\ ValidLog(record.events)
        /\ UNCHANGED <<record, queue, creates, announce>>
    BY <1>0, <1>2 DEF AppendWrite, Valid
  <2>3. n \in 0..n /\ batch' \in Seq(Event) /\ Len(batch') = n
    BY <1>0, <2>1, NewBatchType, ConstantsAssumption DEF Structure
  <2>4. SubSeq(batch', 1, n) = batch'
    BY <2>3
  <2>5. ValidLog(record.events \o batch')
    BY <1>0, <2>1, <2>2, <2>3, <2>4, NewBatchValid
  <2> QED BY <1>0, <2>2, <2>5 DEF Valid
<1>3. CASE AppendCommit(c)
  <2>1. /\ record' = [record EXCEPT !.events = @ \o batch] /\ pc = "syncing" /\ pc' = "emitting"
        /\ UNCHANGED <<creates, announce>>
    BY <1>3 DEF AppendCommit
  <2>2. record'.events = record.events \o batch
    BY <1>0, <2>1 DEF TypeOK
  <2> QED BY <2>1, <2>2 DEF Valid
<1>4. CASE AppendEmit(c)
  BY <1>4 DEF AppendEmit, Valid
<1> QED BY <1>1, <1>2, <1>3, <1>4 DEF AppendStep

LEMMA ValidNext ==
  ASSUME Structure, Valid, [Next]_vars
  PROVE  Valid'
<1>1. CASE UNCHANGED vars \/ Start
  BY <1>1 DEF vars, storeVars, Start, Valid
<1>2. CASE End
  BY <1>2 DEF End, Kill, PowerLoss, KillInCreate, KillInAppend, KillInRepair, ProcessEnds, Valid
<1>3. ASSUME NEW r \in Roots, LoadStep(r) PROVE Valid'
  <2>1. /\ store = r /\ UNCHANGED <<creates, announce, pc, batch, queue>>
        /\ \/ record' = record
           \/ /\ record' = [events |-> GoodPrefix(disk[r].lines), archived |-> r = "archive"]
              /\ Loadable(disk[r])
    BY <1>3 DEF LoadStep, LoadKeep, LoadQuarantine, LoadNothing, LoadFails, storeVars
  <2>2. queue = <<>>
    BY <2>1 DEF Structure, Roots
  <2> QED BY <2>1, <2>2 DEF Valid, Loadable
<1>4. ASSUME NEW c \in Creators, CreateStep(c) PROVE Valid'
  <2>0. creates \in [Creators -> {"idle", "checked", "written", "emitting"}]
        /\ announce \in [Creators -> Seq(Event)]
    BY DEF Structure, TypeOK
  <2>1. CASE CreateCheck(c) \/ CreateFails(c) \/ CreateEmit(c)
    <3>1. /\ UNCHANGED <<record, queue, pc, batch>>
          /\ \A d \in Creators : creates'[d] = "written" => creates[d] = "written" /\ announce'[d] = announce[d]
      BY <2>0, <2>1 DEF CreateCheck, CreateFails, CreateEmit
    <3> QED BY <3>1 DEF Valid
  <2>2. CASE CreateWrite(c)
    <3>1. PICK now \in 1..MaxTime : announce' = [announce EXCEPT ![c] = CreationEvents(now)]
      BY <2>2 DEF CreateWrite
    <3>2. ValidLog(CreationEvents(now))
      BY ConstantsAssumption DEF ValidLog, CreationEvents
    <3>3. UNCHANGED <<record, queue, pc, batch>> /\ creates' = [creates EXCEPT ![c] = "written"]
      BY <2>2 DEF CreateWrite
    <3>4. \A d \in Creators : creates'[d] = "written" => ValidLog(announce'[d])
      BY <2>0, <3>1, <3>2, <3>3 DEF Valid
    <3> QED BY <3>3, <3>4 DEF Valid
  <2>3. CASE CreateRegister(c)
    <3>1. /\ record' = [events |-> announce[c], archived |-> FALSE] /\ creates[c] = "written"
          /\ creates' = [creates EXCEPT ![c] = "emitting"]
          /\ UNCHANGED <<announce, queue, pc, batch>>
      BY <2>3 DEF CreateRegister
    <3>2. pc # "syncing"
      BY <3>1 DEF Structure, Valid
    <3>3. \A d \in Creators : creates'[d] = "written" => creates[d] = "written"
      BY <2>0, <3>1
    <3> QED BY <3>1, <3>2, <3>3 DEF Valid
  <2> QED BY <1>4, <2>1, <2>2, <2>3 DEF CreateStep
<1>5. ASSUME NEW o \in Ops, Submit(o) PROVE Valid'
  <2>1. queue' # <<>>
    <3>1. queue \in Seq(Ops) /\ queue' = Append(queue, o)
      BY <1>5 DEF Submit, Structure, TypeOK
    <3>2. Len(queue') = Len(queue) + 1 /\ Len(queue) \in Nat
      BY <3>1
    <3> QED BY <3>2
  <2> QED BY <1>5, <2>1 DEF Submit, Valid
<1>6. CASE \E c \in Calls : AppendStep(c)
  BY <1>6, ValidAppend
<1>7. ASSUME NEW a \in Archivals, ArchiveStep(a) PROVE Valid'
  <2>1. /\ record # None /\ \E result : Settle(a, result)
        /\ UNCHANGED <<creates, announce>>
        /\ record' \in {record, [record EXCEPT !.archived = TRUE]}
    BY <1>7 DEF ArchiveStep, Archive, ArchiveFails, Running, Structure
  <2>2. record \in [events : Seq(Event), archived : BOOLEAN]
    BY <2>1 DEF Structure, TypeOK
  <2>3. record' \in {record, [record EXCEPT !.archived = TRUE]}
    BY <2>1
  <2>4. record' # None /\ record'.events = record.events
    BY <2>2, <2>3, SentinelsAssumption
  <2> QED BY <2>1, <2>4, ValidSettle
<1> QED BY <1>1, <1>2, <1>3, <1>4, <1>5, <1>6, <1>7 DEF Next

(* The in-memory log always passes validateLoaded, so that no restart      *)
(* quarantines what an append has written: its seq go on by one and its    *)
(* times do not fall, whatever Date.now() returns, whichever writes fail   *)
(* and however many requests race to create the Session.                   *)
THEOREM Reloadable == Spec => []LogReloadable
<1>1. Init => Structure /\ Valid
  BY StructureInit, ValidInit
<1>2. (Structure /\ Valid) /\ [Next]_vars => (Structure /\ Valid)'
  BY StructureNext, ValidNext
<1>3. Structure /\ Valid => LogReloadable
  BY DEF Valid, LogReloadable
<1> QED BY <1>1, <1>2, <1>3, PTL DEF Spec

(* A Session that is not known has no file in the archive once that root   *)
(* has been read, and only such a Session is being created.                *)
Lone ==
  /\ OneHome
  /\ store \in {"active", "open"} /\ record = None => disk["archive"] = None
  /\ \A c \in Creators : creates[c] \in {"checked", "written"} => record = None

LEMMA LoneNext ==
  ASSUME OneCreator, Structure, Lone, [Next]_vars
  PROVE  Lone'
<1>0. /\ TypeOK /\ disk \in [Roots -> File \cup {None}]
      /\ creates \in [Creators -> {"idle", "checked", "written", "emitting"}]
  BY DEF Structure, TypeOK
<1>1. CASE UNCHANGED vars \/ Start
  BY <1>1 DEF vars, storeVars, Start, Lone, OneHome
<1>2. ASSUME NEW file, disk' = [disk EXCEPT !["active"] = file], record' = record, store' = store,
             disk["active"] # None \/ (record = None /\ store = "open"),
             \A c \in Creators : creates'[c] \in {"checked", "written"} => record = None
      PROVE  Lone'
  BY <1>0, <1>2 DEF Lone, OneHome, Roots
<1>3. ASSUME UNCHANGED <<disk, record, store>>,
             \A c \in Creators : creates'[c] \in {"checked", "written"} => record = None
      PROVE  Lone'
  BY <1>3 DEF Lone, OneHome
<1>4. ASSUME NEW r \in Roots, NEW file, disk[r] # None \/ (disk["archive"] = None /\ r = "active"),
             disk' = [disk EXCEPT ![r] = file], ProcessEnds
      PROVE  Lone'
  BY <1>0, <1>4 DEF Lone, OneHome, ProcessEnds, Roots
<1>5. CASE End
  <2>1. CASE Kill
    BY <2>1 DEF Kill, ProcessEnds, Lone, OneHome
  <2>2. CASE PowerLoss \/ \E r \in Roots : KillInRepair(r)
    <3>1. PICK r \in Roots : /\ disk[r] # None
                             /\ \E file : disk' = [disk EXCEPT ![r] = file]
      BY <2>2 DEF PowerLoss, KillInRepair
    <3>2. ProcessEnds
      BY <2>2 DEF PowerLoss, KillInRepair
    <3> QED BY <1>4, <3>1, <3>2
  <2>3. ASSUME NEW c \in Creators, KillInCreate(c) PROVE Lone'
    <3>1. creates[c] = "checked" /\ record = None /\ store = "open" /\ disk["archive"] = None
      BY <2>3 DEF KillInCreate, Lone, Structure
    <3>2. ProcessEnds /\ \E file : disk' = [disk EXCEPT !["active"] = file]
      BY <2>3 DEF KillInCreate
    <3> QED BY <1>4, <3>1, <3>2 DEF Roots
  <2>4. ASSUME NEW c \in Calls, KillInAppend(c) PROVE Lone'
    <3>1. record # None /\ disk[Home] # None /\ Home \in Roots
      BY <2>4 DEF KillInAppend, Running, Structure, Home, Roots
    <3>2. ProcessEnds /\ \E file : disk' = [disk EXCEPT ![Home] = file]
      BY <2>4 DEF KillInAppend
    <3> QED BY <1>4, <3>1, <3>2
  <2> QED BY <1>5, <2>1, <2>2, <2>3, <2>4 DEF End
<1>6. ASSUME NEW r \in Roots, LoadStep(r) PROVE Lone'
  <2>0. /\ store = r /\ UNCHANGED creates /\ \A c \in Creators : creates[c] = "idle"
    BY <1>6 DEF LoadStep, LoadKeep, LoadQuarantine, LoadNothing, LoadFails, storeVars, Structure, Roots
  <2>1. CASE LoadKeep(r)
    <3>1. PICK file : disk' = [disk EXCEPT ![r] = file]
      BY <2>1 DEF LoadKeep
    <3>2. OneHome'
      BY <1>0, <2>1, <3>1 DEF LoadKeep, Lone, OneHome, Roots
    <3>3. CASE record # None
      BY <2>0, <2>1, <3>2, <3>3 DEF LoadKeep, Lone
    <3>4. CASE record = None
      <4>1. record' # None
        <5>1. disk[r] \in File /\ disk[r].lines \in Seq(Line)
          BY <1>0, <2>1 DEF LoadKeep, File, Line
        <5>2. GoodPrefix(disk[r].lines) \in Seq(Event)
          BY <2>1, <5>1, GoodPrefixType DEF LoadKeep, Loadable
        <5>3. record' = [events |-> GoodPrefix(disk[r].lines), archived |-> r = "archive"]
          BY <2>1, <3>4 DEF LoadKeep
        <5>4. record' \in [events : Seq(Event), archived : BOOLEAN]
          BY <5>2, <5>3
        <5> QED BY <5>4, SentinelsAssumption
      <4> QED BY <2>0, <3>2, <4>1 DEF Lone
    <3> QED BY <3>3, <3>4
  <2>2. CASE LoadQuarantine(r) \/ LoadNothing(r)
    <3>1. /\ disk' = [disk EXCEPT ![r] = None] \/ (disk' = disk /\ disk[r] = None)
          /\ record' = record /\ store' = AfterLoading(r)
      BY <2>2 DEF LoadQuarantine, LoadNothing, storeVars
    <3>2. disk'[r] = None /\ \A q \in Roots \ {r} : disk'[q] = disk[q]
      BY <1>0, <3>1
    <3>3. OneHome'
      BY <3>2 DEF Lone, OneHome, Roots
    <3>4. record' = None => disk'["archive"] = None
      BY <2>0, <3>1, <3>2 DEF Lone, Roots
    <3> QED BY <2>0, <3>3, <3>4 DEF Lone
  <2>3. CASE LoadFails(r)
    BY <1>0, <2>0, <2>3 DEF LoadFails, storeVars, Lone, OneHome, Roots
  <2> QED BY <1>6, <2>1, <2>2, <2>3 DEF LoadStep
<1>7. ASSUME NEW c \in Creators, CreateStep(c) PROVE Lone'
  <2>1. CASE CreateCheck(c) \/ CreateEmit(c)
    <3>1. UNCHANGED <<disk, record, store>>
      BY <2>1 DEF CreateCheck, CreateEmit
    <3>2. ASSUME NEW d \in Creators, creates'[d] \in {"checked", "written"}
          PROVE  record = None
      <4>1. creates'[d] = creates[d] \/ CreateCheck(c)
        <5>1. CASE CreateEmit(c)
          <6>1. /\ creates[c] = "emitting"
                /\ \/ creates' = [creates EXCEPT ![c] = "idle"]
                   \/ creates' = [creates EXCEPT ![c] = @]
            BY <5>1 DEF CreateEmit
          <6> QED BY <1>0, <3>2, <6>1
        <5> QED BY <2>1, <5>1
      <4> QED BY <3>2, <4>1 DEF CreateCheck, Lone
    <3> QED BY <1>3, <3>1, <3>2
  <2>2. CASE CreateWrite(c) \/ CreateFails(c)
    <3>1. creates[c] = "checked" /\ record = None /\ store = "open" /\ UNCHANGED <<record, store>>
      BY <2>2 DEF CreateWrite, CreateFails, Lone, Structure
    <3> QED BY <1>2, <1>3, <2>2, <3>1 DEF CreateWrite, CreateFails
  <2>3. CASE CreateRegister(c)
    <3>1. /\ record' = [events |-> announce[c], archived |-> FALSE] /\ disk' = disk
          /\ creates' = [creates EXCEPT ![c] = "emitting"] /\ announce[c] \in Seq(Event)
      BY <1>0, <2>3 DEF CreateRegister, TypeOK
    <3>2. record' # None
      <4>1. record' \in [events : Seq(Event), archived : BOOLEAN]
        BY <3>1
      <4> QED BY <4>1, SentinelsAssumption
    <3>3. \A d \in Creators : creates'[d] = "emitting"
      BY <1>0, <3>1 DEF OneCreator
    <3> QED BY <3>1, <3>2, <3>3 DEF Lone, OneHome
  <2> QED BY <1>7, <2>1, <2>2, <2>3 DEF CreateStep
<1>8. CASE \E o \in Ops : Submit(o)
  BY <1>3, <1>8 DEF Submit, Lone
<1>9. ASSUME NEW c \in Calls, AppendStep(c) PROVE Lone'
  <2>1. record # None /\ disk[Home] # None /\ Home \in Roots /\ store' = store /\ creates' = creates
    BY <1>9 DEF AppendStep, AppendRefused, AppendWrite, AppendFails, AppendCommit, SyncFails,
                AppendEmit, AppendDone, Running, Structure, Home, Roots
  <2>2. record' # None
    <3>1. record \in [events : Seq(Event), archived : BOOLEAN] /\ batch \in Seq(Event)
      BY <1>0, <2>1 DEF TypeOK
    <3>2. record.events \o batch \in Seq(Event)
      BY <3>1
    <3>3. record' \in {record, [record EXCEPT !.events = @ \o batch]}
      BY <1>9 DEF AppendStep, AppendRefused, AppendWrite, AppendFails, AppendCommit, SyncFails,
                  AppendEmit, AppendDone
    <3>4. record' \in [events : Seq(Event), archived : BOOLEAN]
      BY <3>1, <3>2, <3>3
    <3> QED BY <3>4, SentinelsAssumption
  <2>3. disk' = disk \/ \E file : disk' = [disk EXCEPT ![Home] = file]
    BY <1>9 DEF AppendStep, AppendRefused, AppendWrite, AppendFails, AppendCommit, SyncFails,
                AppendEmit, AppendDone
  <2>4. OneHome'
    BY <1>0, <2>1, <2>3 DEF Lone, OneHome, Roots
  <2> QED BY <2>1, <2>2, <2>4 DEF Lone
<1>10. ASSUME NEW a \in Archivals, ArchiveStep(a) PROVE Lone'
  <2>1. record # None /\ store' = store /\ creates' = creates
    BY <1>10 DEF ArchiveStep, Archive, ArchiveFails, Running, Structure
  <2>2. record' # None
    <3>1. record \in [events : Seq(Event), archived : BOOLEAN]
      BY <1>0, <2>1 DEF TypeOK
    <3>2. record' \in {record, [record EXCEPT !.archived = TRUE]}
      BY <1>10 DEF ArchiveStep, Archive, ArchiveFails
    <3>3. record' \in [events : Seq(Event), archived : BOOLEAN]
      BY <3>1, <3>2
    <3> QED BY <3>3, SentinelsAssumption
  <2>3. disk' = disk \/ disk' = [disk EXCEPT !["archive"] = disk["active"], !["active"] = None]
    BY <1>10 DEF ArchiveStep, Archive, ArchiveFails
  <2>4. OneHome'
    BY <1>0, <2>3 DEF Lone, OneHome, Roots
  <2> QED BY <2>1, <2>2, <2>4 DEF Lone
<1> QED BY <1>1, <1>5, <1>6, <1>7, <1>8, <1>9, <1>10 DEF Next

(* The log is never in both roots, which would keep the store from opening *)
(* at all (loadFile throws for the second copy), whatever fails and        *)
(* whenever the process or the machine stops: archive moves the file with  *)
(* one rename.                                                             *)
THEOREM SingleHome == ASSUME OneCreator PROVE Spec => []OneHome
<1>1. Init => Structure /\ Lone
  BY StructureInit DEF Init, Lone, OneHome, Roots
<1>2. (Structure /\ Lone) /\ [Next]_vars => (Structure /\ Lone)'
  BY StructureNext, LoneNext
<1>3. Structure /\ Lone => OneHome
  BY DEF Lone
<1> QED BY <1>1, <1>2, <1>3, PTL DEF Spec

-----------------------------------------------------------------------------
(* Under every fault: what is published                                    *)

(* How many events of the running append are still to be published.        *)
Pending == IF pc = "emitting" THEN Len(batch) ELSE 0

(* What Structure leaves out of the requests to create the Session.        *)
Announcing ==
  /\ record = None => published = <<>>
  /\ pc # "idle" => queue # <<>>
  /\ \A c \in Creators :
       /\ creates[c] \in {"checked", "written"} => record = None
       /\ creates[c] = "emitting" => record # None
       /\ \A i \in DOMAIN announce[c] : announce[c][i].seq < 2

(* The batch continues the in-memory log, or is its end.                   *)
Continues ==
  /\ pc = "syncing" => \A i \in 1..Len(batch) : batch[i].seq = Len(record.events) + i - 1
  /\ pc = "emitting" =>
       /\ Len(batch) + 2 <= Len(record.events)
       /\ \A i \in 1..Len(batch) : batch[i].seq = Len(record.events) - Len(batch) + i - 1

InOrder ==
  \A i, j \in Appended :
    i < j /\ Appended \cap (i + 1)..(j - 1) = {} => published[j] = published[i] + 1

UpToPending ==
  \A i \in Appended :
    (\A j \in Appended : j <= i) => published[i] + 1 + Pending = Len(record.events)

Emission == Announcing /\ Continues /\ InOrder /\ UpToPending

(* Publishing one more event.                                              *)
LEMMA AppendedNext ==
  ASSUME published \in Seq(Nat), NEW seq \in Nat, published' = Append(published, seq)
  PROVE  /\ Len(published) \in Nat
         /\ \A i \in Appended : i \in 1..Len(published) /\ published'[i] = published[i]
         /\ published'[Len(published) + 1] = seq
         /\ Appended' = Appended \cup (IF seq >= 2 THEN {Len(published) + 1} ELSE {})
<1>1. /\ Len(published) \in Nat /\ DOMAIN published = 1..Len(published)
      /\ DOMAIN published' = 1..(Len(published) + 1)
      /\ \A i \in 1..Len(published) : published'[i] = published[i]
      /\ published'[Len(published) + 1] = seq
  OBVIOUS
<1>2. 1..(Len(published) + 1) = 1..Len(published) \cup {Len(published) + 1}
  BY <1>1
<1> QED BY <1>1, <1>2 DEF Appended

(* The creation events do not disturb the order.                           *)
LEMMA EmissionOfCreation ==
  ASSUME Structure, Emission, NEW c \in Creators, CreateEmit(c)
  PROVE  Emission'
<1>1. /\ announce[c] # <<>> /\ published' = Append(published, Head(announce[c]).seq)
      /\ announce' = [announce EXCEPT ![c] = Tail(@)] /\ creates[c] = "emitting"
      /\ UNCHANGED <<record, queue, pc, batch>>
  BY DEF CreateEmit
<1>2. /\ announce \in [Creators -> Seq(Event)] /\ published \in Seq(Nat)
      /\ creates \in [Creators -> {"idle", "checked", "written", "emitting"}]
  BY DEF Structure, TypeOK
<1>3. 1 \in DOMAIN announce[c] /\ Head(announce[c]) = announce[c][1] /\ announce[c][1] \in Event
  BY <1>1, <1>2
<1>4. Head(announce[c]).seq \in Nat /\ Head(announce[c]).seq < 2
  BY <1>3 DEF Emission, Announcing, Event
<1>5. Appended' = Appended /\ \A i \in Appended : published'[i] = published[i]
  <2> DEFINE seq == Head(announce[c]).seq
  <2>1. seq \in Nat /\ ~(seq >= 2)
    BY <1>4
  <2> HIDE DEF seq
  <2>2. published' = Append(published, seq)
    BY <1>1 DEF seq
  <2> QED BY <1>2, <2>1, <2>2, AppendedNext
<1>6. InOrder' /\ UpToPending' /\ Continues'
  <2>1. InOrder'
    BY <1>5 DEF Emission, InOrder
  <2>2. Pending' = Pending /\ record' = record
    BY <1>1 DEF Pending
  <2>3. UpToPending'
    BY <1>5, <2>2 DEF Emission, UpToPending
  <2>4. Continues'
    BY <1>1 DEF Emission, Continues
  <2> QED BY <2>1, <2>3, <2>4
<1>7. ASSUME NEW d \in Creators
      PROVE  /\ creates'[d] \in {"checked", "written"} => record = None
             /\ creates'[d] = "emitting" => record # None
             /\ \A i \in DOMAIN announce'[d] : announce'[d][i].seq < 2
  <2>1. \A i \in DOMAIN Tail(announce[c]) : Tail(announce[c])[i].seq < 2
    <3>1. \A i \in DOMAIN Tail(announce[c]) :
            i + 1 \in DOMAIN announce[c] /\ Tail(announce[c])[i] = announce[c][i + 1]
      BY <1>1, <1>2
    <3> QED BY <3>1 DEF Emission, Announcing
  <2>2. CASE d = c
    <3>1. announce'[d] = Tail(announce[c]) /\ record # None
      BY <1>1, <1>2, <2>2 DEF Emission, Announcing
    <3>2. \/ creates' = [creates EXCEPT ![c] = "idle"]
          \/ creates' = [creates EXCEPT ![c] = @]
      BY DEF CreateEmit
    <3>3. creates'[d] \in {"idle", "emitting"}
      BY <1>1, <1>2, <2>2, <3>2
    <3> QED BY <2>1, <3>1, <3>3
  <2>3. CASE d # c
    <3>1. announce'[d] = announce[d] /\ creates'[d] = creates[d]
      BY <1>1, <1>2, <2>3 DEF CreateEmit
    <3> QED BY <3>1 DEF Emission, Announcing
  <2> QED BY <2>2, <2>3
<1>8. Announcing'
  <2>1. record # None
    BY <1>1 DEF Emission, Announcing
  <2> QED BY <1>1, <1>7, <2>1 DEF Emission, Announcing
<1> QED BY <1>6, <1>8 DEF Emission

(* An appended event is the next one.                                      *)
LEMMA EmissionOfAppend ==
  ASSUME Structure, Emission, NEW c \in Calls, AppendEmit(c)
  PROVE  Emission'
<1>1. /\ batch # <<>> /\ published' = Append(published, Head(batch).seq) /\ batch' = Tail(batch)
      /\ pc = "emitting" /\ pc' = "emitting" /\ record # None
      /\ UNCHANGED <<record, creates, announce, queue>>
  BY DEF AppendEmit, Running, Structure
<1>2. /\ published \in Seq(Nat) /\ batch \in Seq(Event) /\ record.events \in Seq(Event)
  BY <1>1 DEF Structure, TypeOK
<1> DEFINE n == Len(batch)
           m == Len(record.events)
           p == Len(published)
           seq == Head(batch).seq
<1>3. n \in Nat /\ n >= 1 /\ m \in Nat /\ p \in Nat
  BY <1>1, <1>2
<1>4. n + 2 <= m /\ \A i \in 1..n : batch[i].seq = m - n + i - 1
  BY <1>1 DEF Emission, Continues
<1>5. seq = m - n /\ seq \in Nat /\ seq >= 2
  <2>1. Head(batch) = batch[1] /\ 1 \in 1..n
    BY <1>1, <1>2, <1>3
  <2>2. seq = m - n + 1 - 1
    BY <1>4, <2>1
  <2> HIDE DEF seq, m, n
  <2> QED BY <1>3, <1>4, <2>2
<1>6. Len(batch') = n - 1 /\ \A i \in 1..(n - 1) : batch'[i] = batch[i + 1] /\ i + 1 \in 1..n
  BY <1>1, <1>2
<1>7. published' = Append(published, seq)
  BY <1>1
<1> HIDE DEF n, m, p, seq
<1>8. Continues'
  <2>1. n - 1 + 2 <= m
    BY <1>3, <1>4
  <2>2. ASSUME NEW i \in 1..(n - 1)
        PROVE  batch'[i].seq = m - (n - 1) + i - 1
    <3>1. batch'[i].seq = m - n + (i + 1) - 1
      BY <1>4, <1>6
    <3> QED BY <1>3, <3>1
  <2> QED BY <1>1, <1>6, <2>1, <2>2 DEF Continues, m
<1>9. /\ \A i \in Appended : i \in 1..p /\ published'[i] = published[i]
      /\ published'[p + 1] = seq
      /\ Appended' = Appended \cup {p + 1}
  BY <1>2, <1>5, <1>7, AppendedNext DEF p
<1>10. \A i \in Appended : (\A j \in Appended : j <= i) => published[i] + 1 = seq
  <2>1. Pending = n
    BY <1>1 DEF Pending, n
  <2>2. \A i \in Appended : published[i] \in Nat
    BY <1>2 DEF Appended
  <2>3. \A i \in Appended : (\A j \in Appended : j <= i) => published[i] + 1 + n = m
    BY <2>1 DEF Emission, UpToPending, m
  <2> QED BY <1>3, <1>5, <2>2, <2>3
<1>11. InOrder'
  <2> SUFFICES ASSUME NEW i \in Appended', NEW j \in Appended', i < j,
                      Appended' \cap (i + 1)..(j - 1) = {}
               PROVE  published'[j] = published'[i] + 1
    BY DEF InOrder
  <2>1. i \in Appended
    BY <1>3, <1>9
  <2>2. CASE j \in Appended
    <3>1. Appended \cap (i + 1)..(j - 1) = {}
      BY <1>9
    <3> QED BY <1>9, <2>1, <2>2, <3>1 DEF Emission, InOrder
  <2>3. CASE j = p + 1
    <3>1. ASSUME NEW k \in Appended PROVE k <= i
      <4>1. k \in 1..p /\ i \in 1..p /\ k \notin (i + 1)..p
        BY <1>3, <1>9, <2>1, <2>3
      <4> QED BY <1>3, <4>1
    <3> QED BY <1>9, <1>10, <2>1, <2>3, <3>1
  <2> QED BY <1>9, <2>2, <2>3
<1>12. UpToPending'
  <2> SUFFICES ASSUME NEW i \in Appended', \A j \in Appended' : j <= i
               PROVE  published'[i] + 1 + Pending' = m
    BY <1>1 DEF UpToPending, m
  <2>1. i = p + 1
    BY <1>3, <1>9
  <2>2. Pending' = n - 1
    BY <1>1, <1>6 DEF Pending
  <2> QED BY <1>3, <1>5, <1>9, <2>1, <2>2
<1>13. Announcing'
  BY <1>1 DEF Emission, Announcing
<1> QED BY <1>8, <1>11, <1>12, <1>13 DEF Emission

LEMMA EmissionNext ==
  ASSUME OneCreator, Structure, Valid, Emission, Structure', [Next]_vars
  PROVE  Emission'
<1>0. /\ TypeOK /\ batch \in Seq(Event) /\ published \in Seq(Nat)
      /\ announce \in [Creators -> Seq(Event)]
      /\ creates \in [Creators -> {"idle", "checked", "written", "emitting"}]
  BY DEF Structure, TypeOK
<1>1. ASSUME UNCHANGED <<record, published, pc, batch>>, Announcing'
      PROVE  Emission'
  BY <1>1 DEF Emission, Continues, InOrder, UpToPending, Pending, Appended
<1>2. ASSUME UNCHANGED <<record, creates, announce, published>>, queue # <<>> \/ queue' = queue
      PROVE  (pc' # "idle" => queue' # <<>>) => Announcing'
  BY <1>2 DEF Emission, Announcing
<1>3. ASSUME published' = <<>>, pc' = "idle", Announcing' PROVE Emission'
  BY <1>3 DEF Emission, Continues, InOrder, UpToPending, Appended
<1>4. CASE UNCHANGED vars \/ Start \/ \E o \in Ops : Submit(o)
  <2>1. UNCHANGED <<record, creates, announce, published, pc, batch>>
    BY <1>4 DEF vars, storeVars, Start, Submit
  <2>2. queue # <<>> => queue' # <<>>
    <3>1. CASE \E o \in Ops : Submit(o)
      <4>1. PICK o \in Ops : queue' = Append(queue, o) /\ queue \in Seq(Ops)
        BY <3>1 DEF Submit, Structure, TypeOK
      <4>2. Len(queue') = Len(queue) + 1 /\ Len(queue) \in Nat
        BY <4>1
      <4> QED BY <4>2
    <3> QED BY <1>4, <3>1 DEF vars, storeVars, Start
  <2>3. Announcing'
    BY <2>1, <2>2 DEF Emission, Announcing
  <2> QED BY <1>1, <2>1, <2>3
<1>5. CASE End
  <2>1. ProcessEnds
    BY <1>5 DEF End, Kill, PowerLoss, KillInCreate, KillInAppend, KillInRepair
  <2> QED BY <1>3, <2>1 DEF ProcessEnds, Announcing
<1>6. ASSUME NEW r \in Roots, LoadStep(r) PROVE Emission'
  <2>1. /\ UNCHANGED <<creates, announce, queue, pc, batch, published>> /\ store = r
        /\ record' = record \/ record = None
    BY <1>6 DEF LoadStep, LoadKeep, LoadQuarantine, LoadNothing, LoadFails, storeVars
  <2>2. queue = <<>> /\ pc = "idle" /\ \A c \in Creators : creates[c] = "idle"
    BY <2>1 DEF Structure, Roots, Emission, Announcing
  <2>3. CASE record' = record
    BY <1>1, <2>1, <2>3 DEF Emission, Announcing
  <2>4. CASE record = None
    <3>1. published = <<>>
      BY <2>4 DEF Emission, Announcing
    <3> QED BY <1>3, <2>1, <2>2, <3>1 DEF Emission, Announcing
  <2> QED BY <2>1, <2>3, <2>4
<1>7. ASSUME NEW c \in Creators, CreateStep(c) PROVE Emission'
  <2>1. CASE CreateCheck(c) \/ CreateFails(c)
    <3>1. UNCHANGED <<record, published, pc, batch, queue, announce>>
      BY <2>1 DEF CreateCheck, CreateFails
    <3>2. \A d \in Creators : creates'[d] = creates[d] \/ creates'[d] = "idle"
                              \/ (creates'[d] = "checked" /\ record = None)
      BY <1>0, <2>1 DEF CreateCheck, CreateFails
    <3>3. Announcing'
      BY <3>1, <3>2 DEF Emission, Announcing
    <3> QED BY <1>1, <3>1, <3>3
  <2>2. CASE CreateWrite(c)
    <3>1. PICK now \in 1..MaxTime : announce' = [announce EXCEPT ![c] = CreationEvents(now)]
      BY <2>2 DEF CreateWrite
    <3>2. /\ UNCHANGED <<record, published, pc, batch, queue>> /\ record = None
          /\ creates' = [creates EXCEPT ![c] = "written"]
      BY <2>2 DEF CreateWrite, Emission, Announcing
    <3>3. \A i \in DOMAIN CreationEvents(now) : CreationEvents(now)[i].seq < 2
      <4>1. \A i \in 1..2 : CreationEvents(now)[i].seq < 2
        BY DEF CreationEvents
      <4>2. DOMAIN CreationEvents(now) = 1..2
        BY DEF CreationEvents
      <4> QED BY <4>1, <4>2
    <3>4. ASSUME NEW d \in Creators
          PROVE  /\ creates'[d] = "emitting" => record # None
                 /\ \A i \in DOMAIN announce'[d] : announce'[d][i].seq < 2
      <4>1. CASE d = c
        BY <1>0, <3>1, <3>2, <3>3, <4>1
      <4>2. CASE d # c
        BY <1>0, <3>1, <3>2, <4>2 DEF Emission, Announcing
      <4> QED BY <4>1, <4>2
    <3>5. Announcing'
      BY <3>2, <3>4 DEF Emission, Announcing
    <3> QED BY <1>1, <3>2, <3>5
  <2>3. CASE CreateRegister(c)
    <3>1. /\ record = None /\ published = <<>> /\ queue = <<>> /\ pc = "idle"
          /\ creates' = [creates EXCEPT ![c] = "emitting"]
          /\ record' = [events |-> announce[c], archived |-> FALSE]
          /\ UNCHANGED <<announce, queue, pc, batch, published>>
      BY <2>3 DEF CreateRegister, Emission, Announcing, Structure
    <3>2. record' # None
      <4>1. announce[c] \in Seq(Event)
        BY <1>0
      <4>2. record' \in [events : Seq(Event), archived : BOOLEAN]
        BY <3>1, <4>1
      <4> QED BY <4>2, SentinelsAssumption
    <3>3. \A d \in Creators : creates'[d] = "emitting"
      BY <1>0, <3>1 DEF OneCreator
    <3>4. Announcing'
      BY <3>1, <3>2, <3>3 DEF Emission, Announcing
    <3> QED BY <1>3, <3>1, <3>4
  <2>4. CASE CreateEmit(c)
    BY <2>4, EmissionOfCreation
  <2> QED BY <1>7, <2>1, <2>2, <2>3, <2>4 DEF CreateStep
<1>8. ASSUME NEW o \in Ops, NEW result, Settle(o, result), pc = "emitting" => batch = <<>>,
             record # None, record' # None, record'.events = record.events,
             UNCHANGED <<creates, announce, published>>
      PROVE  Emission'
  <2>1. pc' = "idle" /\ Pending' = 0 /\ Pending = 0
    BY <1>8 DEF Settle, Pending
  <2>2. Announcing' /\ Continues' /\ InOrder'
    BY <1>8, <2>1 DEF Emission, Announcing, Continues, InOrder, Appended
  <2>3. UpToPending'
    BY <1>8, <2>1 DEF Emission, UpToPending, Appended
  <2> QED BY <2>2, <2>3 DEF Emission
<1>9. ASSUME NEW c \in Calls, AppendStep(c) PROVE Emission'
  <2>0. record # None /\ queue # <<>> /\ c \in Ops /\ record.events \in Seq(Event)
    BY <1>9 DEF AppendStep, AppendRefused, AppendWrite, AppendFails, AppendCommit, SyncFails,
                AppendEmit, AppendDone, Running, Structure, TypeOK, Ops
  <2>1. CASE AppendRefused(c) \/ AppendFails(c) \/ SyncFails(c) \/ AppendDone(c)
    <3>1. PICK result : Settle(c, result)
      BY <2>1 DEF AppendRefused, AppendFails, SyncFails, AppendDone
    <3>2. UNCHANGED <<record, creates, announce, published>> /\ (pc = "emitting" => batch = <<>>)
      BY <2>1 DEF AppendRefused, AppendFails, SyncFails, AppendDone
    <3> QED BY <1>8, <2>0, <3>1, <3>2
  <2>2. CASE AppendWrite(c)
    <3>1. PICK n \in 1..MaxBatch, now \in 1..MaxTime : batch' = NewBatch(c, n, now)
      BY <2>2 DEF AppendWrite
    <3>2. /\ UNCHANGED <<record, creates, announce, queue, published>>
          /\ pc = "idle" /\ pc' = "syncing"
      BY <2>2 DEF AppendWrite
    <3>3. Len(batch') = n
      BY <1>0, <2>0, <3>1, NewBatchType DEF Structure
    <3>4. \A i \in 1..n : batch'[i].seq = Len(record.events) + i - 1
      BY <3>1 DEF NewBatch
    <3>5. Continues'
      BY <3>2, <3>3, <3>4 DEF Continues
    <3>6. Announcing' /\ InOrder' /\ UpToPending'
      BY <2>0, <3>2 DEF Emission, Announcing, InOrder, UpToPending, Pending, Appended
    <3> QED BY <3>5, <3>6 DEF Emission
  <2>3. CASE AppendCommit(c)
    <3>1. /\ record' = [record EXCEPT !.events = @ \o batch] /\ pc = "syncing" /\ pc' = "emitting"
          /\ UNCHANGED <<creates, announce, queue, batch, published>>
      BY <2>3 DEF AppendCommit
    <3>2. /\ record'.events = record.events \o batch
          /\ record' \in [events : Seq(Event), archived : BOOLEAN]
      <4>1. record \in [events : Seq(Event), archived : BOOLEAN] /\ record.events \o batch \in Seq(Event)
        BY <1>0, <2>0 DEF TypeOK
      <4> QED BY <3>1, <4>1
    <3>3. record' # None
      BY <3>2, SentinelsAssumption
    <3>4. Len(record'.events) = Len(record.events) + Len(batch)
          /\ Len(batch) \in Nat /\ Len(record.events) \in Nat
      BY <1>0, <2>0, <3>2
    <3>5. Len(record.events) >= 2
      BY <2>0 DEF Valid, ValidLog
    <3>6. Continues'
      BY <3>1, <3>4, <3>5 DEF Emission, Continues
    <3>7. Announcing' /\ InOrder'
      BY <2>0, <3>1, <3>3 DEF Emission, Announcing, InOrder, Appended
    <3>8. UpToPending'
      <4>1. Pending = 0 /\ Pending' = Len(batch)
        BY <3>1 DEF Pending
      <4>2. \A i \in Appended : published[i] \in Nat
        BY <1>0 DEF Appended
      <4>3. Appended' = Appended /\ published' = published
        BY <3>1 DEF Appended
      <4>4. \A i \in Appended : (\A j \in Appended : j <= i) =>
              published[i] + 1 = Len(record.events)
        BY <4>1, <4>2 DEF Emission, UpToPending
      <4>5. \A i \in Appended : (\A j \in Appended : j <= i) =>
              published[i] + 1 + Len(batch) = Len(record'.events)
        BY <3>4, <4>2, <4>4
      <4> QED BY <4>1, <4>3, <4>5 DEF UpToPending
    <3> QED BY <3>6, <3>7, <3>8 DEF Emission
  <2>4. CASE AppendEmit(c)
    BY <2>4, EmissionOfAppend
  <2> QED BY <1>9, <2>1, <2>2, <2>3, <2>4 DEF AppendStep
<1>10. ASSUME NEW a \in Archivals, ArchiveStep(a) PROVE Emission'
  <2>1. /\ record # None /\ pc = "idle" /\ a \in Ops
        /\ UNCHANGED <<creates, announce, published>>
    BY <1>10 DEF ArchiveStep, Archive, ArchiveFails, Running, Structure, Ops
  <2>2. PICK result : Settle(a, result)
    BY <1>10 DEF ArchiveStep, Archive, ArchiveFails
  <2>3. record \in [events : Seq(Event), archived : BOOLEAN]
    BY <1>0, <2>1 DEF TypeOK
  <2>4. record' \in {record, [record EXCEPT !.archived = TRUE]}
    BY <1>10 DEF ArchiveStep, Archive, ArchiveFails
  <2>5. record' # None /\ record'.events = record.events
    BY <2>3, <2>4, SentinelsAssumption
  <2> QED BY <1>8, <2>1, <2>2, <2>5
<1> QED BY <1>4, <1>5, <1>6, <1>7, <1>9, <1>10 DEF Next

(* What the appends of one process emit are consecutive sequence numbers,  *)
(* each once, and all of them once the queue is empty: whatever writes     *)
(* fail, whichever appends are rejected on the way, and however the        *)
(* creation events still being emitted come between.                       *)
THEOREM PublishedInOrder == ASSUME OneCreator PROVE Spec => []AppendsPublishedInOrder
<1> DEFINE IInv == Structure /\ Valid /\ Emission
<1>1. Init => IInv
  BY StructureInit, ValidInit
     DEF Init, Emission, Announcing, Continues, InOrder, UpToPending, Appended
<1>2. IInv /\ [Next]_vars => IInv'
  BY StructureNext, ValidNext, EmissionNext
<1>3. IInv => AppendsPublishedInOrder
  <2> SUFFICES ASSUME IInv PROVE AppendsPublishedInOrder
    OBVIOUS
  <2>1. ASSUME NEW i \in Appended, queue = <<>>, \A j \in Appended : j <= i
        PROVE  published[i] = Len(record.events) - 1
    <3>1. pc = "idle" /\ Pending = 0 /\ published # <<>>
      BY <2>1 DEF Emission, Announcing, Pending, Appended
    <3>2. record # None /\ record.events \in Seq(Event) /\ published[i] \in Nat
      BY <2>1, <3>1 DEF Emission, Announcing, Appended, Structure, TypeOK
    <3>3. Len(record.events) \in Nat /\ published[i] + 1 + 0 = Len(record.events)
      BY <2>1, <3>1, <3>2 DEF Emission, UpToPending
    <3> QED BY <3>2, <3>3
  <2> QED BY <2>1 DEF Emission, InOrder, AppendsPublishedInOrder
<1> HIDE DEF IInv
<1> QED BY <1>1, <1>2, <1>3, PTL DEF Spec

=============================================================================
