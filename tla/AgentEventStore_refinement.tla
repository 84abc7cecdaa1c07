----------------------- MODULE AgentEventStore_refinement -----------------------
(***************************************************************************)
(* The event store implements DurableLog, and what follows from the way it *)
(* grows: while kills are the only fault, for every number of calls, batch *)
(* size, log bound and number of restarts.                                 *)
(***************************************************************************)
EXTENDS AgentEventStore_proofs

-----------------------------------------------------------------------------
(* What a restart would find, before and after each step.                  *)

(* While the Session is known: its file, the batch being synced included.  *)
LEMMA RecoveredRecord == Structure /\ Durable /\ record # None => Recovered = InFile
<1> SUFFICES ASSUME Structure, Durable, record # None PROVE Recovered = InFile
  OBVIOUS
<1>1. InFile \in Seq(Event)
  BY InFileType
<1>2. /\ disk[Home] \in File /\ disk[Home] # None /\ disk[Home].lines = InFile
      /\ disk[Home].ended /\ ValidLog(InFile)
  BY DEF Structure, TypeOK, Durable, Home, Roots
<1>3. LiveFile = disk[Home]
  BY <1>2 DEF LiveFile, Home, Durable, OneHome
<1> QED  BY <1>1, <1>2, <1>3, CleanFile DEF Recovered

LEMMA RecoveredType == Structure => Recovered \in Seq(Event)
<1> SUFFICES ASSUME Structure PROVE Recovered \in Seq(Event)
  OBVIOUS
<1>1. CASE LiveFile # None /\ Loadable(LiveFile)
  <2>1. LiveFile \in File /\ LiveFile.lines \in Seq(Line)
    BY <1>1 DEF LiveFile, Structure, TypeOK, Roots, File, Line
  <2> QED BY <1>1, <2>1, GoodPrefixType DEF Recovered, Loadable
<1>2. CASE ~(LiveFile # None /\ Loadable(LiveFile))
  BY <1>2 DEF Recovered
<1> QED BY <1>1, <1>2

LEMMA RecoveredSame ==
  ASSUME disk' = disk
  PROVE  Recovered' = Recovered
BY DEF Recovered, LiveFile, Loadable

(* No file, nothing to find.                                               *)
LEMMA RecoveredNothing ==
  ASSUME \A r \in Roots : disk[r] = None
  PROVE  Recovered = <<>>
BY DEF Recovered, LiveFile, Roots

(* A start leaves what a restart finds as it was, and shows it.            *)
LEMMA RecoveredLoad ==
  ASSUME Structure, Durable, CleanKills, Structure', Durable',
         NEW r \in Roots, LoadStep(r)
  PROVE  Recovered' = Recovered /\ committed' \in {committed, Recovered}
<1>0. store = r /\ store # "open" /\ (disk[r] # None => record = None)
  BY DEF LoadStep, LoadKeep, LoadQuarantine, LoadNothing, LoadFails, Roots, Structure,
         Durable, OneHome, Home
<1>1. CASE LoadKeep(r)
  <2>1. /\ record = None /\ disk[r] # None /\ Loadable(disk[r])
        /\ record' = [events |-> GoodPrefix(disk[r].lines), archived |-> r = "archive"]
        /\ committed' = GoodPrefix(disk[r].lines) /\ pc' = pc
    BY <1>0, <1>1 DEF LoadKeep
  <2>2. Recovered = GoodPrefix(disk[r].lines)
    BY <2>1 DEF Recovered, LiveFile, Durable, OneHome, Roots
  <2>3. record' # None
    <3>1. disk[r] \in File /\ disk[r].lines \in Seq(Line)
      BY <2>1 DEF Structure, TypeOK, File, Line
    <3>2. GoodPrefix(disk[r].lines) \in Seq(Event)
      BY <2>1, <3>1, GoodPrefixType DEF Loadable
    <3>3. record' \in [events : Seq(Event), archived : BOOLEAN]
      BY <2>1, <3>2
    <3> QED BY <3>3, SentinelsAssumption
  <2>4. (Structure /\ Durable /\ record # None => Recovered = InFile)'
    BY RecoveredRecord, PTL
  <2>5. pc = "idle"
    BY <1>0 DEF Structure, Durable
  <2>6. InFile' = GoodPrefix(disk[r].lines)
    BY <2>1, <2>5 DEF InFile
  <2> QED BY <2>1, <2>2, <2>3, <2>4, <2>6
<1>2. CASE LoadQuarantine(r)
  <2>1. /\ disk[r] # None /\ ~Loadable(disk[r]) /\ disk' = [disk EXCEPT ![r] = None]
        /\ committed' = committed
    BY <1>2 DEF LoadQuarantine
  <2>2. Recovered = <<>>
    BY <2>1 DEF Recovered, LiveFile, Durable, OneHome, Roots
  <2>3. \A q \in Roots : disk'[q] = None
    BY <2>1 DEF Durable, OneHome, Structure, TypeOK, Roots
  <2>4. Recovered' = <<>>
    BY <2>3 DEF Recovered, LiveFile, Roots
  <2> QED BY <2>1, <2>2, <2>4
<1>3. CASE LoadNothing(r)
  BY <1>3, RecoveredSame DEF LoadNothing
<1>4. CASE LoadFails(r)
  BY <1>4 DEF LoadFails, CleanKills
<1> QED BY <1>1, <1>2, <1>3, <1>4 DEF LoadStep

(* Requests that create the Session.  The creation events are found before *)
(* they are shown.                                                         *)
LEMMA RecoveredCreate ==
  ASSUME Structure, Durable, CleanKills, Structure', Durable',
         NEW c \in Creators, CreateStep(c)
  PROVE  \/ Recovered' = Recovered /\ committed' \in {committed, Recovered}
         \/ /\ CreateWrite(c) /\ committed' = committed /\ Recovered = <<>>
            /\ \A i \in DOMAIN Recovered' : Recovered'[i].type \in CreationTypes
<1>1. CASE CreateCheck(c) \/ CreateEmit(c)
  BY <1>1, RecoveredSame DEF CreateCheck, CreateEmit
<1>2. CASE CreateFails(c)
  BY <1>2, RecoveredSame DEF CreateFails, CleanKills
<1>3. CASE CreateRegister(c)
  <2>1. /\ disk' = disk /\ committed' = announce[c] /\ creates[c] = "written"
        /\ pc' = pc /\ record' = [events |-> announce[c], archived |-> FALSE]
    BY <1>3 DEF CreateRegister
  <2>2. /\ announce[c] \in Seq(Event) /\ ValidLog(announce[c]) /\ disk["archive"] = None
        /\ disk["active"] # None /\ disk["active"].lines = announce[c]
        /\ disk["active"].ended /\ disk["active"] \in File
    <3>1. store = "open" /\ record = None
      BY <2>1 DEF Structure, Durable
    <3> QED BY <2>1, <3>1 DEF Structure, TypeOK, Durable, Roots
  <2>3. Recovered = announce[c]
    BY <2>2, CleanFile DEF Recovered, LiveFile
  <2> QED BY <2>1, <2>3, RecoveredSame
<1>4. CASE CreateWrite(c)
  <2>1. PICK now \in 1..MaxTime :
          disk' = [disk EXCEPT !["active"] = Written(EmptyFile, Encoded(CreationEvents(now)))]
    BY <1>4 DEF CreateWrite
  <2>2. /\ creates[c] = "checked" /\ disk["active"] = None /\ committed' = committed
        /\ disk["archive"] = None
    BY <1>4 DEF CreateWrite, Durable, Structure
  <2>3. Recovered = <<>>
    BY <2>2, RecoveredNothing DEF Roots
  <2> DEFINE events == CreationEvents(now)
  <2>4. /\ events \in Seq(Event) /\ events # <<>> /\ ValidLog(events)
        /\ \A i \in DOMAIN events : events[i].type \in CreationTypes
    <3>1. ValidLog(events)
      BY ConstantsAssumption DEF ValidLog, CreationEvents
    <3>2. DOMAIN events = 1..2 /\ events[1].type \in CreationTypes /\ events[2].type \in CreationTypes
      BY DEF CreationEvents, CreationTypes
    <3> HIDE DEF events
    <3>3. events \in Seq(Event) /\ Len(events) = 2
      BY CreationEventsType DEF events
    <3>4. events # <<>>
      BY <3>3
    <3>5. ValidLog(events) /\ DOMAIN events = 1..2
          /\ events[1].type \in CreationTypes /\ events[2].type \in CreationTypes
      BY <3>1, <3>2 DEF events
    <3>6. \A i \in DOMAIN events : events[i].type \in CreationTypes
      BY <3>5
    <3> QED BY <3>3, <3>4, <3>5, <3>6
  <2> HIDE DEF events
  <2> DEFINE file == Written(EmptyFile, Encoded(events))
  <2>5. file.lines = events /\ file.ended /\ file \in File
    <3>1. file.lines = events /\ file.ended
      BY <2>4 DEF Written, EmptyFile, Encoded, Chunk
    <3> QED BY <2>4, <3>1, EmptyFileType, EncodedType, WrittenType
  <2>6. disk'["active"] = file /\ disk'["archive"] = None
    BY <2>1, <2>2 DEF Structure, TypeOK, Roots, events
  <2>7. LiveFile' = file /\ file # None
    BY <2>5, <2>6, SentinelsAssumption DEF LiveFile
  <2>8. Loadable(file) /\ GoodPrefix(file.lines) = events
    BY <2>4, <2>5, CleanFile
  <2>9. Recovered' = events
    BY <2>7, <2>8 DEF Recovered, Loadable
  <2> QED BY <1>4, <2>2, <2>3, <2>4, <2>9
<1> QED BY <1>1, <1>2, <1>3, <1>4 DEF CreateStep

(* Appends.  A batch is found as soon as it is written, and shown once it  *)
(* has been synced.                                                        *)
LEMMA RecoveredAppend ==
  ASSUME Structure, Durable, CleanKills, Structure', Durable',
         NEW c \in Calls, AppendStep(c)
  PROVE  \/ Recovered' = Recovered /\ committed' \in {committed, Recovered}
         \/ /\ AppendWrite(c) /\ committed' = committed
            /\ batch' \in Seq(Event) /\ batch' # <<>>
            /\ Recovered' = Recovered \o batch'
            /\ \A i \in DOMAIN batch' : batch'[i].type = c
<1>0. /\ Running(c) /\ record # None /\ Recovered = InFile /\ TypeOK
  BY RecoveredRecord
     DEF AppendStep, AppendRefused, AppendWrite, AppendFails, AppendCommit, SyncFails,
         AppendEmit, AppendDone, Running, Structure
<1>1. (Structure /\ Durable /\ record # None => Recovered = InFile)'
  BY RecoveredRecord, PTL
<1>2. CASE AppendRefused(c) \/ SyncFails(c) \/ AppendEmit(c) \/ AppendDone(c)
  BY <1>2, RecoveredSame DEF AppendRefused, SyncFails, AppendEmit, AppendDone
<1>3. CASE AppendFails(c)
  <2>1. /\ record' = record /\ pc = "idle" /\ pc' = "idle" /\ committed' = committed
    BY <1>3 DEF AppendFails, Settle
  <2>2. InFile' = InFile
    BY <2>1 DEF InFile
  <2> QED BY <1>0, <1>1, <2>1, <2>2
<1>4. CASE AppendWrite(c)
  <2>1. PICK n \in 1..MaxBatch, now \in 1..MaxTime : batch' = NewBatch(c, n, now)
    BY <1>4 DEF AppendWrite
  <2>2. /\ pc = "idle" /\ pc' = "syncing" /\ record' = record /\ committed' = committed
    BY <1>4 DEF AppendWrite
  <2>3. InFile = record.events /\ InFile' = record.events \o batch'
    BY <2>2 DEF InFile
  <2>4. batch' \in Seq(Event) /\ Len(batch') = n
    BY <1>0, <2>1, NewBatchType DEF Structure
  <2>5. \A i \in DOMAIN batch' : batch'[i].type = c
    BY <2>1 DEF NewBatch
  <2>6. batch' # <<>>
    BY <2>4, ConstantsAssumption
  <2> QED BY <1>0, <1>1, <1>4, <2>2, <2>3, <2>4, <2>5, <2>6
<1>5. CASE AppendCommit(c)
  <2>1. /\ pc = "syncing" /\ pc' = "emitting" /\ committed' = record.events \o batch
        /\ record' = [record EXCEPT !.events = @ \o batch]
    BY <1>5 DEF AppendCommit
  <2>2. record \in [events : Seq(Event), archived : BOOLEAN] /\ batch \in Seq(Event)
    BY <1>0 DEF TypeOK
  <2>3. record.events \o batch \in Seq(Event)
    BY <2>2
  <2>4. /\ record'.events = record.events \o batch
        /\ record' \in [events : Seq(Event), archived : BOOLEAN]
    BY <2>1, <2>2, <2>3
  <2>5. record' # None
    BY <2>4, SentinelsAssumption
  <2>6. InFile = record.events \o batch /\ InFile' = record.events \o batch
    BY <2>1, <2>4 DEF InFile
  <2> QED BY <1>0, <1>1, <2>1, <2>5, <2>6
<1> QED BY <1>2, <1>3, <1>4, <1>5 DEF AppendStep

LEMMA RecoveredArchive ==
  ASSUME Structure, Durable, Structure', Durable', NEW a \in Archivals, ArchiveStep(a)
  PROVE  Recovered' = Recovered /\ committed' = committed
<1>0. /\ record # None /\ Recovered = InFile /\ TypeOK /\ pc = "idle" /\ pc' = "idle"
      /\ committed' = committed
  BY RecoveredRecord DEF ArchiveStep, Archive, ArchiveFails, Running, Structure, Settle
<1>1. (Structure /\ Durable /\ record # None => Recovered = InFile)'
  BY RecoveredRecord, PTL
<1>2. record \in [events : Seq(Event), archived : BOOLEAN]
  BY <1>0 DEF TypeOK
<1>3. record' \in {record, [record EXCEPT !.archived = TRUE]}
  BY DEF ArchiveStep, Archive, ArchiveFails
<1>4. record'.events = record.events /\ record' # None
  BY <1>0, <1>2, <1>3, SentinelsAssumption
<1>5. InFile' = InFile
  BY <1>0, <1>4 DEF InFile
<1> QED BY <1>0, <1>1, <1>4, <1>5

(* Kills.  What a write had reached is found: part of the creation events  *)
(* (then nothing loads) or all of them, any part of a batch.               *)
LEMMA RecoveredKillInCreate ==
  ASSUME Structure, Durable, CleanKills, NEW c \in Creators, KillInCreate(c)
  PROVE  /\ committed' = committed /\ Recovered = <<>>
         /\ \A i \in DOMAIN Recovered' : Recovered'[i].type \in CreationTypes
<1>1. /\ creates[c] = "checked" /\ disk["active"] = None /\ committed' = committed
      /\ disk["archive"] = None
  BY DEF KillInCreate, ProcessEnds, Durable, Structure
<1>2. Recovered = <<>>
  BY <1>1, RecoveredNothing DEF Roots
<1>3. PICK now \in 1..MaxTime : \E cut \in Cuts(CreationEvents(now)) :
        disk' = [disk EXCEPT !["active"] = Written(EmptyFile, cut)]
  BY DEF KillInCreate
<1>4. PICK cut \in Cuts(CreationEvents(now)) :
        disk' = [disk EXCEPT !["active"] = Written(EmptyFile, cut)]
  BY <1>3
<1> DEFINE events == CreationEvents(now)
           file == Written(EmptyFile, cut)
<1>5. disk'["active"] = file /\ disk'["archive"] = None
  BY <1>1, <1>4 DEF Structure, TypeOK, Roots
<1>6. /\ events \in Seq(Event) /\ Len(events) = 2
      /\ \A i \in 1..2 : events[i].type \in CreationTypes
  <2>1. events[1].type \in CreationTypes /\ events[2].type \in CreationTypes
    BY DEF CreationEvents, CreationTypes
  <2>2. events \in Seq(Event) /\ Len(events) = 2
    BY CreationEventsType
  <2> HIDE DEF events
  <2> QED BY <2>1, <2>2
<1> HIDE DEF events, file
<1>7. PICK k \in 0..2 :
        \/ file.lines = <<>> \o SubSeq(events, 1, k) /\ file.ended
        \/ file.lines = Append(<<>> \o SubSeq(events, 1, k), Torn) /\ ~file.ended
  <2>1. EmptyFile.lines = <<>> /\ EmptyFile.ended /\ <<>> \in Seq(Event)
    BY DEF EmptyFile
  <2>2. \E k \in 0..Len(events) :
          \/ file.lines = <<>> \o SubSeq(events, 1, k) /\ file.ended
          \/ file.lines = Append(<<>> \o SubSeq(events, 1, k), Torn) /\ ~file.ended
    BY <1>4, <1>6, <2>1, EmptyFileType, WrittenCut DEF events, file
  <2> QED BY <1>6, <2>2
<1> DEFINE part == SubSeq(events, 1, k)
<1>8. /\ part \in Seq(Event) /\ <<>> \o part = part
      /\ \A i \in DOMAIN part : part[i] = events[i] /\ i \in 1..2
  <2>1. part \in Seq(Event) /\ \A i \in DOMAIN part : part[i] = events[i] /\ i \in 1..2
    <3>1. \A s \in Seq(Event) : \A j \in 0..Len(s) :
            /\ SubSeq(s, 1, j) \in Seq(Event)
            /\ \A i \in DOMAIN SubSeq(s, 1, j) : SubSeq(s, 1, j)[i] = s[i] /\ i \in 1..Len(s)
      OBVIOUS
    <3> QED BY <1>6, <1>7, <3>1
  <2>2. \A s \in Seq(Event) : <<>> \o s = s
    OBVIOUS
  <2> QED BY <2>1, <2>2
<1> HIDE DEF part
<1>9. GoodPrefix(file.lines) = part
  <2>1. file.lines = part \/ file.lines = Append(part, Torn)
    BY <1>7, <1>8 DEF part
  <2> QED BY <1>8, <2>1, NoTornLine, OneTornLine
<1>10. Recovered' \in {<<>>, GoodPrefix(file.lines)}
  BY <1>5 DEF Recovered, LiveFile
<1>11. \A i \in DOMAIN part : part[i].type \in CreationTypes
  BY <1>6, <1>8
<1>12. CASE Recovered' = <<>>
  BY <1>1, <1>2, <1>12
<1>13. CASE Recovered' = part
  BY <1>1, <1>2, <1>11, <1>13
<1> QED BY <1>9, <1>10, <1>12, <1>13

LEMMA RecoveredKillInAppend ==
  ASSUME Structure, Durable, CleanKills, NEW c \in Calls, KillInAppend(c)
  PROVE  /\ committed' = committed /\ Running(c) /\ pc = "idle"
         /\ \E part \in Seq(Event) :
              /\ Recovered' = Recovered \o part
              /\ \A i \in DOMAIN part : part[i].type = c
<1>1. /\ record # None /\ ~record.archived /\ pc = "idle" /\ Running(c) /\ TypeOK
      /\ committed' = committed
  BY DEF KillInAppend, Running, Structure, ProcessEnds
<1>2. /\ Home = "active" /\ InFile = record.events /\ ValidLog(record.events)
      /\ disk["active"].lines = record.events /\ disk["active"].ended
  BY <1>1 DEF Durable, Home, InFile
<1>3. disk["active"] \in File /\ disk["archive"] = None /\ record.events \in Seq(Event)
  BY <1>1, <1>2 DEF TypeOK, Structure, Durable, OneHome, Roots
<1>4. Recovered = record.events
  BY <1>1, <1>2, RecoveredRecord
<1>5. PICK n \in 1..MaxBatch, now \in 1..MaxTime : \E cut \in Cuts(NewBatch(c, n, now)) :
        disk' = [disk EXCEPT !["active"] = Written(@, cut)]
  BY <1>2 DEF KillInAppend
<1>6. PICK cut \in Cuts(NewBatch(c, n, now)) :
        disk' = [disk EXCEPT !["active"] = Written(@, cut)]
  BY <1>5
<1> DEFINE events == NewBatch(c, n, now)
           file == Written(disk["active"], cut)
<1>7. disk'["active"] = file /\ disk'["archive"] = None
  BY <1>1, <1>3, <1>6 DEF TypeOK, Roots
<1>8. events \in Seq(Event) /\ Len(events) = n
  BY <1>1, <1>2, NewBatchType DEF ValidLog
<1>9. cut \in [lines : Seq(Line), ended : BOOLEAN]
  BY <1>6, <1>8, CutsType
<1>10. file \in File
  BY <1>3, <1>9, WrittenType
<1>11. ASSUME NEW k \in 0..n
       PROVE  SubSeq(events, 1, k) \in Seq(Event) /\ ValidLog(record.events \o SubSeq(events, 1, k))
  BY <1>1, <1>2, NewBatchValid
<1>12. \A i \in 1..n : events[i].type = c
  BY DEF NewBatch
<1> HIDE DEF events
<1>13. PICK k \in 0..n :
         \/ file.lines = record.events \o SubSeq(events, 1, k) /\ file.ended
         \/ file.lines = Append(record.events \o SubSeq(events, 1, k), Torn) /\ ~file.ended
  <2>1. cut \in Cuts(events)
    BY <1>6 DEF events
  <2>2. \E k \in 0..Len(events) :
          \/ file.lines = record.events \o SubSeq(events, 1, k) /\ file.ended
          \/ file.lines = Append(record.events \o SubSeq(events, 1, k), Torn) /\ ~file.ended
    BY <1>2, <1>3, <1>8, <2>1, WrittenCut
  <2> QED BY <1>8, <2>2
<1> HIDE DEF file
<1> DEFINE part == SubSeq(events, 1, k)
<1>14. part \in Seq(Event) /\ ValidLog(record.events \o part)
  BY <1>11
<1>15. \A i \in DOMAIN part : part[i].type = c
  <2>1. \A i \in DOMAIN part : part[i] = events[i] /\ i \in 1..n
    BY <1>8, <1>13, ConstantsAssumption
  <2> QED BY <1>12, <2>1
<1>16. \/ file.lines = record.events \o part /\ file.ended
       \/ file.lines = Append(record.events \o part, Torn)
  BY <1>13
<1> HIDE DEF part
<1>17. record.events \o part \in Seq(Event)
  BY <1>3, <1>14
<1>18. Loadable(file) /\ GoodPrefix(file.lines) = record.events \o part
  <2>1. CASE file.lines = record.events \o part /\ file.ended
    BY <1>10, <1>14, <1>17, <2>1, CleanFile
  <2>2. CASE file.lines = Append(record.events \o part, Torn)
    BY <1>10, <1>14, <1>17, <2>2, TornFile
  <2> QED BY <1>16, <2>1, <2>2
<1>19. LiveFile' = file /\ file # None
  BY <1>7, <1>10, SentinelsAssumption DEF LiveFile
<1>20. Recovered' = record.events \o part
  BY <1>18, <1>19 DEF Recovered, Loadable
<1> QED BY <1>1, <1>4, <1>14, <1>15, <1>20

-----------------------------------------------------------------------------
(* Every step of the store, as a step of its log.                          *)

(* The log keeps its events; readers are shown nothing, or all of it.      *)
Shown == Recovered' = Recovered /\ committed' \in {committed, Recovered}

(* The first two events of the Session appear.                             *)
Born ==
  /\ committed' = committed /\ Recovered = <<>>
  /\ \A i \in DOMAIN Recovered' : Recovered'[i].type \in CreationTypes

(* Events of one call appear behind all others.                            *)
GrownBy(c) ==
  /\ committed' = committed
  /\ \E part \in Seq(Event) :
       /\ Recovered' = Recovered \o part
       /\ \A i \in DOMAIN part : part[i].type = c

LEMMA LogSteps ==
  ASSUME Structure, Durable, CleanKills, Structure', Durable', [Next]_vars
  PROVE  Shown \/ Born \/ \E c \in Calls : GrownBy(c)
<1>1. CASE UNCHANGED vars
  BY <1>1, RecoveredSame DEF vars, Shown
<1>2. CASE Start
  BY <1>2, RecoveredSame DEF Start, Shown
<1>3. CASE Kill
  BY <1>3, RecoveredSame DEF Kill, ProcessEnds, Shown
<1>4. CASE PowerLoss \/ \E r \in Roots : KillInRepair(r)
  BY <1>4 DEF PowerLoss, KillInRepair, CleanKills
<1>5. CASE \E c \in Creators : KillInCreate(c)
  BY <1>5, RecoveredKillInCreate DEF Born
<1>6. CASE \E c \in Calls : KillInAppend(c)
  BY <1>6, RecoveredKillInAppend DEF GrownBy
<1>7. CASE \E r \in Roots : LoadStep(r)
  BY <1>7, RecoveredLoad DEF Shown
<1>8. CASE \E c \in Creators : CreateStep(c)
  BY <1>8, RecoveredCreate DEF Shown, Born
<1>9. CASE \E o \in Ops : Submit(o)
  BY <1>9, RecoveredSame DEF Submit, Shown
<1>10. CASE \E c \in Calls : AppendStep(c)
  BY <1>10, RecoveredAppend DEF Shown, GrownBy
<1>11. CASE \E a \in Archivals : ArchiveStep(a)
  BY <1>11, RecoveredArchive DEF Shown
<1> QED BY <1>1, <1>2, <1>3, <1>4, <1>5, <1>6, <1>7, <1>8, <1>9, <1>10, <1>11 DEF Next, End

LEMMA RefinesStep ==
  ASSUME Structure, Durable, CleanKills, Structure', Durable', [Next]_vars
  PROVE  [Abstract!Next]_<<Recovered, committed>>
<1>1. Recovered \in Seq(Event) /\ committed \in Seq(Event) /\ Extends(committed, Recovered)
  BY RecoveredType, DurableImpliesSurvives DEF Structure, TypeOK, CommittedSurvives
<1>2. (Structure => Recovered \in Seq(Event))'
  BY RecoveredType, PTL
<1>3. CASE Shown
  <2>1. CASE committed' = committed
    BY <1>3, <2>1 DEF Shown
  <2>2. CASE committed' = Recovered /\ committed' # committed
    <3>1. Extends(committed', Recovered)
      BY <1>1, <2>2, ExtendsSelf
    <3> QED BY <1>1, <1>3, <2>2, <3>1 DEF Shown, Abstract!Next, Abstract!Reveal, Abstract!Extends, Extends
  <2> QED BY <1>3, <2>1, <2>2 DEF Shown
<1>4. ASSUME committed' = committed, Extends(Recovered, Recovered')
      PROVE  [Abstract!Next]_<<Recovered, committed>>
  BY <1>4 DEF Abstract!Next, Abstract!Write, Abstract!Extends, Extends
<1>5. CASE Born
  BY <1>2, <1>4, <1>5, ExtendsSelf DEF Born
<1>6. CASE \E c \in Calls : GrownBy(c)
  BY <1>1, <1>4, <1>6, ExtendsSelf DEF GrownBy
<1> QED BY <1>3, <1>5, <1>6, LogSteps

(* As long as there are only clean kills, the store is a durable log: what *)
(* a restart would find only ever grows at its end, and what readers have  *)
(* been shown is always a prefix of it that grows too.                     *)
THEOREM Refinement == ASSUME CleanKills PROVE Spec => ImplementsDurableLog
<1>1. Init => Structure /\ Durable
  BY StructureInit, DurableInit
<1>2. (Structure /\ Durable) /\ [Next]_vars => (Structure /\ Durable)'
  BY StructureNext, DurableNext
<1>3. Init => Abstract!Init
  <2>1. Init => \A r \in Roots : disk[r] = None
    BY DEF Init
  <2> QED BY <2>1, RecoveredNothing DEF Init, Abstract!Init
<1>4. Structure /\ Durable /\ (Structure /\ Durable)' /\ [Next]_vars
        => [Abstract!Next]_(Abstract!vars)
  BY RefinesStep DEF Abstract!vars
<1> QED BY <1>1, <1>2, <1>3, <1>4, PTL DEF Spec, ImplementsDurableLog, Abstract!Spec

-----------------------------------------------------------------------------
(* Every call's events are one block of the log                            *)

PlacesIn(log, c) == { i \in DOMAIN log : log[i].type = c }

OneBlock(log, c) == \A i, j \in PlacesIn(log, c) : \A k \in i..j : k \in PlacesIn(log, c)

(* Nothing of the call has been written yet, as far as this process knows. *)
Untouched(c) ==
  \/ outcome[c] = "none"
  \/ outcome[c] = "queued" /\ ~(pc # "idle" /\ Running(c))

(* All of the call's events have been written.                             *)
Landed(c) ==
  \/ outcome[c] = "acked"
  \/ pc # "idle" /\ Running(c)

(* No call is in the queue twice, or has been answered while it is.        *)
QueuedOnce ==
  /\ \A i, j \in DOMAIN queue : queue[i] = queue[j] => i = j
  /\ \A i \in DOMAIN queue : outcome[queue[i]] = "queued"

Placed ==
  \A c \in Calls :
    /\ OneBlock(Recovered, c)
    /\ Untouched(c) => PlacesIn(Recovered, c) = {}
    /\ Landed(c) => PlacesIn(Recovered, c) # {}

(* Events of other kinds behind the log leave the places of a call alone.  *)
LEMMA PlacesOfOthers ==
  ASSUME NEW log \in Seq(Event), NEW part \in Seq(Event), NEW c, NEW d, c # d,
         \A i \in DOMAIN part : part[i].type = d
  PROVE  PlacesIn(log \o part, c) = PlacesIn(log, c)
<1>1. DOMAIN log = 1..Len(log) /\ DOMAIN part = 1..Len(part) /\ Len(log) \in Nat /\ Len(part) \in Nat
  OBVIOUS
<1>2. ASSUME NEW i \in (Len(log) + 1)..(Len(log) + Len(part))
      PROVE  (log \o part)[i].type = d
  <2>1. i - Len(log) \in 1..Len(part)
    BY <1>1
  <2> QED BY <1>1, <2>1, ConcatParts
<1>3. DOMAIN (log \o part) = 1..(Len(log) + Len(part)) /\ \A i \in 1..Len(log) : (log \o part)[i] = log[i]
  BY ConcatParts
<1>4. 1..(Len(log) + Len(part)) = 1..Len(log) \cup (Len(log) + 1)..(Len(log) + Len(part))
  BY <1>1
<1> QED BY <1>1, <1>2, <1>3, <1>4 DEF PlacesIn

(* A call that had no place in the log takes those behind it.              *)
LEMMA PlacesOfOwn ==
  ASSUME NEW log \in Seq(Event), NEW part \in Seq(Event), NEW c,
         PlacesIn(log, c) = {}, \A i \in DOMAIN part : part[i].type = c
  PROVE  PlacesIn(log \o part, c) = (Len(log) + 1)..(Len(log) + Len(part))
<1>1. DOMAIN log = 1..Len(log) /\ DOMAIN part = 1..Len(part) /\ Len(log) \in Nat /\ Len(part) \in Nat
  OBVIOUS
<1>2. ASSUME NEW i \in (Len(log) + 1)..(Len(log) + Len(part))
      PROVE  (log \o part)[i].type = c
  <2>1. i - Len(log) \in 1..Len(part)
    BY <1>1
  <2> QED BY <1>1, <2>1, ConcatParts
<1>3. DOMAIN (log \o part) = 1..(Len(log) + Len(part)) /\ \A i \in 1..Len(log) : (log \o part)[i] = log[i]
  BY ConcatParts
<1>4. 1..(Len(log) + Len(part)) = 1..Len(log) \cup (Len(log) + 1)..(Len(log) + Len(part))
  BY <1>1
<1>5. \A i \in 1..Len(log) : log[i].type # c
  BY <1>1 DEF PlacesIn
<1> QED BY <1>2, <1>3, <1>4, <1>5 DEF PlacesIn

(* A step that writes no event of a call, and treats none as written.      *)
LEMMA PlacedKept ==
  ASSUME Structure, Placed, Shown \/ Born,
         \A c \in Calls : (Untouched(c)' => Untouched(c)) /\ (Landed(c)' => Landed(c))
  PROVE  Placed'
<1>1. ASSUME NEW c \in Calls
      PROVE  PlacesIn(Recovered', c) = PlacesIn(Recovered, c)
  <2>1. CASE Shown
    BY <2>1 DEF Shown
  <2>2. CASE Born
    <3>1. PlacesIn(Recovered, c) = {}
      BY <2>2 DEF Born, PlacesIn
    <3>2. PlacesIn(Recovered', c) = {}
      BY <2>2, SentinelsAssumption DEF Born, PlacesIn
    <3> QED BY <3>1, <3>2
  <2> QED BY <2>1, <2>2
<1>2. ASSUME NEW c \in Calls
      PROVE  /\ OneBlock(Recovered', c)
             /\ Untouched(c)' => PlacesIn(Recovered', c) = {}
             /\ Landed(c)' => PlacesIn(Recovered', c) # {}
  BY <1>1 DEF Placed, OneBlock
<1> QED BY <1>2 DEF Placed, OneBlock, PlacesIn

(* A step that writes events of one call.                                  *)
LEMMA PlacedGrown ==
  ASSUME Structure, Placed, NEW c \in Calls, NEW part \in Seq(Event),
         Recovered' = Recovered \o part, \A i \in DOMAIN part : part[i].type = c,
         Untouched(c), ~Untouched(c)', Landed(c)' => part # <<>>,
         \A d \in Calls \ {c} : (Untouched(d)' => Untouched(d)) /\ (Landed(d)' => Landed(d))
  PROVE  Placed'
<1>1. Recovered \in Seq(Event)
  BY RecoveredType
<1>2. ASSUME NEW d \in Calls
      PROVE  /\ OneBlock(Recovered', d)
             /\ Untouched(d)' => PlacesIn(Recovered', d) = {}
             /\ Landed(d)' => PlacesIn(Recovered', d) # {}
  <2>1. CASE d # c
    <3>1. PlacesIn(Recovered', d) = PlacesIn(Recovered, d)
      BY <1>1, <2>1, PlacesOfOthers
    <3> QED BY <2>1, <3>1 DEF Placed, OneBlock
  <2>2. CASE d = c
    <3>1. PlacesIn(Recovered, c) = {}
      BY DEF Placed
    <3>2. PlacesIn(Recovered', c) = (Len(Recovered) + 1)..(Len(Recovered) + Len(part))
      BY <1>1, <3>1, PlacesOfOwn
    <3>3. Len(Recovered) \in Nat /\ Len(part) \in Nat /\ (part # <<>> => Len(part) >= 1)
      BY <1>1
    <3>4. OneBlock(Recovered', c)
      BY <3>2, <3>3 DEF OneBlock
    <3>5. part # <<>> => PlacesIn(Recovered', c) # {}
      <4>1. part # <<>> => Len(Recovered) + 1 \in (Len(Recovered) + 1)..(Len(Recovered) + Len(part))
        BY <3>3
      <4> QED BY <3>2, <4>1
    <3> QED BY <2>2, <3>4, <3>5
  <2> QED BY <2>1, <2>2
<1> QED BY <1>2 DEF Placed, OneBlock, PlacesIn

LEMMA QueuedOnceNext ==
  ASSUME Structure, Durable, QueuedOnce, [Next]_vars
  PROVE  QueuedOnce'
<1>0. TypeOK /\ queue \in Seq(Ops)
  BY DEF Structure, TypeOK
<1>1. CASE UNCHANGED <<queue, outcome>>
  BY <1>1 DEF QueuedOnce
<1>2. CASE ProcessEnds
  BY <1>2 DEF QueuedOnce, ProcessEnds
<1>3. ASSUME NEW o \in Ops, Submit(o)
      PROVE  QueuedOnce'
  <2>1. /\ queue' = Append(queue, o) /\ outcome' = [outcome EXCEPT ![o] = "queued"]
        /\ outcome[o] = "none"
    BY <1>3 DEF Submit
  <2>2. \A i \in DOMAIN queue : queue[i] # o
    BY <2>1 DEF QueuedOnce
  <2>3. /\ DOMAIN queue' = 1..(Len(queue) + 1) /\ Len(queue) \in Nat /\ DOMAIN queue = 1..Len(queue)
        /\ \A i \in 1..Len(queue) : queue'[i] = queue[i]
        /\ queue'[Len(queue) + 1] = o
    BY <1>0, <2>1
  <2>4. \A i \in DOMAIN queue' : i \in DOMAIN queue \/ i = Len(queue) + 1
    BY <2>3
  <2>5. \A i, j \in DOMAIN queue' : queue'[i] = queue'[j] => i = j
    BY <2>2, <2>3, <2>4 DEF QueuedOnce
  <2>6. \A i \in DOMAIN queue' : outcome'[queue'[i]] = "queued"
    BY <1>0, <2>1, <2>2, <2>3, <2>4 DEF QueuedOnce, TypeOK
  <2> QED BY <2>5, <2>6 DEF QueuedOnce
<1>4. ASSUME NEW o \in Ops, NEW result, Running(o), Settle(o, result)
      PROVE  QueuedOnce'
  <2>1. /\ queue' = Tail(queue) /\ outcome' = [outcome EXCEPT ![o] = result]
        /\ queue # <<>> /\ queue[1] = o
    BY <1>4 DEF Settle, Running
  <2>2. /\ DOMAIN queue = 1..Len(queue) /\ Len(queue) \in Nat /\ Len(queue) >= 1
        /\ DOMAIN queue' = 1..(Len(queue) - 1)
        /\ \A i \in 1..(Len(queue) - 1) : queue'[i] = queue[i + 1]
    BY <1>0, <2>1
  <2>3. \A i \in DOMAIN queue' : i + 1 \in DOMAIN queue /\ queue'[i] = queue[i + 1] /\ i + 1 # 1
    BY <2>2
  <2>4. 1 \in DOMAIN queue
    BY <2>2
  <2>5. \A i \in DOMAIN queue' : queue'[i] # o
    BY <2>1, <2>3, <2>4 DEF QueuedOnce
  <2>6. \A i \in DOMAIN queue' : outcome'[queue'[i]] = "queued"
    BY <1>0, <2>1, <2>3, <2>5 DEF QueuedOnce, TypeOK
  <2>7. ASSUME NEW i \in DOMAIN queue', NEW j \in DOMAIN queue', queue'[i] = queue'[j]
        PROVE  i = j
    <3>1. i + 1 = j + 1
      BY <2>3, <2>7 DEF QueuedOnce
    <3> QED BY <2>2, <3>1
  <2> QED BY <2>6, <2>7 DEF QueuedOnce
<1>5. CASE End
  BY <1>2, <1>5 DEF End, Kill, PowerLoss, KillInCreate, KillInAppend, KillInRepair
<1>6. CASE Start \/ \E r \in Roots : LoadStep(r)
  BY <1>1, <1>6 DEF Start, LoadStep, LoadKeep, LoadQuarantine, LoadNothing, LoadFails, storeVars
<1>7. CASE \E c \in Creators : CreateStep(c)
  BY <1>1, <1>7 DEF CreateStep, CreateCheck, CreateWrite, CreateFails, CreateRegister, CreateEmit
<1>8. ASSUME NEW c \in Calls, AppendStep(c) PROVE QueuedOnce'
  <2>1. CASE AppendWrite(c) \/ AppendCommit(c) \/ AppendEmit(c)
    BY <1>1, <2>1 DEF AppendWrite, AppendCommit, AppendEmit
  <2>2. CASE AppendRefused(c) \/ AppendFails(c) \/ SyncFails(c) \/ AppendDone(c)
    BY <1>4, <2>2 DEF AppendRefused, AppendFails, SyncFails, AppendDone, Ops
  <2> QED BY <1>8, <2>1, <2>2 DEF AppendStep
<1>9. CASE \E a \in Archivals : ArchiveStep(a)
  BY <1>4, <1>9 DEF ArchiveStep, Archive, ArchiveFails, Ops
<1>10. CASE UNCHANGED vars
  BY <1>1, <1>10 DEF vars, storeVars
<1> QED BY <1>3, <1>5, <1>6, <1>7, <1>8, <1>9, <1>10 DEF Next

LEMMA PlacedAppend ==
  ASSUME Structure, Durable, CleanKills, QueuedOnce, Placed, Structure', Durable',
         NEW c \in Calls, AppendStep(c)
  PROVE  Placed'
<1>0. TypeOK /\ queue # <<>> /\ Head(queue) = c /\ queue \in Seq(Ops) /\ c \in Ops
  BY DEF AppendStep, AppendRefused, AppendWrite, AppendFails, AppendCommit, SyncFails,
         AppendEmit, AppendDone, Running, Structure, TypeOK, Ops
<1>1. outcome[c] = "queued"
  <2>1. 1 \in DOMAIN queue /\ queue[1] = c
    BY <1>0
  <2> QED BY <2>1 DEF QueuedOnce
<1>2. CASE AppendWrite(c)
  <2>1. \/ Recovered' = Recovered /\ committed' \in {committed, Recovered}
        \/ /\ batch' \in Seq(Event) /\ batch' # <<>> /\ Recovered' = Recovered \o batch'
           /\ \A i \in DOMAIN batch' : batch'[i].type = c
    BY RecoveredAppend
  <2>2. UNCHANGED <<queue, outcome>> /\ pc = "idle" /\ pc' = "syncing"
    BY <1>2 DEF AppendWrite
  <2>3. Untouched(c) /\ ~Untouched(c)'
    BY <1>0, <1>1, <2>2 DEF Untouched, Running
  <2>4. \A d \in Calls \ {c} : (Untouched(d)' => Untouched(d)) /\ (Landed(d)' => Landed(d))
    BY <1>0, <2>2 DEF Untouched, Landed, Running
  <2>5. Recovered' # Recovered
    <3>1. /\ record # None /\ Recovered = record.events /\ pc' = "syncing" /\ record' = record
      BY <1>0, <1>2, RecoveredRecord DEF AppendWrite, Structure, InFile
    <3>2. (Structure /\ Durable /\ record # None => Recovered = InFile)'
      BY RecoveredRecord, PTL
    <3>3. Recovered' = Recovered \o batch'
      BY <3>1, <3>2 DEF InFile
    <3>4. PICK n \in 1..MaxBatch, now \in 1..MaxTime : batch' = NewBatch(c, n, now)
      BY <1>2 DEF AppendWrite
    <3>5. Len(batch') = n /\ batch' \in Seq(Event) /\ n >= 1 /\ record.events \in Seq(Event)
      BY <1>0, <3>1, <3>4, NewBatchType, ConstantsAssumption DEF Structure, TypeOK
    <3>6. Len(Recovered') = Len(Recovered) + Len(batch') /\ Len(Recovered) \in Nat
      BY <3>1, <3>3, <3>5
    <3> QED BY <3>5, <3>6, ConstantsAssumption
  <2> QED BY <2>1, <2>3, <2>4, <2>5, PlacedGrown
<1>3. ASSUME ~AppendWrite(c) PROVE Shown
  BY <1>3, RecoveredAppend DEF Shown
<1>4. CASE AppendCommit(c) \/ AppendEmit(c)
  <2>1. UNCHANGED <<queue, outcome>> /\ pc # "idle" /\ pc' # "idle"
    BY <1>4 DEF AppendCommit, AppendEmit
  <2>2. \A d \in Calls : (Untouched(d)' => Untouched(d)) /\ (Landed(d)' => Landed(d))
    BY <2>1 DEF Untouched, Landed, Running
  <2>3. ~AppendWrite(c)
    BY <2>1 DEF AppendWrite
  <2> QED BY <1>3, <2>2, <2>3, PlacedKept
<1>5. ASSUME NEW result \in {"acked", "rejected"}, Settle(c, result), ~AppendWrite(c),
             result = "acked" => pc # "idle"
      PROVE  Placed'
  <2>1. pc' = "idle" /\ outcome' = [outcome EXCEPT ![c] = result] /\ outcome'[c] = result
    BY <1>0, <1>5 DEF Settle, TypeOK
  <2>2. \A d \in Calls : (Untouched(d)' => Untouched(d)) /\ (Landed(d)' => Landed(d))
    <3> SUFFICES ASSUME NEW d \in Calls
                 PROVE  (Untouched(d)' => Untouched(d)) /\ (Landed(d)' => Landed(d))
      OBVIOUS
    <3>1. CASE d = c
      BY <1>0, <1>5, <2>1, <3>1 DEF Untouched, Landed, Running
    <3>2. CASE d # c
      <4>1. outcome'[d] = outcome[d]
        BY <1>0, <2>1, <3>2 DEF TypeOK, Ops
      <4> QED BY <1>0, <2>1, <3>2, <4>1 DEF Untouched, Landed, Running
    <3> QED BY <3>1, <3>2
  <2> QED BY <1>3, <1>5, <2>2, PlacedKept
<1>6. CASE AppendRefused(c) \/ AppendFails(c) \/ AppendDone(c)
  <2>1. AppendRefused(c) \/ AppendFails(c) => Settle(c, "rejected")
    BY DEF AppendRefused, AppendFails
  <2>2. AppendDone(c) => Settle(c, "acked") /\ pc # "idle"
    BY DEF AppendDone
  <2>3. ~AppendWrite(c)
    BY <1>6, <2>1, <2>2 DEF AppendWrite, Settle
  <2> QED BY <1>5, <1>6, <2>1, <2>2, <2>3
<1>7. ~SyncFails(c)
  BY DEF SyncFails, CleanKills
<1> QED BY <1>2, <1>4, <1>6, <1>7 DEF AppendStep

LEMMA PlacedNext ==
  ASSUME Structure, Durable, CleanKills, QueuedOnce, Placed, Structure', Durable', [Next]_vars
  PROVE  Placed'
<1>0. TypeOK /\ queue \in Seq(Ops) /\ (pc # "idle" => queue # <<>>)
  BY DEF Structure, TypeOK, Durable
<1> DEFINE Same == \A c \in Calls : (Untouched(c)' => Untouched(c)) /\ (Landed(c)' => Landed(c))
<1>1. ASSUME UNCHANGED <<queue, pc, outcome>> PROVE Same
  BY <1>1 DEF Untouched, Landed, Running
<1>2. ASSUME ProcessEnds PROVE Same
  BY <1>0, <1>2 DEF ProcessEnds, TypeOK, Ops, Untouched, Landed
<1>3. ASSUME NEW o \in Ops, Submit(o) PROVE Same
  <2>1. /\ queue' = Append(queue, o) /\ outcome' = [outcome EXCEPT ![o] = "queued"]
        /\ outcome[o] = "none" /\ pc' = pc
    BY <1>3 DEF Submit
  <2>2. pc # "idle" => Head(queue') = Head(queue) /\ queue' # <<>>
    BY <1>0, <2>1
  <2>3. ASSUME NEW c \in Calls
        PROVE  (Untouched(c)' => Untouched(c)) /\ (Landed(c)' => Landed(c))
    <3>1. c \in Ops /\ outcome'[c] = IF c = o THEN "queued" ELSE outcome[c]
      BY <1>0, <2>1 DEF TypeOK, Ops
    <3>2. pc # "idle" => (Running(c)' <=> Running(c))
      BY <1>0, <2>2 DEF Running
    <3> QED BY <2>1, <3>1, <3>2 DEF Untouched, Landed
  <2> QED BY <2>3
<1>4. ASSUME NEW a \in Archivals, ArchiveStep(a) PROVE Same
  <2>1. PICK result : Settle(a, result) /\ Running(a) /\ pc = "idle"
    BY <1>4 DEF ArchiveStep, Archive, ArchiveFails
  <2>2. pc' = "idle" /\ \A c \in Calls : outcome'[c] = outcome[c]
    BY <1>0, <2>1, SentinelsAssumption DEF Settle, TypeOK, Ops
  <2> QED BY <2>1, <2>2 DEF Untouched, Landed
<1> HIDE DEF Same
<1>5. ASSUME Same, Shown \/ Born PROVE Placed'
  BY <1>5, PlacedKept DEF Same
<1>6. CASE UNCHANGED vars \/ Start \/ \E r \in Roots : LoadStep(r)
  <2>1. UNCHANGED <<queue, pc, outcome>>
    BY <1>6 DEF vars, Start, LoadStep, LoadKeep, LoadQuarantine, LoadNothing, LoadFails, storeVars
  <2>2. Shown
    BY <1>6, RecoveredSame, RecoveredLoad DEF Shown, vars, Start
  <2> QED BY <1>1, <1>5, <2>1, <2>2
<1>7. CASE Kill \/ \E c \in Creators : KillInCreate(c)
  <2>1. ProcessEnds
    BY <1>7 DEF Kill, KillInCreate
  <2>2. Shown \/ Born
    BY <1>7, RecoveredSame, RecoveredKillInCreate DEF Shown, Born, Kill, ProcessEnds
  <2> QED BY <1>2, <1>5, <2>1, <2>2
<1>8. CASE PowerLoss \/ \E r \in Roots : KillInRepair(r)
  BY <1>8 DEF PowerLoss, KillInRepair, CleanKills
<1>9. ASSUME NEW c \in Calls, KillInAppend(c) PROVE Placed'
  <2>1. PICK part \in Seq(Event) :
          Recovered' = Recovered \o part /\ \A i \in DOMAIN part : part[i].type = c
    BY <1>9, RecoveredKillInAppend
  <2>2. Running(c) /\ pc = "idle" /\ ProcessEnds
    BY <1>9 DEF KillInAppend
  <2>3. outcome[c] = "queued"
    <3>1. 1 \in DOMAIN queue /\ queue[1] = c
      BY <1>0, <2>2 DEF Running
    <3> QED BY <3>1 DEF QueuedOnce
  <2>4. Untouched(c) /\ ~Untouched(c)' /\ ~Landed(c)'
    BY <2>2, <2>3 DEF Untouched, Landed, ProcessEnds, Ops
  <2>5. Same
    BY <1>2, <2>2
  <2> QED BY <2>1, <2>4, <2>5, PlacedGrown DEF Same
<1>10. CASE \E c \in Creators : CreateStep(c)
  <2>1. UNCHANGED <<queue, pc, outcome>>
    BY <1>10 DEF CreateStep, CreateCheck, CreateWrite, CreateFails, CreateRegister, CreateEmit
  <2>2. Shown \/ Born
    BY <1>10, RecoveredCreate DEF Shown, Born
  <2> QED BY <1>1, <1>5, <2>1, <2>2
<1>11. CASE \E o \in Ops : Submit(o)
  BY <1>3, <1>5, <1>11, RecoveredSame DEF Submit, Shown
<1>12. CASE \E c \in Calls : AppendStep(c)
  BY <1>12, PlacedAppend
<1>13. CASE \E a \in Archivals : ArchiveStep(a)
  BY <1>4, <1>5, <1>13, RecoveredArchive DEF Shown
<1> QED BY <1>6, <1>7, <1>8, <1>9, <1>10, <1>11, <1>12, <1>13 DEF Next, End

(* As long as there are only clean kills, an append that was acknowledged  *)
(* is in the log, then and at every later start, and no other append's     *)
(* events are between its own: appends of a Session run one at a time, and *)
(* what a kill cuts off of one is cut off behind it.                       *)
THEOREM Atomicity == ASSUME CleanKills PROVE Spec => []AckedAsOneBlock
<1> DEFINE IInv == Structure /\ Durable /\ QueuedOnce /\ Placed
<1>1. Init => IInv
  <2>1. Init => \A r \in Roots : disk[r] = None
    BY DEF Init
  <2>2. Init => Recovered = <<>>
    BY <2>1, RecoveredNothing
  <2>3. Init => QueuedOnce
    BY DEF Init, QueuedOnce
  <2>4. Init => Placed
    BY <2>2 DEF Init, Placed, OneBlock, PlacesIn, Landed, Running, Ops
  <2> QED BY <2>3, <2>4, StructureInit, DurableInit
<1>2. IInv /\ [Next]_vars => IInv'
  <2> SUFFICES ASSUME IInv, [Next]_vars PROVE IInv'
    OBVIOUS
  <2>1. Structure' /\ Durable'
    BY StructureNext, DurableNext
  <2> QED BY <2>1, QueuedOnceNext, PlacedNext
<1>3. IInv => AckedAsOneBlock
  <2>1. Placed => AckedAsOneBlock
    BY DEF Placed, OneBlock, PlacesIn, Landed, AckedAsOneBlock
  <2> QED BY <2>1
<1> HIDE DEF IInv
<1> QED BY <1>1, <1>2, <1>3, PTL DEF Spec

-----------------------------------------------------------------------------
(* The archive                                                             *)

(* What is in the archive would be loaded as it is.                        *)
Intact(file) == TornLines(file.lines) = {} /\ ValidLog(file.lines)

ArchiveIntact == disk["archive"] # None => Intact(disk["archive"])

LEMMA IntactIsKept ==
  ASSUME NEW file, Intact(file)
  PROVE  Loadable(file) /\ Repaired(file) = file
BY DEF Intact, Loadable, GoodPrefix, Repaired, BadTail

(* Only archiving the Session touches the archive, and puts a whole log    *)
(* where there was none.                                                   *)
LEMMA ArchiveKept ==
  ASSUME Structure, Durable, CleanKills, ArchiveIntact, [Next]_vars
  PROVE  \/ disk'["archive"] = disk["archive"]
         \/ disk["archive"] = None /\ Intact(disk'["archive"])
<1>0. TypeOK /\ DOMAIN disk = Roots /\ disk \in [Roots -> File \cup {None}]
  BY DEF Structure, TypeOK
<1>1. CASE UNCHANGED disk
  BY <1>1
<1>2. CASE \E file : disk' = [disk EXCEPT !["active"] = file]
  BY <1>0, <1>2
<1>3. ASSUME record # None, ~record.archived PROVE Home = "active"
  BY <1>3 DEF Home
<1>4. CASE End
  <2>1. CASE Kill \/ \E c \in Creators : KillInCreate(c)
    BY <1>1, <1>2, <2>1 DEF Kill, KillInCreate
  <2>2. CASE \E c \in Calls : KillInAppend(c)
    BY <1>2, <1>3, <2>2 DEF KillInAppend, Running, Structure
  <2>3. CASE PowerLoss \/ \E r \in Roots : KillInRepair(r)
    BY <2>3 DEF PowerLoss, KillInRepair, CleanKills
  <2> QED BY <1>4, <2>1, <2>2, <2>3 DEF End
<1>5. ASSUME NEW r \in Roots, LoadStep(r)
      PROVE  disk'["archive"] = disk["archive"]
  <2>1. CASE r = "active"
    BY <1>0, <1>5, <2>1 DEF LoadStep, LoadKeep, LoadQuarantine, LoadNothing, LoadFails, Roots
  <2>2. CASE r = "archive" /\ disk["archive"] # None
    <3>1. Loadable(disk["archive"]) /\ Repaired(disk["archive"]) = disk["archive"]
      BY <2>2, IntactIsKept DEF ArchiveIntact
    <3>2. LoadKeep(r)
      BY <1>5, <2>2, <3>1 DEF LoadStep, LoadQuarantine, LoadNothing, LoadFails, CleanKills
    <3>3. disk' = [disk EXCEPT !["archive"] = Repaired(@)]
      BY <2>2, <3>2 DEF LoadKeep
    <3> QED BY <1>0, <3>1, <3>3 DEF Roots
  <2>3. CASE r = "archive" /\ disk["archive"] = None
    BY <1>5, <2>3 DEF LoadStep, LoadKeep, LoadQuarantine, LoadNothing, LoadFails
  <2> QED BY <2>1, <2>2, <2>3 DEF Roots
<1>6. CASE \E c \in Creators : CreateStep(c)
  BY <1>1, <1>2, <1>6
     DEF CreateStep, CreateCheck, CreateWrite, CreateFails, CreateRegister, CreateEmit
<1>7. ASSUME NEW c \in Calls, AppendStep(c)
      PROVE  UNCHANGED disk \/ \E file : disk' = [disk EXCEPT !["active"] = file]
  <2>1. record # None /\ (pc = "syncing" => ~record.archived)
    BY <1>7 DEF AppendStep, AppendRefused, AppendWrite, AppendFails, AppendCommit, SyncFails,
                AppendEmit, AppendDone, Running, Structure, Durable
  <2>2. CASE AppendWrite(c) \/ AppendFails(c) \/ AppendCommit(c)
    BY <1>3, <2>1, <2>2 DEF AppendWrite, AppendFails, AppendCommit
  <2>3. CASE AppendRefused(c) \/ SyncFails(c) \/ AppendEmit(c) \/ AppendDone(c)
    BY <2>3 DEF AppendRefused, SyncFails, AppendEmit, AppendDone
  <2> QED BY <1>7, <2>2, <2>3 DEF AppendStep
<1>8. ASSUME NEW a \in Archivals, ArchiveStep(a), ~UNCHANGED disk
      PROVE  disk["archive"] = None /\ Intact(disk'["archive"])
  <2>1. /\ record # None /\ ~record.archived /\ pc = "idle"
        /\ disk' = [disk EXCEPT !["archive"] = disk["active"], !["active"] = None]
    BY <1>8 DEF ArchiveStep, Archive, ArchiveFails, Running, Structure
  <2>2. /\ disk["active"] # None /\ disk["active"].lines = record.events /\ disk["active"].ended
        /\ ValidLog(record.events) /\ disk["archive"] = None
    BY <1>3, <2>1 DEF Structure, Durable, InFile, OneHome
  <2>3. record.events \in Seq(Event) /\ disk["active"] \in File
    BY <1>0, <2>1, <2>2 DEF TypeOK, Roots
  <2>4. disk'["archive"] = disk["active"]
    BY <1>0, <2>1 DEF Roots
  <2> QED BY <2>2, <2>3, <2>4, NoTornLine DEF Intact
<1>9. CASE UNCHANGED vars
  BY <1>1, <1>9 DEF vars
<1> QED BY <1>1, <1>2, <1>4, <1>5, <1>6, <1>7, <1>8, <1>9 DEF Next, Start, Submit

(* As long as there are only clean kills, the log of an archived Session   *)
(* stays where it is and as it is: no append writes to it, no start cuts   *)
(* it or sets it aside, and no second archiving replaces it.               *)
THEOREM ArchiveReadOnly == ASSUME CleanKills PROVE Spec => ArchiveImmutable
<1> DEFINE IInv == Structure /\ Durable /\ ArchiveIntact
<1>1. Init => IInv
  BY StructureInit, DurableInit DEF Init, ArchiveIntact, Roots
<1>2. IInv /\ [Next]_vars => IInv'
  <2>1. Structure /\ Durable /\ ArchiveIntact /\ [Next]_vars => ArchiveIntact'
    BY ArchiveKept DEF ArchiveIntact, Intact
  <2> QED BY <2>1, StructureNext, DurableNext
<1>3. IInv /\ [Next]_vars =>
        [disk["archive"] # None =>
           /\ disk'["archive"] # None
           /\ disk'["archive"].lines = disk["archive"].lines]_vars
  BY ArchiveKept
<1> HIDE DEF IInv
<1> QED BY <1>1, <1>2, <1>3, PTL DEF Spec, ArchiveImmutable

=============================================================================
