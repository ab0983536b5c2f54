---------------------------- MODULE Runtimes_proof ----------------------------
(* What trains and runs models, for any of its constants: promises of the     *)
(* parts in MCRuntimes, proved of the specification of each, and of the whole.*)
EXTENDS MCRuntimes, FiniteSetTheorems, SequenceTheorems, WellFoundedInduction, NaturalsInduction, TLAPS
-----------------------------------------------------------------------------
(* A training without a server                                                *)

TrainingStages == {"epoch", "batch", "after", "export", "copy", "copying", "report", "end", "final",
                   "finalcopy", "finish"}
Phrase == {"start", "state", "stopped", "error", "done"}
PacketType == [phase : Phrase, epoch : Int]
ModelType == [of : -1..FitEpochs - 1, whole : BOOLEAN]
\* The last packet says that the training is over.
Told == lProgress # <<>> /\ lProgress[Len(lProgress)].phase \in O!Final

TrainingTypes ==
  /\ lPc \in {"start", "out", "killed"} \cup TrainingStages
  /\ lEpoch \in 0..FitEpochs /\ lBatch \in 0..FitBatches /\ lKilled \in BOOLEAN
  /\ lProgress \in Seq(PacketType) /\ lDir \in BOOLEAN /\ lStop \in BOOLEAN
  /\ lBuilder \in {"watching", "left", "dropped", "gone"} /\ lLines \in 0..Len(lProgress)
  /\ lArtifact \in -1..FitEpochs - 1 /\ lModel \in ModelType /\ lManifest \in -1..FitEpochs - 1

\* The file of packets: those of its epochs, and one that ends it.
Packets ==
  /\ \A i \in 1..Len(lProgress) : lProgress[i].phase \in O!Final => i = Len(lProgress)
  /\ \A i \in 1..Len(lProgress) : lProgress[i].phase = "state" => lProgress[i].epoch = i - 2
  /\ lPc = "start" => lProgress = <<>>
  /\ lPc \in TrainingStages /\ ~lKilled => Len(lProgress) = lEpoch + 1 /\ ~Told
  /\ lPc = "out" => Told
\* A process that has told that it stops does nothing more, and one that nobody stopped has
\* its directory.
Stops ==
  /\ lKilled => Told /\ lPc \in {"after", "end", "out", "killed"}
  /\ lPc \in TrainingStages \cup {"start"} /\ ~lKilled => lDir
  /\ lPc = "killed" => lBuilder \in {"dropped", "gone"}
  /\ lBuilder = "left" => lLines = Len(lProgress) /\ Told
\* Of which epoch the models are.
Models ==
  /\ lPc \in {"batch", "after", "export", "copy", "copying", "report"} => lEpoch < FitEpochs
  /\ lPc = "start" => lEpoch = 0
  /\ lPc = "epoch" /\ lEpoch = FitEpochs => lArtifact = FitEpochs - 1
  /\ lPc \in {"copy", "copying"} => lArtifact = lEpoch
  /\ lPc = "report" /\ lEpoch = FitEpochs - 1 => lArtifact = lEpoch
  /\ lPc = "end" /\ ~lKilled => lArtifact = FitEpochs - 1
  /\ lPc \in {"final", "finalcopy", "finish"} => lArtifact = FitEpochs - 1
  /\ lPc \in {"finalcopy", "finish"} => lModel.of = lArtifact
  /\ lModel.whole \/ lPc \in {"copying", "finalcopy", "killed", "out"}
  /\ lManifest # -1 => /\ lPc = "out" /\ ~lKilled /\ lManifest = FitEpochs - 1
                       /\ lModel.of = lManifest /\ lModel.whole
\* A training that ends with a half-copied model tells an error.
Erred == lProgress # <<>> /\ lProgress[Len(lProgress)].phase = "error"
HalfTold == lPc = "out" /\ ~lModel.whole => Erred
TrainingInv == TrainingTypes /\ Packets /\ Stops /\ Models /\ HalfTold

LEMMA TrainingStart == O!Init => TrainingInv
<1> SUFFICES ASSUME O!Init PROVE TrainingInv
    OBVIOUS
<1> USE DEF O!Init
<1>1. FitEpochs \in Nat \ {0} /\ FitBatches \in Nat
      BY FitAssumption
<1>2. TrainingTypes
  <2>1. lModel \in ModelType
        BY <1>1 DEF ModelType
  <2>2. lProgress \in Seq(PacketType) /\ Len(lProgress) = 0
        OBVIOUS
  <2>3. /\ lPc = "start" /\ lEpoch = 0 /\ lBatch = 0 /\ lKilled = FALSE /\ lDir = TRUE /\ lStop = FALSE
        /\ lBuilder = "watching" /\ lLines = 0 /\ lArtifact = -1 /\ lManifest = -1
        BY Zenon
  <2> HIDE DEF O!Init
  <2>4. lEpoch \in 0..FitEpochs /\ lBatch \in 0..FitBatches /\ lLines \in 0..Len(lProgress)
        BY <1>1, <2>2, <2>3
  <2>5. lArtifact \in -1..FitEpochs - 1 /\ lManifest \in -1..FitEpochs - 1
        BY <1>1, <2>3
  <2>6. lKilled \in BOOLEAN /\ lDir \in BOOLEAN /\ lStop \in BOOLEAN
        BY <2>3
  <2>7. lPc \in {"start", "out", "killed"} \cup TrainingStages
        /\ lBuilder \in {"watching", "left", "dropped", "gone"}
        BY <2>3
  <2> QED BY <2>1, <2>2, <2>4, <2>5, <2>6, <2>7 DEF TrainingTypes
<1>3. Packets
      BY DEF Packets, TrainingStages
<1>4. Stops
      BY DEF Stops, TrainingStages
<1>5. Models /\ HalfTold
      BY <1>1 DEF Models, HalfTold
<1> QED BY <1>2, <1>3, <1>4, <1>5 DEF TrainingInv

\* A packet that is written: what the file says of its epochs and its end.
LEMMA Written ==
  ASSUME NEW p \in Seq(PacketType), NEW w \in PacketType
  PROVE  /\ Append(p, w) \in Seq(PacketType) /\ Append(p, w) # <<>>
         /\ Len(Append(p, w)) = Len(p) + 1 /\ Append(p, w)[Len(p) + 1] = w
         /\ \A i \in 1..Len(p) : Append(p, w)[i] = p[i]
OBVIOUS

LEMMA PhaseType == ASSUME NEW s \in Phrase, NEW e \in Int
                   PROVE  /\ O!Phase(s) \in PacketType /\ O!Phase(s).phase = s
                          /\ O!State(e) \in PacketType /\ O!State(e).phase = "state"
                          /\ O!State(e).epoch = e
<1>1. \A a \in Phrase, b \in Int : [phase |-> a, epoch |-> b] \in PacketType
      BY DEF PacketType
<1>2. -1 \in Int /\ "state" \in Phrase
      BY DEF Phrase
<1> QED BY <1>1, <1>2 DEF O!Phase, O!State

\* The process asks whether it is to stop.
LEMMA AskedDoes ==
  ASSUME TrainingInv, NEW stopped, NEW next, lPc \in TrainingStages, O!Asked(stopped, next)
  PROVE  \/ ~lKilled /\ lKilled' = lKilled /\ lProgress' = lProgress /\ lPc' = next
         \/ ~lKilled /\ lKilled' = TRUE /\ lProgress' = Append(lProgress, O!Phase("stopped")) /\ lPc' = stopped
         \/ lKilled /\ lKilled' = lKilled /\ lProgress' = lProgress /\ lPc' = stopped
<1> USE DEF TrainingInv
<1>1. lKilled \in BOOLEAN /\ O!StopSeen \in BOOLEAN
      BY DEF TrainingTypes, O!StopSeen
<1>2. lKilled' = (lKilled \/ O!StopSeen)
      BY Zenon DEF O!Asked
<1>3. lProgress' = IF (O!StopSeen /\ ~lKilled) /\ lDir THEN Append(lProgress, O!Phase("stopped")) ELSE lProgress
      BY Zenon DEF O!Asked
<1>4. lPc' = IF (O!StopSeen /\ ~lKilled) /\ ~lDir THEN "out" ELSE IF O!Stopping THEN stopped ELSE next
      BY Zenon DEF O!Asked
<1>5. ~lKilled => lDir
      BY DEF Stops
<1>6. O!Stopping = (lKilled \/ O!StopSeen)
      BY DEF O!Stopping
<1>7. CASE lKilled
      BY <1>1, <1>2, <1>3, <1>4, <1>6, <1>7
<1>8. CASE ~lKilled /\ O!StopSeen
      BY <1>1, <1>2, <1>3, <1>4, <1>5, <1>6, <1>8
<1>9. CASE ~lKilled /\ ~O!StopSeen
      BY <1>1, <1>2, <1>3, <1>4, <1>6, <1>9
<1> QED BY <1>1, <1>7, <1>8, <1>9

\* What a step does that writes one packet, and what one does that writes none.
LEMMA PacketAdded ==
  ASSUME TrainingInv, NEW w \in PacketType, lProgress' = Append(lProgress, w),
         w.phase = "state" => w.epoch = Len(lProgress) - 1, ~Told
  PROVE  /\ lProgress' \in Seq(PacketType) /\ lProgress' # <<>> /\ Len(lProgress') = Len(lProgress) + 1
         /\ \A i \in 1..Len(lProgress') : lProgress'[i].phase \in O!Final => i = Len(lProgress')
         /\ \A i \in 1..Len(lProgress') : lProgress'[i].phase = "state" => lProgress'[i].epoch = i - 2
         /\ Told' = (w.phase \in O!Final)
         /\ lLines \in 0..Len(lProgress')
<1> USE DEF TrainingInv
<1>1. lProgress \in Seq(PacketType) /\ Len(lProgress) \in Nat
      BY DEF TrainingTypes
<1>2. /\ lProgress' \in Seq(PacketType) /\ lProgress' # <<>> /\ Len(lProgress') = Len(lProgress) + 1
      /\ lProgress'[Len(lProgress) + 1] = w
      /\ \A i \in 1..Len(lProgress) : lProgress'[i] = lProgress[i]
      BY <1>1, Written
<1>3. \A i \in 1..Len(lProgress) : lProgress[i].phase \notin O!Final
  <2> TAKE i \in 1..Len(lProgress)
  <2>1. CASE lProgress = <<>>
        BY <2>1
  <2>2. CASE lProgress # <<>>
        BY <1>1, <2>2 DEF Packets, Told
  <2> QED BY <2>1, <2>2
<1>4. \A i \in 1..Len(lProgress') : lProgress'[i].phase \in O!Final => i = Len(lProgress')
      BY <1>1, <1>2, <1>3
<1>5. \A i \in 1..Len(lProgress') : lProgress'[i].phase = "state" => lProgress'[i].epoch = i - 2
  <2> TAKE i \in 1..Len(lProgress')
  <2>1. CASE i = Len(lProgress) + 1
        BY <1>1, <1>2, <2>1
  <2>2. CASE i \in 1..Len(lProgress)
        BY <1>1, <1>2, <2>2 DEF Packets
  <2> QED BY <1>1, <1>2, <2>1, <2>2
<1>6. Told' = (w.phase \in O!Final)
      BY <1>2 DEF Told, O!Final
<1>7. lLines \in 0..Len(lProgress')
      BY <1>1, <1>2 DEF TrainingTypes
<1> QED BY <1>2, <1>4, <1>5, <1>6, <1>7

\* A step of the process that asks.
LEMMA AskingStep == ASSUME TrainingInv, O!BeginEpoch \/ O!Batch \/ O!AfterBatches \/ O!End PROVE TrainingInv'
<1> USE DEF TrainingInv
<1> DEFINE told == O!Phase("stopped")
<1>0. /\ lDir' = lDir /\ lStop' = lStop /\ lBuilder' = lBuilder /\ lLines' = lLines
      /\ lEpoch' = lEpoch /\ lArtifact' = lArtifact /\ lModel' = lModel /\ lManifest' = lManifest
      BY Zenon DEF O!BeginEpoch, O!Batch, O!AfterBatches, O!End
<1>1. \/ /\ lPc \in TrainingStages /\ lPc' = "end" /\ lKilled' = lKilled /\ lProgress' = lProgress
         /\ lPc = "epoch" /\ lEpoch = FitEpochs /\ lBatch' \in 0..FitBatches
      \/ \E stopped, next :
           /\ O!Asked(stopped, next) /\ lPc \in TrainingStages /\ lBatch' \in 0..FitBatches
           /\ \/ lPc = "epoch" /\ stopped = "end" /\ next = "batch" /\ lEpoch # FitEpochs
              \/ lPc = "batch" /\ stopped = "after" /\ next = "batch"
              \/ lPc = "after" /\ stopped = "end"
                   /\ next = IF O!Exports(lEpoch) THEN "export" ELSE "report"
              \/ lPc = "end" /\ stopped = "out" /\ next = "final"
  <2>1. CASE O!BeginEpoch
    <3>1. lPc = "epoch" /\ lBatch' \in 0..FitBatches
          BY <2>1, FitAssumption DEF O!BeginEpoch
    <3>2. CASE lEpoch = FitEpochs
          BY <2>1, <3>1, <3>2 DEF O!BeginEpoch, TrainingStages
    <3>3. CASE lEpoch # FitEpochs
      <4>1. O!Asked("end", "batch")
            BY <2>1, <3>3, Zenon DEF O!BeginEpoch
      <4> HIDE DEF TrainingInv
      <4> QED BY <3>1, <3>3, <4>1 DEF TrainingStages
    <3> QED BY <3>2, <3>3
  <2>2. CASE O!Batch
    <3>1. lPc = "batch" /\ lBatch < FitBatches /\ O!Asked("after", "batch")
          /\ lBatch' = IF lPc' = "batch" THEN lBatch + 1 ELSE lBatch
          BY <2>2, Zenon DEF O!Batch
    <3>2. lBatch' \in 0..FitBatches
          BY <3>1, FitAssumption DEF TrainingTypes
    <3> HIDE DEF TrainingInv
    <3> QED BY <3>1, <3>2 DEF TrainingStages
  <2>3. CASE O!AfterBatches
    <3>1. lPc = "after" /\ lBatch' = lBatch
          /\ O!Asked("end", IF O!Exports(lEpoch) THEN "export" ELSE "report")
          BY <2>3, Zenon DEF O!AfterBatches
    <3>2. lBatch' \in 0..FitBatches
          BY <3>1 DEF TrainingTypes
    <3> HIDE DEF TrainingInv
    <3> QED BY <3>1, <3>2 DEF TrainingStages
  <2>4. CASE O!End
    <3>1. lPc = "end" /\ lBatch' = lBatch /\ O!Asked("out", "final")
          BY <2>4, Zenon DEF O!End
    <3>2. lBatch' \in 0..FitBatches
          BY <3>1 DEF TrainingTypes
    <3> HIDE DEF TrainingInv
    <3> QED BY <3>1, <3>2 DEF TrainingStages
  <2> QED BY <2>1, <2>2, <2>3, <2>4
<1>2. \/ /\ lKilled' = lKilled /\ lProgress' = lProgress
         /\ \/ /\ ~lKilled
               /\ \/ lPc = "epoch" /\ lPc' = "end" /\ lEpoch = FitEpochs
                  \/ lPc = "epoch" /\ lPc' = "batch" /\ lEpoch # FitEpochs
                  \/ lPc = "batch" /\ lPc' = "batch"
                  \/ lPc = "after" /\ lPc' = IF O!Exports(lEpoch) THEN "export" ELSE "report"
                  \/ lPc = "end" /\ lPc' = "final"
            \/ lKilled /\ lPc \in {"after", "end"} /\ lPc' \in {"end", "out"}
      \/ /\ ~lKilled /\ lKilled' = TRUE /\ lProgress' = Append(lProgress, told)
         /\ lPc \in {"epoch", "batch", "after", "end"} /\ lPc' \in {"after", "end", "out"}
         /\ lPc' = "after" => lPc = "batch"
  <2>1. lKilled => lPc \in {"after", "end", "out", "killed"}
        BY DEF Stops
  <2>2. CASE /\ lPc \in TrainingStages /\ lPc' = "end" /\ lKilled' = lKilled /\ lProgress' = lProgress
             /\ lPc = "epoch" /\ lEpoch = FitEpochs /\ lBatch' \in 0..FitBatches
        BY <2>1, <2>2
  <2>3. ASSUME NEW stopped, NEW next, O!Asked(stopped, next), lPc \in TrainingStages,
               \/ lPc = "epoch" /\ stopped = "end" /\ next = "batch" /\ lEpoch # FitEpochs
               \/ lPc = "batch" /\ stopped = "after" /\ next = "batch"
               \/ lPc = "after" /\ stopped = "end"
                    /\ next = IF O!Exports(lEpoch) THEN "export" ELSE "report"
               \/ lPc = "end" /\ stopped = "out" /\ next = "final"
        PROVE <1>2!:
    <3>1. \/ ~lKilled /\ lKilled' = lKilled /\ lProgress' = lProgress /\ lPc' = next
          \/ ~lKilled /\ lKilled' = TRUE /\ lProgress' = Append(lProgress, told) /\ lPc' = stopped
          \/ lKilled /\ lKilled' = lKilled /\ lProgress' = lProgress /\ lPc' = stopped
          BY <2>3, AskedDoes
    <3> HIDE DEF told, TrainingInv
    <3> QED BY <2>1, <2>3, <3>1
  <2> QED BY <1>1, <2>2, <2>3
<1>3. told \in PacketType /\ told.phase = "stopped"
      BY PhaseType DEF Phrase
<1> HIDE DEF told
<1>4. CASE ~lKilled /\ lKilled' = TRUE /\ lProgress' = Append(lProgress, told)
           /\ lPc \in {"epoch", "batch", "after", "end"} /\ lPc' \in {"after", "end", "out"}
           /\ (lPc' = "after" => lPc = "batch")
  <2>0. ~Told /\ lDir
        BY <1>4 DEF Packets, Stops, TrainingStages
  <2>1. /\ lProgress' \in Seq(PacketType) /\ lProgress' # <<>> /\ Len(lProgress') = Len(lProgress) + 1
        /\ \A i \in 1..Len(lProgress') : lProgress'[i].phase \in O!Final => i = Len(lProgress')
        /\ \A i \in 1..Len(lProgress') : lProgress'[i].phase = "state" => lProgress'[i].epoch = i - 2
        /\ Told' = (told.phase \in O!Final) /\ lLines \in 0..Len(lProgress')
        BY <1>3, <1>4, <2>0, PacketAdded
  <2>2. Told'
        BY <1>3, <2>1 DEF O!Final
  <2>3. lBuilder # "left"
        BY <2>0 DEF Stops
  <2>4. lBatch' \in 0..FitBatches
        BY <1>1
  <2>5. TrainingTypes'
        BY <1>0, <1>4, <2>1, <2>4 DEF TrainingTypes, TrainingStages
  <2>6. Packets'
        BY <1>0, <1>4, <2>1, <2>2 DEF Packets
  <2>7. Stops'
        BY <1>0, <1>4, <2>2, <2>3 DEF Stops
  <2>8. Models' /\ HalfTold'
        BY <1>0, <1>4 DEF Models, HalfTold, TrainingStages
  <2> QED BY <2>5, <2>6, <2>7, <2>8
<1>5. CASE /\ lKilled' = lKilled /\ lProgress' = lProgress
           /\ \/ /\ ~lKilled
                 /\ \/ lPc = "epoch" /\ lPc' = "end" /\ lEpoch = FitEpochs
                    \/ lPc = "epoch" /\ lPc' = "batch" /\ lEpoch # FitEpochs
                    \/ lPc = "batch" /\ lPc' = "batch"
                    \/ lPc = "after" /\ lPc' = IF O!Exports(lEpoch) THEN "export" ELSE "report"
                    \/ lPc = "end" /\ lPc' = "final"
              \/ lKilled /\ lPc \in {"after", "end"} /\ lPc' \in {"end", "out"}
  <2>1. lBatch' \in 0..FitBatches
        BY <1>1
  <2>2. lPc \in TrainingStages /\ lPc' \in TrainingStages \cup {"out"} /\ (lPc' = "out" => lKilled)
        BY <1>5 DEF TrainingStages
  <2>3. TrainingTypes'
        BY <1>0, <1>5, <2>1, <2>2 DEF TrainingTypes
  <2>4. Packets'
        BY <1>0, <1>5, <2>2 DEF Packets, Told, Stops, TrainingStages
  <2>5. Stops'
    <3>1. Told' = Told
          BY <1>5 DEF Told, O!Final
    <3>2. lKilled => lPc' \in {"end", "out"}
          BY <1>5
    <3> QED BY <1>0, <1>5, <2>2, <3>1, <3>2 DEF Stops, TrainingStages
  <2>6. Models' /\ HalfTold'
    <3>1. lEpoch \in 0..FitEpochs /\ FitEpochs \in Nat \ {0}
          BY FitAssumption DEF TrainingTypes
    <3>2. lPc' = "report" => lEpoch # FitEpochs - 1
          BY <1>5, <3>1 DEF O!Exports
    <3>3. lManifest = -1
          BY <2>2 DEF Models, HalfTold, TrainingStages
    <3> QED BY <1>0, <1>5, <3>1, <3>2, <3>3 DEF Models, HalfTold
  <2> QED BY <2>3, <2>4, <2>5, <2>6
<1> QED BY <1>2, <1>4, <1>5

\* A process that works was not stopped, and has its directory.
LEMMA Works ==
  ASSUME TrainingInv, lPc \in TrainingStages \ {"after", "end"}
  PROVE  /\ ~lKilled /\ lDir /\ ~Told /\ lBuilder # "left" /\ Len(lProgress) = lEpoch + 1
         /\ lManifest = -1 /\ lKilled = FALSE
<1> USE DEF TrainingInv
<1>1. ~lKilled /\ lKilled = FALSE
      BY DEF Stops, TrainingTypes, TrainingStages
<1> QED BY <1>1 DEF Stops, Packets, Models, TrainingStages

LEMMA StartStep == ASSUME TrainingInv, NEW valid \in BOOLEAN, O!Start(valid) PROVE TrainingInv'
<1> USE DEF TrainingInv
<1> DEFINE p == O!Phase("start")
           q == O!Phase("error")
<1>0. /\ lPc = "start" /\ lEpoch' = lEpoch /\ lBatch' = lBatch /\ lKilled' = lKilled /\ lDir' = lDir
      /\ lStop' = lStop /\ lBuilder' = lBuilder /\ lLines' = lLines /\ lArtifact' = lArtifact
      /\ lModel' = lModel /\ lManifest' = lManifest
      BY Zenon DEF O!Start
<1>1. p \in PacketType /\ q \in PacketType /\ p.phase = "start" /\ q.phase = "error"
      BY PhaseType DEF Phrase
<1>2. lProgress = <<>> /\ lLines = 0 /\ lDir /\ ~lKilled /\ ~Told /\ lBuilder # "left" /\ lManifest = -1
  <2>1. lProgress = <<>>
        BY <1>0 DEF Packets
  <2>2. ~lKilled /\ lDir
        BY <1>0 DEF Stops
  <2>3. ~Told
        BY <2>1 DEF Told
  <2> QED BY <1>0, <2>1, <2>2, <2>3 DEF TrainingTypes, Stops, Models
<1>3. CASE valid
  <2>1. lProgress' = Append(lProgress, p) /\ lPc' = "epoch"
        BY <1>3, Zenon DEF O!Start
  <2> HIDE DEF p, q
  <2>2. lProgress' = <<p>>
        BY <1>2, <2>1
  <2>3. Len(lProgress') = 1 /\ lProgress'[1] = p /\ lProgress' \in Seq(PacketType) /\ lProgress' # <<>>
        BY <1>1, <2>2
  <2>4. ~Told'
        BY <1>1, <2>3 DEF Told, O!Final
  <2>5. lEpoch = 0 /\ lEpoch' = 0
        BY <1>0 DEF Models, HalfTold
  <2>6. lPc' \in TrainingStages /\ lLines' \in 0..Len(lProgress')
        BY <1>0, <1>2, <2>1, <2>3 DEF TrainingStages
  <2>7. TrainingTypes'
        BY <1>0, <2>3, <2>6 DEF TrainingTypes
  <2>8. Packets'
        BY <1>0, <1>1, <1>2, <2>1, <2>3, <2>4, <2>5 DEF Packets, O!Final
  <2>9. Stops'
        BY <1>0, <1>2, <2>1 DEF Stops
  <2>10. Models' /\ HalfTold'
    <3>1. FitEpochs \in Nat \ {0}
          BY FitAssumption
    <3> QED BY <1>0, <1>2, <2>1, <2>5, <3>1 DEF Models, HalfTold
  <2> QED BY <2>7, <2>8, <2>9, <2>10
<1>4. CASE ~valid
  <2>1. lProgress' = lProgress \o <<p, q>> /\ lPc' = "out"
        BY <1>4, Zenon DEF O!Start
  <2> HIDE DEF p, q
  <2>2. lProgress' = <<p, q>>
        BY <1>1, <1>2, <2>1
  <2>3. /\ Len(lProgress') = 2 /\ lProgress'[1] = p /\ lProgress'[2] = q
        /\ lProgress' \in Seq(PacketType) /\ lProgress' # <<>>
        BY <1>1, <2>2
  <2>4. Told'
        BY <1>1, <2>3 DEF Told, O!Final
  <2>5. lLines' \in 0..Len(lProgress')
        BY <1>0, <1>2, <2>3
  <2>6. TrainingTypes'
        BY <1>0, <2>1, <2>3, <2>5 DEF TrainingTypes
  <2>7. Packets'
    <3>1. \A i \in 1..Len(lProgress') : i = 1 \/ i = 2
          BY <2>3
    <3> QED BY <1>1, <2>1, <2>3, <2>4, <3>1 DEF Packets, O!Final, TrainingStages
  <2>8. Stops'
        BY <1>0, <1>2, <2>1 DEF Stops, TrainingStages
  <2>9. Models' /\ HalfTold'
        BY <1>0, <1>2, <2>1 DEF Models, HalfTold
  <2> QED BY <2>6, <2>7, <2>8, <2>9
<1> QED BY <1>3, <1>4

LEMMA BatchesEnd == ASSUME TrainingInv, O!EndBatches PROVE TrainingInv'
<1> USE DEF TrainingInv
<1>0. /\ lPc = "batch" /\ lPc' = "after" /\ lEpoch' = lEpoch /\ lBatch' = lBatch /\ lKilled' = lKilled
      /\ lDir' = lDir /\ lStop' = lStop /\ lBuilder' = lBuilder /\ lLines' = lLines
      /\ lArtifact' = lArtifact /\ lModel' = lModel /\ lManifest' = lManifest /\ lProgress' = lProgress
      BY Zenon DEF O!EndBatches
<1>1. Told' = Told
      BY <1>0 DEF Told, O!Final
<1>2. TrainingTypes'
      BY <1>0 DEF TrainingTypes, TrainingStages
<1>3. Packets'
      BY <1>0, <1>1 DEF Packets, TrainingStages
<1>4. Stops'
      BY <1>0, <1>1 DEF Stops, TrainingStages
<1>5. Models' /\ HalfTold'
      BY <1>0 DEF Models, HalfTold
<1> QED BY <1>2, <1>3, <1>4, <1>5

\* A step of a working process that writes no packet.
LEMMA WorkStep ==
  ASSUME TrainingInv,
         \/ O!Export \/ O!CopyBegins("copy", "copying") \/ O!CopyEnds("copying", "report")
         \/ O!CopyBegins("final", "finalcopy") \/ O!CopyEnds("finalcopy", "finish")
  PROVE  TrainingInv'
<1> USE DEF TrainingInv
<1>0. /\ lEpoch' = lEpoch /\ lBatch' = lBatch /\ lKilled' = lKilled /\ lDir' = lDir /\ lStop' = lStop
      /\ lBuilder' = lBuilder /\ lLines' = lLines /\ lManifest' = lManifest
      BY Zenon DEF O!Export, O!CopyBegins, O!CopyEnds
<1>1. lPc \in {"export", "copy", "copying", "final", "finalcopy"}
      BY Zenon DEF O!Export, O!CopyBegins, O!CopyEnds
<1>2. /\ ~lKilled /\ lDir /\ ~Told /\ lBuilder # "left" /\ Len(lProgress) = lEpoch + 1
      /\ lManifest = -1 /\ lKilled = FALSE
      BY <1>1, Works DEF TrainingStages
<1>3. FitEpochs \in Nat \ {0} /\ lEpoch \in 0..FitEpochs /\ lArtifact \in -1..FitEpochs - 1
      /\ lModel \in ModelType
      BY FitAssumption DEF TrainingTypes
<1>4. /\ lProgress' = lProgress /\ lPc' \in TrainingStages \ {"after", "end"}
      /\ lArtifact' \in -1..FitEpochs - 1 /\ lModel' \in ModelType /\ Models' /\ HalfTold'
  <2>1. CASE O!Export
    <3>1. lPc = "export" /\ lArtifact' = lEpoch /\ lPc' = "copy" /\ lProgress' = lProgress /\ lModel' = lModel
          BY <1>2, <2>1, Zenon DEF O!Export
    <3>2. lEpoch < FitEpochs
          BY <3>1 DEF Models, HalfTold
    <3>3. Models' /\ HalfTold'
          BY <1>0, <1>2, <3>1, <3>2 DEF Models, HalfTold
    <3> QED BY <1>3, <3>1, <3>2, <3>3 DEF TrainingStages
  <2>2. ASSUME NEW from, NEW to, O!CopyBegins(from, to),
               (from = "copy" /\ to = "copying") \/ (from = "final" /\ to = "finalcopy")
        PROVE  <1>4!:
    <3>1. /\ lPc = from /\ lModel' = [of |-> lArtifact, whole |-> FALSE] /\ lPc' = to
          /\ lProgress' = lProgress /\ lArtifact' = lArtifact
          BY <1>2, <2>2, Zenon DEF O!CopyBegins
    <3>2. lModel' \in ModelType /\ lModel'.of = lArtifact
          BY <1>3, <3>1 DEF ModelType
    <3>3. Models' /\ HalfTold'
          BY <1>0, <1>2, <2>2, <3>1, <3>2 DEF Models, HalfTold
    <3> QED BY <1>3, <2>2, <3>1, <3>2, <3>3 DEF TrainingStages
  <2>3. ASSUME NEW from, NEW to, O!CopyEnds(from, to),
               (from = "copying" /\ to = "report") \/ (from = "finalcopy" /\ to = "finish")
        PROVE  <1>4!:
    <3> DEFINE t == TRUE
    <3>1. /\ lPc = from /\ lModel' = [lModel EXCEPT !.whole = t] /\ lPc' = to
          /\ lProgress' = lProgress /\ lArtifact' = lArtifact
          BY <2>3, Zenon DEF O!CopyEnds
    <3>2. t \in BOOLEAN
          OBVIOUS
    <3> HIDE DEF t
    <3>3. lModel' \in ModelType /\ lModel'.of = lModel.of /\ lModel'.whole = t
          BY <1>3, <3>1, <3>2 DEF ModelType
    <3>4. lModel'.whole
          BY <3>3 DEF t
    <3>5. Models' /\ HalfTold'
          BY <1>0, <1>2, <1>3, <2>3, <3>1, <3>3, <3>4 DEF Models, HalfTold
    <3> QED BY <1>3, <2>3, <3>1, <3>3, <3>5 DEF TrainingStages
  <2>4. CASE O!CopyBegins("copy", "copying")
        BY <2>2, <2>4
  <2>5. CASE O!CopyBegins("final", "finalcopy")
        BY <2>2, <2>5
  <2>6. CASE O!CopyEnds("copying", "report")
        BY <2>3, <2>6
  <2>7. CASE O!CopyEnds("finalcopy", "finish")
        BY <2>3, <2>7
  <2> QED BY <2>1, <2>4, <2>5, <2>6, <2>7, Zenon
<1>5. Told' = Told
      BY <1>4 DEF Told, O!Final
<1>6. TrainingTypes'
      BY <1>0, <1>4 DEF TrainingTypes, TrainingStages
<1>7. Packets'
      BY <1>0, <1>2, <1>4, <1>5 DEF Packets, TrainingStages
<1>8. Stops'
      BY <1>0, <1>2, <1>4, <1>5 DEF Stops, TrainingStages
<1> QED BY <1>4, <1>6, <1>7, <1>8

\* A step of a working process that writes a packet: of an epoch, or its end.
LEMMA ReportStep == ASSUME TrainingInv, O!Report \/ O!Finish PROVE TrainingInv'
<1> USE DEF TrainingInv
<1> DEFINE w == IF lPc = "report" THEN O!State(lEpoch) ELSE O!Phase("done")
<1>0. /\ lPc \in {"report", "finish"} /\ lBatch' = lBatch /\ lKilled' = lKilled /\ lDir' = lDir
      /\ lStop' = lStop /\ lBuilder' = lBuilder /\ lLines' = lLines /\ lModel' = lModel
      /\ lArtifact' = lArtifact
      BY Zenon DEF O!Report, O!Finish
<1>1. /\ ~lKilled /\ lDir /\ ~Told /\ lBuilder # "left" /\ Len(lProgress) = lEpoch + 1
      /\ lManifest = -1 /\ lKilled = FALSE
      BY <1>0, Works DEF TrainingStages
<1>2. FitEpochs \in Nat \ {0} /\ lEpoch \in 0..FitEpochs /\ lArtifact \in -1..FitEpochs - 1
      BY FitAssumption DEF TrainingTypes
<1>3. lProgress' = Append(lProgress, w)
  <2>1. CASE lPc = "report"
        BY <1>1, <2>1, Zenon DEF O!Report, O!Finish
  <2>2. CASE lPc = "finish"
        BY <1>1, <2>2, Zenon DEF O!Report, O!Finish
  <2> QED BY <1>0, <2>1, <2>2
<1>4. /\ w \in PacketType /\ (w.phase = "state" => w.epoch = Len(lProgress) - 1)
      /\ (w.phase \in O!Final) = (lPc = "finish")
  <2>1. CASE lPc = "report"
    <3>1. w \in PacketType /\ w.phase = "state" /\ w.epoch = lEpoch
          BY <1>2, <2>1, PhaseType DEF Phrase
    <3> HIDE DEF w
    <3> QED BY <1>1, <1>2, <2>1, <3>1 DEF O!Final
  <2>2. CASE lPc = "finish"
    <3>1. w \in PacketType /\ w.phase = "done"
          BY <2>2, PhaseType DEF Phrase
    <3> HIDE DEF w
    <3> QED BY <2>2, <3>1 DEF O!Final
  <2> QED BY <1>0, <2>1, <2>2
<1> HIDE DEF w
<1>5. /\ lProgress' \in Seq(PacketType) /\ lProgress' # <<>> /\ Len(lProgress') = Len(lProgress) + 1
      /\ \A i \in 1..Len(lProgress') : lProgress'[i].phase \in O!Final => i = Len(lProgress')
      /\ \A i \in 1..Len(lProgress') : lProgress'[i].phase = "state" => lProgress'[i].epoch = i - 2
      /\ Told' = (w.phase \in O!Final) /\ lLines \in 0..Len(lProgress')
      BY <1>1, <1>3, <1>4, PacketAdded
<1>6. CASE lPc = "report"
  <2>1. lEpoch' = lEpoch + 1 /\ lPc' = "epoch" /\ lManifest' = lManifest
        BY <1>1, <1>6, Zenon DEF O!Report, O!Finish
  <2>2. lEpoch < FitEpochs /\ (lEpoch = FitEpochs - 1 => lArtifact = lEpoch) /\ lModel.whole
        BY <1>6 DEF Models, HalfTold
  <2>3. TrainingTypes'
        BY <1>0, <1>2, <1>5, <2>1, <2>2 DEF TrainingTypes, TrainingStages
  <2>4. Packets'
        BY <1>1, <1>2, <1>4, <1>5, <1>6, <2>1 DEF Packets
  <2>5. Stops'
        BY <1>0, <1>1, <2>1 DEF Stops
  <2>6. Models' /\ HalfTold'
        BY <1>0, <1>1, <1>2, <2>1, <2>2 DEF Models, HalfTold
  <2> QED BY <2>3, <2>4, <2>5, <2>6
<1>7. CASE lPc = "finish"
  <2>1. lEpoch' = lEpoch /\ lPc' = "out" /\ lManifest' = lArtifact
        BY <1>1, <1>7, Zenon DEF O!Report, O!Finish
  <2>2. lArtifact = FitEpochs - 1 /\ lModel.of = lArtifact /\ lModel.whole
        BY <1>7 DEF Models, HalfTold
  <2>3. TrainingTypes'
        BY <1>0, <1>2, <1>5, <2>1, <2>2 DEF TrainingTypes
  <2>4. Packets'
        BY <1>4, <1>5, <1>7, <2>1 DEF Packets, TrainingStages
  <2>5. Stops'
        BY <1>0, <1>1, <2>1 DEF Stops, TrainingStages
  <2>6. Models' /\ HalfTold'
        BY <1>0, <1>1, <2>1, <2>2 DEF Models, HalfTold
  <2> QED BY <2>3, <2>4, <2>5, <2>6
<1> QED BY <1>0, <1>6, <1>7

\* What was raised is told, and whatever was begun stays.
LEMMA RaiseStep == ASSUME TrainingInv, O!Raise PROVE TrainingInv'
<1> USE DEF TrainingInv
<1> DEFINE w == O!Phase("error")
<1>0. /\ lPc \in {"batch", "export", "copy", "copying", "report", "final", "finalcopy", "finish"}
      /\ lEpoch' = lEpoch /\ lBatch' = lBatch /\ lKilled' = lKilled /\ lDir' = lDir
      /\ lStop' = lStop /\ lBuilder' = lBuilder /\ lLines' = lLines /\ lModel' = lModel
      /\ lArtifact' = lArtifact /\ lManifest' = lManifest /\ lPc' = "out"
      BY Zenon DEF O!Raise, O!Failed
<1>1. /\ ~lKilled /\ lDir /\ ~Told /\ lBuilder # "left" /\ lManifest = -1 /\ lKilled = FALSE
      BY <1>0, Works DEF TrainingStages
<1>2. lProgress' = Append(lProgress, w)
      BY <1>1, Zenon DEF O!Raise, O!Failed
<1>3. w \in PacketType /\ w.phase = "error"
      BY PhaseType DEF Phrase
<1> HIDE DEF w
<1>4. /\ lProgress' \in Seq(PacketType) /\ lProgress' # <<>>
      /\ \A i \in 1..Len(lProgress') : lProgress'[i].phase \in O!Final => i = Len(lProgress')
      /\ \A i \in 1..Len(lProgress') : lProgress'[i].phase = "state" => lProgress'[i].epoch = i - 2
      /\ Told' /\ lLines \in 0..Len(lProgress')
  <2>1. w.phase # "state" /\ w.phase \in O!Final
        BY <1>3 DEF O!Final
  <2> QED BY <1>1, <1>2, <1>3, <2>1, PacketAdded
<1>5. Erred'
  <2>1. lProgress \in Seq(PacketType)
        BY DEF TrainingTypes
  <2> QED BY <1>2, <1>3, <2>1, Written DEF Erred
<1>6. TrainingTypes'
      BY <1>0, <1>4 DEF TrainingTypes
<1>7. Packets'
      BY <1>0, <1>4 DEF Packets, TrainingStages
<1>8. Stops'
      BY <1>0, <1>1 DEF Stops, TrainingStages
<1>9. Models' /\ HalfTold'
      BY <1>0, <1>1, <1>5 DEF Models, HalfTold
<1> QED BY <1>6, <1>7, <1>8, <1>9

\* The builder reads what is there, and leaves with the packet that ends the training.
LEMMA PollTraining == ASSUME TrainingInv, O!Poll PROVE TrainingInv'
<1> USE DEF TrainingInv
<1> DEFINE n == Len(lProgress)
           over == \E i \in lLines + 1..n : lProgress[i].phase \in O!Final
<1>0. /\ lPc' = lPc /\ lEpoch' = lEpoch /\ lBatch' = lBatch /\ lKilled' = lKilled
      /\ lProgress' = lProgress /\ lStop' = lStop /\ lArtifact' = lArtifact /\ lModel' = lModel
      /\ lManifest' = lManifest /\ lBuilder = "watching" /\ lLines' = n
      /\ lBuilder' = (IF over THEN "left" ELSE lBuilder) /\ lDir' = ~over
      BY Zenon DEF O!Poll
<1>1. n \in Nat /\ lLines \in 0..n
      BY DEF TrainingTypes
<1>2. over => Told
  <2> SUFFICES ASSUME NEW i \in lLines + 1..n, lProgress[i].phase \in O!Final PROVE Told
      OBVIOUS
  <2>1. i \in 1..n
        BY <1>1
  <2>2. i = n
        BY <2>1 DEF Packets
  <2>3. lProgress # <<>>
        BY <2>1
  <2> QED BY <2>2, <2>3 DEF Told
<1>3. over \in BOOLEAN
      OBVIOUS
<1> HIDE DEF over
<1>4. Told' = Told /\ Erred' = Erred
      BY <1>0 DEF Told, Erred, O!Final
<1>5. TrainingTypes'
      BY <1>0, <1>1, <1>3 DEF TrainingTypes
<1>6. Packets'
      BY <1>0, <1>4 DEF Packets
<1>7. Stops'
  <2>1. lPc \in TrainingStages \cup {"start"} /\ ~lKilled => ~Told
    <3>1. CASE lPc = "start"
          BY <3>1 DEF Packets, Told
    <3>2. CASE lPc \in TrainingStages
          BY <3>2 DEF Packets
    <3> QED BY <3>1, <3>2
  <2> QED BY <1>0, <1>2, <1>3, <1>4, <2>1 DEF Stops
<1>8. Models' /\ HalfTold'
  <2>1. Erred' = Erred
        BY <1>0 DEF Erred
  <2> QED BY <1>0, <1>4, <2>1 DEF Models, HalfTold
<1> QED BY <1>5, <1>6, <1>7, <1>8

\* What else the builder does leaves the packets and the models.
LEMMA BuilderStep ==
  ASSUME TrainingInv, O!StopTraining \/ O!Drop \/ O!CloseAll \/ O!Crash
  PROVE  TrainingInv'
<1> USE DEF TrainingInv
<1>0. /\ lEpoch' = lEpoch /\ lBatch' = lBatch /\ lKilled' = lKilled /\ lProgress' = lProgress
      /\ lLines' = lLines /\ lArtifact' = lArtifact /\ lModel' = lModel /\ lManifest' = lManifest
      BY Zenon DEF O!StopTraining, O!Drop, O!CloseAll, O!Crash
<1>1. lStop' \in BOOLEAN
  <2>1. lStop' = TRUE \/ lStop' = lStop
        BY Zenon DEF O!StopTraining, O!Drop, O!CloseAll, O!Crash
  <2> QED BY <2>1 DEF TrainingTypes
<1>2. \/ lPc' = lPc /\ lDir' = lDir /\ lBuilder' = lBuilder
      \/ lPc' = lPc /\ lDir' = lDir /\ lBuilder' = "gone"
      \/ /\ lPc' = (IF lPc = "out" THEN lPc ELSE "killed") /\ lDir' \in {lDir, FALSE}
         /\ lBuilder' \in {"dropped", "gone"}
  <2>1. CASE O!StopTraining
        BY <2>1, Zenon DEF O!StopTraining
  <2>2. CASE O!Crash
        BY <2>2, Zenon DEF O!Crash
  <2>3. CASE O!Drop
        BY <2>3, Zenon DEF O!Drop
  <2>4. CASE O!CloseAll
        BY <2>4, Zenon DEF O!CloseAll
  <2> QED BY <2>1, <2>2, <2>3, <2>4
<1>3. Told' = Told
      BY <1>0 DEF Told, O!Final
<1>4. lPc' = lPc \/ (lPc' = "killed" /\ lPc # "out")
      BY <1>2
<1>5. TrainingTypes'
      BY <1>0, <1>1, <1>2 DEF TrainingTypes
<1>6. Packets'
      BY <1>0, <1>3, <1>4 DEF Packets, TrainingStages
<1>7. Stops'
  <2>1. CASE lPc' = lPc /\ lDir' = lDir /\ lBuilder' \in {lBuilder, "gone"}
        BY <1>0, <1>3, <2>1 DEF Stops
  <2>2. CASE /\ lPc' = (IF lPc = "out" THEN lPc ELSE "killed") /\ lBuilder' \in {"dropped", "gone"}
    <3>1. lPc' \in {"out", "killed"}
          BY <2>2
    <3> QED BY <1>0, <1>3, <2>2, <3>1 DEF Stops, TrainingStages
  <2> QED BY <1>2, <2>1, <2>2
<1>8. Models' /\ HalfTold'
  <2>1. Erred' = Erred
        BY <1>0 DEF Erred
  <2> QED BY <1>0, <1>4, <2>1 DEF Models, HalfTold
<1> QED BY <1>5, <1>6, <1>7, <1>8

LEMMA TrainingStep == TrainingInv /\ [O!Next]_(O!vars) => TrainingInv'
<1> SUFFICES ASSUME TrainingInv, [O!Next]_(O!vars) PROVE TrainingInv'
    OBVIOUS
<1>1. ASSUME O!Process PROVE TrainingInv'
  <2>1. CASE \E valid \in BOOLEAN : O!Start(valid)
        BY <2>1, StartStep
  <2>2. CASE O!BeginEpoch \/ O!Batch \/ O!AfterBatches \/ O!End
        BY <2>2, AskingStep
  <2>3. CASE O!EndBatches
        BY <2>3, BatchesEnd
  <2>4. CASE \/ O!Export \/ O!CopyBegins("copy", "copying") \/ O!CopyEnds("copying", "report")
             \/ O!CopyBegins("final", "finalcopy") \/ O!CopyEnds("finalcopy", "finish")
        BY <2>4, WorkStep
  <2>5. CASE O!Report \/ O!Finish
        BY <2>5, ReportStep
  <2>6. CASE O!Raise
        BY <2>6, RaiseStep
  <2> QED BY <1>1, <2>1, <2>2, <2>3, <2>4, <2>5, <2>6, Zenon DEF O!Process
<1>2. CASE O!Poll
      BY <1>2, PollTraining
<1>3. CASE O!StopTraining \/ O!Drop \/ O!CloseAll \/ O!Crash
      BY <1>3, BuilderStep
<1>4. CASE UNCHANGED O!vars
  <2>1. /\ lPc' = lPc /\ lEpoch' = lEpoch /\ lBatch' = lBatch /\ lKilled' = lKilled
        /\ lProgress' = lProgress /\ lDir' = lDir /\ lStop' = lStop /\ lBuilder' = lBuilder
        /\ lLines' = lLines /\ lArtifact' = lArtifact /\ lModel' = lModel /\ lManifest' = lManifest
        BY <1>4, Zenon DEF O!vars
  <2>2. Told' = Told
        BY <2>1 DEF Told, O!Final
  <2>3. TrainingTypes' /\ Packets' /\ Stops' /\ Models' /\ HalfTold'
        BY <2>1, <2>2 DEF TrainingInv, TrainingTypes, Packets, Stops, Models, HalfTold, Erred
  <2> QED BY <2>3 DEF TrainingInv
<1> QED BY <1>1, <1>2, <1>3, <1>4, Zenon DEF O!Next

LEMMA TrainingShown == TrainingInv => O!TrainingHolds /\ O!TrainingTypeOK
<1> SUFFICES ASSUME TrainingInv PROVE O!TrainingHolds /\ O!TrainingTypeOK
    OBVIOUS
<1> USE DEF TrainingInv
<1>1. lProgress \in Seq(PacketType) /\ DOMAIN lProgress = 1..Len(lProgress) /\ Len(lProgress) \in Nat
      BY DEF TrainingTypes
<1>2. Told => O!Last(lProgress).phase \in O!Final
      BY DEF Told, O!Last
<1>3. O!OneEnd
  <2>1. \A i \in DOMAIN lProgress : lProgress[i].phase \in O!Final => i = Len(lProgress)
        BY ZenonT(60), <1>1 DEF Packets
  <2>2. \A i \in DOMAIN lProgress : lProgress[i].phase = "state" => lProgress[i].epoch = i - 2
        BY <1>1 DEF Packets
  <2>3. lBuilder = "left" => lLines = Len(lProgress) /\ O!Last(lProgress).phase \in O!Final
        BY <1>2 DEF Stops
  <2> QED BY SMTT(30), <2>1, <2>2, <2>3 DEF O!OneEnd
<1>4. O!ResultComplete
  <2>1. lManifest # -1 => lManifest = FitEpochs - 1 /\ lModel = [of |-> lManifest, whole |-> TRUE]
    <3> SUFFICES ASSUME lManifest # -1 PROVE lManifest = FitEpochs - 1 /\ lModel = [of |-> lManifest, whole |-> TRUE]
        OBVIOUS
    <3>1. lManifest = FitEpochs - 1 /\ lModel.of = lManifest /\ lModel.whole
          BY DEF Models, HalfTold
    <3>2. lModel \in ModelType /\ lModel.whole = TRUE
          BY <3>1 DEF TrainingTypes, ModelType
    <3>3. lModel = [of |-> lModel.of, whole |-> lModel.whole]
          BY <3>2 DEF ModelType
    <3> QED BY <3>1, <3>2, <3>3
  <2>2. lKilled => lManifest = -1
        BY DEF Models, HalfTold
  <2>3. (lBuilder = "left" /\ O!Last(lProgress).phase = "stopped") => lModel.whole
    <3> SUFFICES ASSUME lBuilder = "left", O!Last(lProgress).phase = "stopped" PROVE lModel.whole
        OBVIOUS
    <3>1. Told /\ lPc # "killed"
          BY DEF Stops
    <3>2. lPc \notin {"copying", "finalcopy"}
          BY <3>1 DEF Packets, Stops, TrainingStages
    <3>3. ~Erred
          BY Zenon DEF Erred, O!Last
    <3> QED BY <3>1, <3>2, <3>3 DEF Models, HalfTold
  <2>4. lPc = "out" => O!Last(lProgress).phase \in O!Final
        BY <1>2 DEF Packets
  <2> QED BY <2>1, <2>2, <2>3, <2>4, Zenon DEF O!ResultComplete
<1>5. O!TrainingTypeOK
      BY DEF TrainingTypes, ModelType, O!TrainingTypeOK
<1> QED BY <1>3, <1>4, <1>5 DEF O!TrainingHolds

\* A training without a server ends once, with the packets of its epochs in order before that;
\* its result is of the last epoch and of the whole model beside the checkpoint; the builder
\* has read all when it removes the directory.
THEOREM Trained == O!Spec => [](O!TrainingHolds /\ O!TrainingTypeOK)
<1>1. O!Init => TrainingInv
      BY TrainingStart
<1>2. TrainingInv /\ [O!Next]_(O!vars) => TrainingInv'
      BY TrainingStep
<1>3. TrainingInv => O!TrainingHolds /\ O!TrainingTypeOK
      BY TrainingShown
<1> QED BY <1>1, <1>2, <1>3, PTL DEF O!Spec

-----------------------------------------------------------------------------
(* What an on-prem job trains on and leaves                                    *)

AnyBundle == Bundle \cup {NoBundle}
\* Every row was trained on in all epochs that are over, and in this one if it was taken.
SeenBy(n, taken) == kSeen = [i \in 1..kData.x |-> IF i \in taken THEN n + 1 ELSE n]

Unsynced == ""
\* The fingerprint, if there is one, is that of the content the last whole session left.
CacheInv ==
  /\ kHeld \in Fingerprint /\ kSynced \in Fingerprint /\ kSyncs \in 0..MaxSyncs /\ kOpen \in 0..kSyncs
  /\ kAgreed \in Fingerprint /\ (kSynced = Unsynced \/ kSynced = kAgreed)
CacheKept ==
  /\ kHeld' = kHeld /\ kSynced' = kSynced /\ kSyncs' = kSyncs /\ kOpen' = kOpen
  /\ kAgreed' = kAgreed

JobTypes ==
  /\ kBundle \in AnyBundle /\ kStop \in BOOLEAN
  /\ kStage \in {"none", "new", "started", "epoch", "batch"} \cup K!Ended
  /\ DOMAIN kData = DOMAIN K!Nothing /\ kData.x \in Nat
  /\ kEpoch \in Nat /\ kEpoch <= kBundle.epochs /\ kLeft \subseteq 1..kData.x
  /\ kSeen \in Seq(Nat) /\ kModel \in Nat /\ kModel <= kBundle.epochs
  /\ kEvents \in Seq(Nat)
Progressed ==
  /\ kLines = [i \in 1..kEpoch |-> i]
  /\ kModel \in {kEpoch, kEpoch + 1}
  /\ kStage \in {"none", "new", "started"} => kEpoch = 0
  /\ kStage \in {"none", "new", "started", "epoch", "batch", "completed"} => kModel = kEpoch
  /\ kStage \in {"none", "new"} => kEvents = <<>> /\ kLeft = {}
  /\ kEvents # <<>> => kEvents = <<0>> \o kLines
  /\ kStage \in {"started", "epoch", "batch", "completed"} => kEvents # <<>>
  /\ kStage = "batch" => kEpoch < kBundle.epochs
  /\ kStage \in {"started", "epoch", "completed"} => SeenBy(kEpoch, {})
  /\ kStage = "batch" => SeenBy(kEpoch, 1..kData.x \ kLeft)
Kept ==
  /\ kStage # "completed" => kSnapshot = K!NoSnapshot
  /\ kStage = "completed" =>
       /\ kEpoch = kBundle.epochs
       /\ kSnapshot = [model |-> kEpoch, metrics |-> kLines, last |-> kEpoch]
Checked ==
  /\ kStage \in {"epoch", "batch", "completed"} => K!LabelsFit(kBundle, kData)
  /\ kLines # <<>> => K!Indexable
  /\ kStage \in {"none", "new"} => kData.source = "none"
  /\ K!RowsAsNamed
JobInv == JobTypes /\ CacheInv /\ Progressed /\ Kept /\ Checked

LEMMA CacheSame == ASSUME CacheInv, CacheKept PROVE CacheInv'
BY SMTT(30) DEF CacheInv, CacheKept

LEMMA AnyEpochs == ASSUME NEW b \in AnyBundle PROVE b.epochs \in Nat \ {0}
BY BundleAssumption DEF AnyBundle

\* The stage that follows, with nothing else changed, keeps what does not depend on it.
LEMMA NothingIs == /\ K!Nothing.source = "none" /\ K!Nothing.x = 0
BY DEF K!Nothing

LEMMA JobStart == K!Init => JobInv
<1> SUFFICES ASSUME K!Init PROVE JobInv
    OBVIOUS
<1>0. /\ kBundle = NoBundle /\ kHeld = "" /\ kSynced = "" /\ kSyncs = 0 /\ kOpen = 0 /\ kAgreed = ""
      /\ kStop = FALSE /\ kStage = "none"
      /\ kData = K!Nothing /\ kEpoch = 0 /\ kLeft = {} /\ kSeen = <<>> /\ kModel = 0 /\ kLines = <<>>
      /\ kEvents = <<>> /\ kSnapshot = K!NoSnapshot
      BY Zenon DEF K!Init
<1>1. JobTypes
  <2>1. kBundle \in AnyBundle /\ 0 <= kBundle.epochs
    <3>1. NoBundle \in AnyBundle
          BY DEF AnyBundle
    <3>2. NoBundle.epochs \in Nat
          BY <3>1, AnyEpochs
    <3>3. kBundle = NoBundle
          BY <1>0, Zenon
    <3> QED BY <3>1, <3>2, <3>3
  <2>3. DOMAIN kData = DOMAIN K!Nothing /\ kData.x = 0
        BY <1>0, NothingIs
  <2>4. kSeen \in Seq(Nat) /\ kEvents \in Seq(Nat)
    <3>1. <<>> \in Seq(Nat)
          OBVIOUS
    <3> QED BY <1>0, <3>1
  <2>5. kLeft \subseteq 1..kData.x
        BY <1>0
  <2>6. kStop \in BOOLEAN /\ kEpoch \in Nat /\ kModel \in Nat
        BY <1>0
  <2>7. kStage \in {"none", "new", "started", "epoch", "batch"} \cup K!Ended
        BY <1>0
  <2>8. kEpoch <= kBundle.epochs /\ kModel <= kBundle.epochs
        BY <1>0, <2>1
  <2> QED BY <2>1, <2>3, <2>4, <2>5, <2>6, <2>7, <2>8 DEF JobTypes
<1>2. Progressed
  <2>1. kLines = [i \in 1..kEpoch |-> i]
    <3>1. [i \in 1..0 |-> i] = <<>>
          OBVIOUS
    <3> QED BY <1>0, <3>1
  <2> QED BY <1>0, <2>1 DEF Progressed
<1>3. Kept
      BY <1>0 DEF Kept
<1>4. Checked
      BY <1>0, NothingIs DEF Checked, K!RowsAsNamed
<1>5. CacheInv
  <2>1. Unsynced \in Fingerprint /\ MaxSyncs \in Nat
        BY BundleAssumption, Zenon DEF Unsynced
  <2>2. kHeld = Unsynced /\ kSynced = Unsynced /\ kAgreed = Unsynced /\ kSyncs = 0 /\ kOpen = 0
        BY <1>0, Zenon DEF Unsynced
  <2>3. kSyncs \in 0..MaxSyncs /\ kOpen \in 0..kSyncs
        BY SMTT(30), <2>1, <2>2
  <2> QED BY <2>1, <2>2, <2>3 DEF CacheInv
<1> QED BY <1>1, <1>2, <1>3, <1>4, <1>5 DEF JobInv

LEMMA FlatIs == ASSUME NEW a \in Arrays PROVE K!Flat(a).x = a.x
<1> DEFINE n == IF a.ndim = 2 /\ Len(a.y[1]) = 1 THEN 1 ELSE a.ndim
<1>1. K!Flat(a) = [a EXCEPT !.ndim = n]
      BY DEF K!Flat
<1> HIDE DEF n
<1> QED BY <1>1 DEF Arrays

\* The rows a dataset reference stands for: a synchronised one has those that are there.
LEMMA ResolvedIs ==
  ASSUME NEW b \in AnyBundle, CacheInv, NEW d \in K!Resolved(b)
  PROVE  /\ d.train.x \in Int
         /\ d.source = "local" => /\ b.fp \in {"", d.fp} /\ d.fp = kSynced
                                  /\ d.train = K!Flat(RowsOf[kHeld])
<1>0. /\ b.type \in {"none", "uploaded", "public", "local"} /\ b.train \in Arrays /\ b.val \in Arrays
      BY BundleAssumption DEF AnyBundle
<1>1. ASSUME NEW e \in K!UploadedData(b) PROVE e.train.x \in Int /\ e.source = "uploaded"
  <2>1. e = [source |-> "uploaded", fp |-> "", train |-> b.train, val |-> b.val]
        BY <1>1, Zenon DEF K!UploadedData
  <2>2. e.train = b.train /\ e.source = "uploaded"
        BY <2>1
  <2> QED BY <1>0, <2>2 DEF Arrays
<1>2. ASSUME NEW e \in K!PublicData(b) PROVE e.train.x \in Int /\ e.source = "public"
  <2>1. PICK i \in DOMAIN Public :
          e = [source |-> "public", fp |-> b.fp, train |-> Public[i].train, val |-> Public[i].val]
        BY <1>2 DEF K!PublicData
  <2>2. e.train = Public[i].train /\ e.source = "public"
        BY <2>1
  <2>3. Public[i].train \in Arrays
        BY BundleAssumption
  <2> QED BY <2>2, <2>3 DEF Arrays
<1>3. ASSUME NEW e \in K!LocalData(b)
      PROVE  /\ e.train.x \in Int /\ b.fp \in {"", e.fp} /\ e.fp = kSynced
             /\ e.train = K!Flat(RowsOf[kHeld])
  <2>1. /\ e = [source |-> "local", fp |-> kSynced, train |-> K!Flat(RowsOf[kHeld]), val |-> NoArrays]
        /\ b.fp \in {"", kSynced}
        BY <1>3, Zenon DEF K!LocalData
  <2>2. e.train = K!Flat(RowsOf[kHeld]) /\ e.fp = kSynced
        BY <2>1
  <2>3. RowsOf[kHeld] \in Arrays
        BY BundleAssumption DEF CacheInv
  <2>4. e.train.x \in Int
        BY <2>2, <2>3, FlatIs DEF Arrays
  <2> QED BY <2>1, <2>2, <2>4
<1>4. CASE b.type \in {"none", "uploaded"}
  <2>1. d \in K!UploadedData(b)
        BY <1>4 DEF K!Resolved
  <2> QED BY <1>1, <2>1
<1>5. CASE b.type = "public"
  <2>1. d \in K!PublicData(b)
        BY <1>5 DEF K!Resolved
  <2> QED BY <1>2, <2>1
<1>6. CASE b.type = "local"
  <2>1. d \in K!LocalData(b)
        BY <1>6 DEF K!Resolved
  <2> QED BY <1>3, <2>1
<1> QED BY <1>0, <1>4, <1>5, <1>6

LEMMA PreparedIs ==
  ASSUME NEW b \in AnyBundle, CacheInv, NEW d \in K!Resolved(b)
  PROVE  /\ DOMAIN K!Prepared(b, d) = DOMAIN K!Nothing /\ K!Prepared(b, d).x \in Int
         /\ (K!Prepared(b, d).source = "local" /\ b.fp # "") =>
              /\ K!Prepared(b, d).fp = b.fp
              /\ kHeld = kAgreed => K!Prepared(b, d).y = K!Targets(b, K!Flat(RowsOf[b.fp]))
<1> DEFINE v == IF d.val = NoArrays THEN d.train ELSE d.val
           u == K!Targets(b, d.train)
           w == K!Targets(b, v)
           p == K!Prepared(b, d)
<1>1. p = [source |-> d.source, fp |-> d.fp, x |-> d.train.x, y |-> u, vx |-> v.x, vy |-> w]
      BY DEF K!Prepared
<1>2. u = K!Targets(b, d.train)
      OBVIOUS
<1> HIDE DEF v, u, w, p
<1>3. DOMAIN p = DOMAIN K!Nothing
      BY <1>1 DEF K!Nothing
<1>4. p.source = d.source /\ p.fp = d.fp /\ p.x = d.train.x /\ p.y = u
      BY <1>1
<1>5. p.x \in Int
      BY <1>4, ResolvedIs
<1>6. ASSUME p.source = "local", b.fp # ""
      PROVE  p.fp = b.fp /\ (kHeld = kAgreed => p.y = K!Targets(b, K!Flat(RowsOf[b.fp])))
  <2>1. b.fp \in {"", d.fp} /\ d.fp = kSynced /\ d.train = K!Flat(RowsOf[kHeld])
        BY <1>4, <1>6, ResolvedIs
  <2>2. b.fp = d.fp
        BY <1>6, <2>1
  <2>3. kHeld = kAgreed => kHeld = b.fp
        BY <1>6, <2>1, <2>2, Zenon DEF CacheInv, Unsynced
  <2> QED BY <1>2, <1>4, <2>1, <2>2, <2>3
<1> QED BY <1>3, <1>5, <1>6 DEF p

\* What is said of the stages, of a step that changes nothing but the stage.
Still(stage) ==
  /\ kBundle' = kBundle /\ CacheKept /\ kData' = kData
  /\ kEpoch' = kEpoch /\ kSeen' = kSeen /\ kModel' = kModel /\ kLines' = kLines
  /\ kEvents' = kEvents /\ kSnapshot' = kSnapshot /\ kStage' = stage

LEMMA SubmitStep == ASSUME JobInv, NEW b \in Bundle, K!Submit(b) PROVE JobInv'
<1> USE DEF JobInv
<1>0. /\ kStage = "none" /\ kStage' = "new" /\ kBundle' = b
      /\ CacheKept /\ kStop' = kStop /\ kData' = kData /\ kEpoch' = kEpoch
      /\ kLeft' = kLeft /\ kSeen' = kSeen /\ kModel' = kModel /\ kLines' = kLines
      /\ kEvents' = kEvents /\ kSnapshot' = kSnapshot
      BY Zenon DEF K!Submit, CacheKept, K!cache
<1>1. b \in AnyBundle /\ b.epochs \in Nat \ {0}
      BY AnyEpochs DEF AnyBundle
<1>2. kEpoch = 0 /\ kModel = 0 /\ kEvents = <<>> /\ kData.source = "none"
      BY <1>0 DEF Progressed, Checked
<1>3. JobTypes'
      BY <1>0, <1>1, <1>2 DEF JobTypes
<1>4. Progressed'
      BY <1>0, <1>2 DEF Progressed
<1>5. Kept'
      BY <1>0 DEF Kept
<1>6. Checked'
  <2>1. kLines' = <<>>
    <3>1. kLines' = [i \in 1..0 |-> i]
          BY <1>0, <1>2 DEF Progressed
    <3> QED BY <3>1
  <2> QED BY <1>0, <1>2, <2>1 DEF Checked, K!RowsAsNamed, CacheKept
<1> QED BY <1>0, <1>3, <1>4, <1>5, <1>6, CacheSame

\* What others do while the job waits or runs.
LEMMA AroundStep ==
  ASSUME JobInv, (\E f \in Fingerprint : K!Announce(f) \/ K!Apply(f) \/ K!BreakOff(f)) \/ K!RequestStop
  PROVE  JobInv'
<1> USE DEF JobInv
<1>0. /\ kStage' = kStage /\ kBundle' = kBundle /\ kData' = kData /\ kEpoch' = kEpoch /\ kLeft' = kLeft
      /\ kSeen' = kSeen /\ kModel' = kModel /\ kLines' = kLines /\ kEvents' = kEvents
      /\ kSnapshot' = kSnapshot
      BY Zenon DEF K!Announce, K!Apply, K!BreakOff, K!Synchronising, K!RequestStop
<1>1. kStop' \in BOOLEAN
  <2>1. kStop' = TRUE \/ kStop' = kStop
        BY Zenon DEF K!Announce, K!Apply, K!BreakOff, K!Synchronising, K!RequestStop
  <2> QED BY <2>1, Zenon DEF JobTypes
<1>6. CacheInv' /\ (kStage = "new" \/ (kHeld' = kHeld /\ kAgreed' = kAgreed))
  <2>0. MaxSyncs \in Nat /\ Unsynced \in Fingerprint
        BY BundleAssumption, Zenon DEF Unsynced
  <2>1. CASE K!RequestStop
    <3>1. CacheKept
          BY <2>1, Zenon DEF K!RequestStop, CacheKept, K!cache
    <3> QED BY <3>1, CacheSame DEF CacheKept
  <2>2. ASSUME NEW f \in Fingerprint, K!Announce(f) PROVE CacheInv' /\ kStage = "new"
    <3>1. /\ kHeld' = f /\ (kSynced' = kSynced \/ kSynced' = Unsynced) /\ kAgreed' = kAgreed
          /\ kSyncs < MaxSyncs /\ kSyncs' = kSyncs + 1 /\ kOpen' = kOpen + 1
          /\ kStage = "new"
          BY <2>2, Zenon DEF K!Announce, K!Synchronising, Unsynced
    <3>2. kSyncs' \in 0..MaxSyncs /\ kOpen' \in 0..kSyncs'
          BY <2>0, <3>1 DEF CacheInv
    <3> QED BY <2>0, <3>1, <3>2 DEF CacheInv
  <2>3. ASSUME NEW f \in Fingerprint, K!Apply(f) \/ K!BreakOff(f)
        PROVE  CacheInv' /\ kStage = "new"
    <3>1. /\ kHeld' = f /\ kOpen > 0 /\ kOpen' = kOpen - 1 /\ kSyncs' = kSyncs
          /\ \/ kSynced' = f /\ kAgreed' = f
             \/ kSynced' = kSynced /\ kAgreed' = kAgreed
          /\ kStage = "new"
          BY <2>3, Zenon DEF K!Apply, K!BreakOff, K!Synchronising
    <3>2. kSyncs' \in 0..MaxSyncs /\ kOpen' \in 0..kSyncs'
          BY <2>0, <3>1 DEF CacheInv
    <3> QED BY <2>0, <3>1, <3>2 DEF CacheInv
  <2> QED BY <2>1, <2>2, <2>3
<1>2. JobTypes'
      BY <1>0, <1>1 DEF JobTypes
<1>3. Progressed'
      BY <1>0 DEF Progressed, SeenBy
<1>4. Kept'
      BY <1>0 DEF Kept
<1>5. Checked'
  <2>1. kStage = "new" => kData.source = "none"
        BY DEF Checked
  <2>2. K!RowsAsNamed'
        BY <1>0, <1>6, <2>1 DEF Checked, K!RowsAsNamed
  <2> QED BY <1>0, <2>2 DEF Checked, K!LabelsFit, K!Indexable, K!Mse
<1> QED BY <1>2, <1>3, <1>4, <1>5, <1>6

\* A training that ends before it is complete leaves what it has written.
LEMMA EndedStep ==
  ASSUME JobInv, kStage # "completed",
         \/ Still("stopped")
         \/ Still("failed"),
         kStop' = kStop, kLeft' = kLeft
  PROVE  JobInv'
<1> USE DEF JobInv, Still
<1>0. kStage' \in {"stopped", "failed"}
      OBVIOUS
<1>1. JobTypes'
      BY <1>0 DEF JobTypes, K!Ended
<1>2. Progressed'
      BY <1>0 DEF Progressed
<1>3. Kept'
      BY <1>0 DEF Kept
<1>4. Checked'
      BY <1>0 DEF Checked, K!Indexable, K!RowsAsNamed, K!Mse, CacheKept
<1> QED BY <1>1, <1>2, <1>3, <1>4, CacheSame

LEMMA FailStep == ASSUME JobInv, kStage # "completed", K!Fail PROVE JobInv'
<1>1. Still("failed") /\ kStop' = kStop /\ kLeft' = kLeft
      BY Zenon DEF K!Fail, CacheKept, K!cache, Still
<1> QED BY <1>1, EndedStep

LEMMA LeaveStep == ASSUME JobInv, K!Leave PROVE JobInv'
<1>1. Still("stopped") /\ kStop' = kStop /\ kLeft' = kLeft /\ kStage \in {"started", "epoch", "batch"}
      BY Zenon DEF K!Leave, CacheKept, K!cache, Still
<1> QED BY <1>1, EndedStep

LEMMA LoadJob == ASSUME JobInv, K!Load PROVE JobInv'
<1> USE DEF JobInv
<1> DEFINE ready == {p \in {K!Prepared(kBundle, d) : d \in K!Resolved(kBundle)} : K!Usable(p)}
<1> DEFINE begun == <<0>>
<1>0. kStage = "new"
      BY Zenon DEF K!Load, CacheKept, K!cache
<1>1. CASE ready = {} /\ K!Fail
      BY <1>0, <1>1, FailStep
<1>2. ASSUME NEW p \in ready,
             /\ kData' = p /\ kStage' = "started"
             /\ kSeen' = [i \in 1..p.x |-> 0]
             /\ kEvents' = begun
             /\ kBundle' = kBundle /\ CacheKept /\ kStop' = kStop
             /\ kEpoch' = kEpoch /\ kLeft' = kLeft /\ kModel' = kModel /\ kLines' = kLines
             /\ kSnapshot' = kSnapshot
      PROVE  JobInv'
  <2> HIDE DEF ready
  <2>0. kEpoch = 0 /\ kModel = 0 /\ kLines = <<>> /\ kLeft = {}
    <3>1. kLines = [i \in 1..0 |-> i] /\ kEpoch = 0 /\ kModel = 0 /\ kLeft = {}
          BY <1>0 DEF Progressed
    <3> QED BY <3>1
  <2>1. PICK d \in K!Resolved(kBundle) : p = K!Prepared(kBundle, d) /\ K!Usable(p)
        BY <1>2, Zenon DEF ready
  <2>2. kBundle \in AnyBundle /\ CacheInv /\ kBundle.epochs \in Nat \ {0}
        BY AnyEpochs DEF JobTypes
  <2>3. /\ DOMAIN p = DOMAIN K!Nothing /\ p.x \in Int
        /\ (p.source = "local" /\ kBundle.fp # "") =>
             /\ p.fp = kBundle.fp
             /\ kHeld = kAgreed => p.y = K!Targets(kBundle, K!Flat(RowsOf[kBundle.fp]))
        BY <2>1, <2>2, PreparedIs
  <2>4. p.x \in Nat
    <3>1. p.x > 0
          BY <2>1, Zenon DEF K!Usable
    <3>2. p.x \in Int
          BY <2>3
    <3> QED BY <3>1, <3>2
  <2>5. <<0>> \in Seq(Nat) /\ <<0>> # <<>> /\ <<0>> \o <<>> = <<0>>
        BY ConcatEmptySeq
  <2>6. [i \in 1..p.x |-> 0] \in Seq(Nat)
        BY <2>4
  <2>7. JobTypes'
    <3>1. DOMAIN kData' = DOMAIN K!Nothing /\ kData'.x \in Nat /\ kLeft' \subseteq 1..kData'.x
          BY <1>2, <2>0, <2>3, <2>4
    <3>2. kSeen' \in Seq(Nat) /\ kEvents' \in Seq(Nat)
          BY <1>2, <2>5, <2>6
    <3> QED BY <1>2, <3>1, <3>2 DEF JobTypes
  <2>8. Progressed'
    <3>1. kSeen' = [i \in 1..p.x |-> IF i \in {} THEN 0 + 1 ELSE 0]
          BY <1>2
    <3>2. SeenBy(kEpoch, {})'
          BY <1>2, <2>0, <3>1 DEF SeenBy
    <3>3. kEvents' = <<0>> \o kLines' /\ kEvents' # <<>>
          BY <1>2, <2>0, <2>5
    <3> QED BY <1>0, <1>2, <2>0, <3>2, <3>3 DEF Progressed
  <2>9. Kept'
        BY <1>0, <1>2 DEF Kept
  <2>10. Checked'
    <3>1. K!RowsAsNamed'
          BY <1>2, <2>3, Zenon DEF K!RowsAsNamed, CacheKept
    <3> QED BY <1>2, <2>0, <3>1 DEF Checked
  <2> QED BY <1>2, <2>7, <2>8, <2>9, <2>10, CacheSame
<1> QED BY <1>1, <1>2, Zenon DEF K!Load, CacheKept, K!cache

\* The checks before the first epoch.
LEMMA PrepareStep == ASSUME JobInv, K!Prepare PROVE JobInv'
<1> USE DEF JobInv
<1>0. /\ Still("epoch") /\ kStop' = kStop /\ kLeft' = kLeft /\ kStage = "started"
      /\ K!LabelsFit(kBundle, kData)
      BY Zenon DEF K!Prepare, CacheKept, K!cache, Still
<1>1. JobTypes'
      BY <1>0 DEF JobTypes, Still
<1>2. Progressed'
      BY <1>0 DEF Progressed, Still, SeenBy
<1>3. Kept'
      BY <1>0 DEF Kept, Still
<1>4. Checked'
      BY <1>0 DEF Checked, Still, K!LabelsFit, K!Indexable, K!RowsAsNamed, K!Mse, CacheKept
<1> QED BY <1>0, <1>1, <1>2, <1>3, <1>4, CacheSame DEF Still

LEMMA EpochStep == ASSUME JobInv, K!StartEpoch PROVE JobInv'
<1> USE DEF JobInv
<1>0. /\ Still("batch") /\ kStop' = kStop /\ kLeft' = 1..kData.x /\ kStage = "epoch"
      /\ kEpoch < kBundle.epochs
      BY Zenon DEF K!StartEpoch, CacheKept, K!cache, Still
<1>1. JobTypes'
      BY <1>0 DEF JobTypes, Still
<1>2. Progressed'
  <2>1. 1..kData'.x \ kLeft' = {}
        BY <1>0 DEF Still
  <2>2. SeenBy(kEpoch, {})' /\ kLines' = kLines
        BY <1>0 DEF Progressed, SeenBy, Still
  <2> QED BY <1>0, <2>1, <2>2 DEF Progressed, Still
<1>3. Kept'
      BY <1>0 DEF Kept, Still
<1>4. Checked'
      BY <1>0 DEF Checked, Still, K!LabelsFit, K!Indexable, K!RowsAsNamed, K!Mse, CacheKept
<1> QED BY <1>0, <1>1, <1>2, <1>3, <1>4, CacheSame DEF Still

\* The rows of a batch are counted, and not taken again in the epoch.
LEMMA TrainStep == ASSUME JobInv, NEW s \in K!Batches, K!Train(s) PROVE JobInv'
<1> USE DEF JobInv
<1>0. /\ kStage = "batch" /\ kLeft' = kLeft \ s
      /\ kSeen' = [i \in DOMAIN kSeen |-> IF i \in s THEN kSeen[i] + 1 ELSE kSeen[i]]
      /\ kBundle' = kBundle /\ CacheKept /\ kStop' = kStop
      /\ kStage' = kStage /\ kData' = kData /\ kEpoch' = kEpoch /\ kModel' = kModel
      /\ kLines' = kLines /\ kEvents' = kEvents /\ kSnapshot' = kSnapshot
      BY Zenon DEF K!Train, CacheKept, K!cache
<1>1. s \subseteq kLeft
      BY Zenon DEF K!Batches
<1> DEFINE T0 == 1..kData.x \ kLeft
           T1 == 1..kData.x \ kLeft'
<1>2. kSeen = [i \in 1..kData.x |-> IF i \in T0 THEN kEpoch + 1 ELSE kEpoch] /\ kEpoch \in Nat
      BY <1>0 DEF Progressed, SeenBy, JobTypes
<1>3. kLeft \subseteq 1..kData.x /\ kData.x \in Nat
      BY DEF JobTypes
<1>4. kSeen' = [i \in 1..kData.x |-> IF i \in T1 THEN kEpoch + 1 ELSE kEpoch]
  <2>1. DOMAIN kSeen = 1..kData.x
        BY <1>2
  <2>2. \A i \in 1..kData.x : (IF i \in s THEN kSeen[i] + 1 ELSE kSeen[i])
                               = IF i \in T1 THEN kEpoch + 1 ELSE kEpoch
        BY <1>0, <1>1, <1>2, <1>3
  <2> HIDE DEF T0, T1
  <2> QED BY <1>0, <2>1, <2>2
<1>5. kSeen' \in Seq(Nat)
  <2> HIDE DEF T0, T1
  <2>1. \A i \in 1..kData.x : (IF i \in T1 THEN kEpoch + 1 ELSE kEpoch) \in Nat
        BY <1>2
  <2> QED BY <1>3, <1>4, <2>1
<1>6. JobTypes'
      BY <1>0, <1>5 DEF JobTypes
<1>7. Progressed'
  <2>1. SeenBy(kEpoch, 1..kData.x \ kLeft)'
        BY <1>0, <1>4 DEF SeenBy
  <2> QED BY <1>0, <2>1 DEF Progressed
<1>8. Kept'
      BY <1>0 DEF Kept
<1>9. Checked'
      BY <1>0 DEF Checked, K!LabelsFit, K!Indexable, K!RowsAsNamed, K!Mse, CacheKept
<1> QED BY <1>0, CacheSame, <1>6, <1>7, <1>8, <1>9

LEMMA AddLine ==
  ASSUME NEW n \in Nat, NEW s, s = [i \in 1..n |-> i]
  PROVE  /\ Append(s, n + 1) = [i \in 1..n + 1 |-> i] /\ Append(s, n + 1) # <<>>
         /\ <<0>> \o Append(s, n + 1) = Append(<<0>> \o s, n + 1)
         /\ s \in Seq(Nat) /\ Len(s) = n
<1>1. s \in Seq(Nat) /\ Len(s) = n /\ \A i \in 1..n : s[i] = i
      OBVIOUS
<1> DEFINE t == Append(s, n + 1)
           r == [i \in 1..n + 1 |-> i]
<1>2. t \in Seq(Nat) /\ Len(t) = n + 1 /\ t # <<>> /\ t[n + 1] = n + 1 /\ \A i \in 1..n : t[i] = s[i]
      BY <1>1
<1>3. r \in Seq(Nat) /\ Len(r) = n + 1 /\ \A i \in 1..n + 1 : r[i] = i
      OBVIOUS
<1>4. t = r
  <2> HIDE DEF t, r
  <2>1. \A i \in 1..Len(t) : t[i] = r[i]
        BY <1>1, <1>2, <1>3
  <2> QED BY <1>2, <1>3, <2>1, SeqEqual
<1>5. <<0>> \o t = Append(<<0>> \o s, n + 1)
  <2> DEFINE z == <<0>>
             e == n + 1
             x == <<e>>
  <2>1. z \in Seq(Nat) /\ e \in Nat /\ x \in Seq(Nat)
        OBVIOUS
  <2>2. x = <<e>> /\ t = Append(s, e)
        OBVIOUS
  <2> HIDE DEF z, e, x, t
  <2>3. t = s \o x
        BY <1>1, <2>1, <2>2, AppendIsConcat
  <2>4. z \o s \in Seq(Nat)
        BY <1>1, <2>1
  <2>5. Append(z \o s, e) = (z \o s) \o x
        BY <2>1, <2>2, <2>4, AppendIsConcat
  <2>6. (z \o s) \o x = z \o (s \o x)
        BY <1>1, <2>1, ConcatAssociative
  <2>7. z \o t = Append(z \o s, e)
        BY <2>3, <2>5, <2>6
  <2> QED BY <2>7 DEF z, e
<1> QED BY <1>1, <1>2, <1>4, <1>5

\* The model of the epoch is exported; a label that has no class ends the training there.
LEMMA EndEpochStep == ASSUME JobInv, K!EndEpoch PROVE JobInv'
<1> USE DEF JobInv
<1>0. /\ kStage = "batch" /\ kLeft = {} /\ kModel' = kEpoch + 1
      /\ kBundle' = kBundle /\ CacheKept /\ kStop' = kStop
      /\ kData' = kData /\ kLeft' = kLeft /\ kSeen' = kSeen /\ kSnapshot' = kSnapshot
      BY Zenon DEF K!EndEpoch, CacheKept, K!cache
<1>1. kEpoch < kBundle.epochs /\ kBundle.epochs \in Nat \ {0} /\ kEpoch \in Nat
      BY <1>0, AnyEpochs DEF Progressed, JobTypes
<1>2. kLines = [i \in 1..kEpoch |-> i]
      BY DEF Progressed
<1>3. 1..kData.x \ kLeft = 1..kData.x /\ SeenBy(kEpoch, 1..kData.x)
  <2>1. 1..kData.x \ kLeft = 1..kData.x
        BY <1>0
  <2> QED BY <1>0, <2>1 DEF Progressed
<1>4. CASE ~K!Indexable
  <2>1. kStage' = "failed" /\ kEpoch' = kEpoch /\ kLines' = kLines /\ kEvents' = kEvents
        BY <1>4, Zenon DEF K!EndEpoch, CacheKept, K!cache
  <2>2. JobTypes'
        BY <1>0, <1>1, <2>1 DEF JobTypes, K!Ended
  <2>3. Progressed'
        BY <1>0, <1>1, <2>1 DEF Progressed
  <2>4. Kept'
        BY <1>0, <2>1 DEF Kept
  <2>5. Checked'
        BY <1>0, <2>1 DEF Checked, K!Indexable, K!RowsAsNamed, K!Mse, CacheKept
  <2> QED BY <1>0, <2>2, <2>3, <2>4, <2>5, CacheSame
<1>5. CASE K!Indexable
  <2>1. kStage' = "epoch" /\ kEpoch' = kEpoch + 1 /\ kLines' = Append(kLines, kEpoch')
        /\ kEvents' = Append(kEvents, kEpoch')
        BY <1>5, Zenon DEF K!EndEpoch, CacheKept, K!cache
  <2>2. /\ kLines' = [i \in 1..kEpoch + 1 |-> i] /\ kLines' # <<>>
        /\ <<0>> \o kLines' = Append(<<0>> \o kLines, kEpoch + 1)
        BY <1>1, <1>2, <2>1, AddLine
  <2>3. kEvents' = <<0>> \o kLines' /\ kEvents' \in Seq(Nat) /\ kEvents' # <<>>
    <3>1. kEvents = <<0>> \o kLines /\ kEvents \in Seq(Nat)
          BY <1>0 DEF Progressed, JobTypes
    <3>2. kEvents' = Append(kEvents, kEpoch + 1)
          BY <2>1
    <3> DEFINE e == kEpoch + 1
    <3>3. e \in Nat
          BY <1>1
    <3>4. kEvents' = Append(kEvents, e)
          BY <3>2
    <3> HIDE DEF e
    <3>5. Append(kEvents, e) \in Seq(Nat) /\ Append(kEvents, e) # <<>>
          BY SMTT(30), <3>1, <3>3
    <3> QED BY <2>2, <3>1, <3>2, <3>4, <3>5
  <2>4. JobTypes'
        BY <1>0, <1>1, <2>1, <2>3 DEF JobTypes
  <2>5. Progressed'
    <3>1. SeenBy(kEpoch, {})'
      <4>1. kSeen = [i \in 1..kData.x |-> kEpoch + 1]
            BY <1>3 DEF SeenBy
      <4> QED BY <1>0, <2>1, <4>1 DEF SeenBy
    <3>2. kLines' = [i \in 1..kEpoch' |-> i]
          BY <2>1, <2>2
    <3> QED BY <1>0, <1>1, <2>1, <2>3, <3>1, <3>2 DEF Progressed
  <2>6. Kept'
        BY <1>0, <2>1 DEF Kept
  <2>7. Checked'
    <3>1. K!LabelsFit(kBundle, kData)
          BY <1>0 DEF Checked
    <3>2. K!Indexable' /\ K!LabelsFit(kBundle, kData)'
          BY <1>0, <1>5, <3>1 DEF K!Indexable, K!LabelsFit, K!Mse
    <3> QED BY <1>0, <2>1, <3>2 DEF Checked, K!RowsAsNamed, CacheKept
  <2> QED BY <1>0, <2>4, <2>5, <2>6, <2>7, CacheSame
<1> QED BY <1>4, <1>5

LEMMA SaveStep == ASSUME JobInv, K!Save PROVE JobInv'
<1> USE DEF JobInv
<1>0. /\ kStage = "epoch" /\ kEpoch = kBundle.epochs /\ kStage' = "completed"
      /\ kSnapshot' = [model |-> kModel, metrics |-> kLines, last |-> kLines[Len(kLines)]]
      /\ kBundle' = kBundle /\ CacheKept /\ kStop' = kStop
      /\ kData' = kData /\ kEpoch' = kEpoch /\ kLeft' = kLeft /\ kSeen' = kSeen /\ kModel' = kModel
      /\ kLines' = kLines /\ kEvents' = kEvents
      BY Zenon DEF K!Save, CacheKept, K!cache
<1>1. kEpoch \in Nat \ {0} /\ kModel = kEpoch /\ kLines = [i \in 1..kEpoch |-> i]
      BY <1>0, AnyEpochs DEF Progressed, JobTypes
<1>2. kLines[Len(kLines)] = kEpoch
      BY <1>1, AddLine
<1>3. JobTypes'
      BY <1>0 DEF JobTypes, K!Ended
<1>4. Progressed'
      BY <1>0 DEF Progressed, SeenBy
<1>5. Kept'
      BY <1>0, <1>1, <1>2 DEF Kept
<1>6. Checked'
      BY <1>0 DEF Checked, K!LabelsFit, K!Indexable, K!RowsAsNamed, K!Mse, CacheKept
<1> QED BY <1>0, CacheSame, <1>3, <1>4, <1>5, <1>6

LEMMA JobStep == JobInv /\ [K!Next]_(K!vars) => JobInv'
<1> SUFFICES ASSUME JobInv, [K!Next]_(K!vars) PROVE JobInv'
    OBVIOUS
<1>1. CASE \E b \in Bundle : K!Submit(b)
      BY <1>1, SubmitStep
<1>2. CASE (\E f \in Fingerprint : K!Announce(f) \/ K!Apply(f) \/ K!BreakOff(f)) \/ K!RequestStop
      BY <1>2, AroundStep
<1>3. CASE K!Leave
      BY <1>3, LeaveStep
<1>4. CASE K!Load
      BY <1>4, LoadJob
<1>5. CASE K!Prepare
      BY <1>5, PrepareStep
<1>6. CASE K!Refuse
  <2>1. K!Fail /\ kStage # "completed"
        BY <1>6 DEF K!Refuse
  <2> QED BY <2>1, FailStep
<1>7. CASE K!StartEpoch
      BY <1>7, EpochStep
<1>8. CASE K!EndEpoch
      BY <1>8, EndEpochStep
<1>9. CASE K!Save
      BY <1>9, SaveStep
<1>10. ASSUME NEW s \in K!Batches, K!Train(s) \/ K!TrainRaises(s) PROVE JobInv'
  <2>1. CASE K!Train(s)
        BY <2>1, TrainStep
  <2>2. CASE K!TrainRaises(s)
    <3>1. K!Fail /\ kStage # "completed"
          BY <2>2 DEF K!TrainRaises
    <3> QED BY <3>1, FailStep
  <2> QED BY <1>10, <2>1, <2>2
<1>11. CASE UNCHANGED K!vars
  <2>1. /\ kStage' = kStage /\ kBundle' = kBundle /\ CacheKept
        /\ kStop' = kStop /\ kData' = kData /\ kEpoch' = kEpoch /\ kLeft' = kLeft /\ kSeen' = kSeen
        /\ kModel' = kModel /\ kLines' = kLines /\ kEvents' = kEvents /\ kSnapshot' = kSnapshot
        BY <1>11, Zenon DEF K!vars, CacheKept
  <2>2. JobTypes' /\ Progressed' /\ Kept'
        BY SMTT(30), <2>1 DEF JobInv, JobTypes, Progressed, Kept, SeenBy
  <2>3. Checked'
        BY <2>1 DEF JobInv, Checked, K!LabelsFit, K!Indexable, K!RowsAsNamed, K!Mse, CacheKept
  <2> QED BY <2>1, <2>2, <2>3, CacheSame DEF JobInv
<1> QED BY <1>1, <1>2, <1>3, <1>4, <1>5, <1>6, <1>7, <1>8, <1>9, <1>10, <1>11, Zenon DEF K!Next

LEMMA JobShown == JobInv => K!TrainerHolds /\ K!TrainerTypeOK
<1> SUFFICES ASSUME JobInv PROVE K!TrainerHolds /\ K!TrainerTypeOK
    OBVIOUS
<1> USE DEF JobInv
<1>1. kBundle.epochs \in Nat \ {0} /\ kEpoch \in Nat /\ kEpoch <= kBundle.epochs
      BY AnyEpochs DEF JobTypes
<1>2. K!EachRowOnce
  <2>1. SeenBy(kEpoch, {}) => \A i \in DOMAIN kSeen : kSeen[i] = kEpoch
        BY DEF SeenBy
  <2> QED BY <2>1 DEF Progressed, Kept, K!EachRowOnce
<1>3. K!LabelsInRange
  <2> SUFFICES ASSUME ~K!Mse(kBundle)
               PROVE  /\ (kStage \in {"epoch", "batch", "completed"} /\ kBundle.declared > 0) =>
                           \A l \in K!Labels(kData.y) \cup K!Labels(kData.vy) : 0 <= l /\ l < kBundle.declared
                      /\ kLines # <<>> => \A l \in K!Labels(kData.vy) : l < kBundle.classes
      BY DEF K!LabelsInRange
  <2>1. kLines # <<>> => \A l \in K!Labels(kData.vy) : l < kBundle.classes
        BY Zenon DEF Checked, K!Indexable
  <2>2. ASSUME kStage \in {"epoch", "batch", "completed"}, kBundle.declared > 0
        PROVE  \A l \in K!Labels(kData.y) \cup K!Labels(kData.vy) : 0 <= l /\ l < kBundle.declared
    <3>1. K!LabelsFit(kBundle, kData) /\ kBundle.declared # 0
          BY <2>2 DEF Checked
    <3> QED BY <3>1 DEF K!LabelsFit
  <2> QED BY <2>1, <2>2
<1>4. K!ToldAlike
  <2>1. kStage = "completed" => kSnapshot # K!NoSnapshot
        BY <1>1 DEF Kept, K!NoSnapshot
  <2>2. (kSnapshot # K!NoSnapshot) = (kStage = "completed")
        BY <2>1 DEF Kept
  <2>3. kStage = "completed" =>
          kSnapshot = [model |-> kBundle.epochs, metrics |-> [i \in 1..kBundle.epochs |-> i],
                       last |-> kBundle.epochs]
        BY DEF Kept, Progressed
  <2> QED BY <2>2, <2>3, Zenon DEF Progressed, K!ToldAlike
<1>5. K!RowsAsNamed
      BY DEF Checked
<1>6. K!TrainerTypeOK
  <2>1. kEpoch \in 0..kBundle.epochs /\ kModel \in 0..kBundle.epochs
        BY <1>1 DEF JobTypes
  <2>2. kLines \in Seq(Nat)
        BY <1>1, AddLine DEF Progressed
  <2>3. DOMAIN kSnapshot = DOMAIN K!NoSnapshot
        BY DEF Kept, K!NoSnapshot
  <2>4. /\ kHeld \in Fingerprint /\ kSynced \in Fingerprint /\ kSyncs \in 0..MaxSyncs
        /\ kOpen \in 0..kSyncs /\ kAgreed \in Fingerprint
        BY DEF CacheInv
  <2> QED BY <2>1, <2>2, <2>3, <2>4, Zenon DEF JobTypes, AnyBundle, K!TrainerTypeOK
<1> QED BY <1>2, <1>3, <1>4, <1>5, <1>6 DEF K!TrainerHolds

\* An on-prem job trains on every row as often as on any other, with labels that have a class,
\* under the fingerprint that its bundle names and, if the cache is as the last session that
\* ended well left it, on the rows of that version; its events, metrics and archive tell the same.
THEOREM JobTrained == K!Spec => [](K!TrainerHolds /\ K!TrainerTypeOK)
<1>1. K!Init => JobInv
      BY JobStart
<1>2. JobInv /\ [K!Next]_(K!vars) => JobInv'
      BY JobStep
<1>3. JobInv => K!TrainerHolds /\ K!TrainerTypeOK
      BY JobShown
<1> QED BY <1>1, <1>2, <1>3, PTL DEF K!Spec

-----------------------------------------------------------------------------
(* The page of the on-prem runtime                                             *)

RefreshKind ==
  [at : {"idle", "asked", "thread", "answered", "locked"}, token : Token, current : BOOLEAN,
   asked : SUBSET Job, jobs : [Job -> P!State]]
CommandKind ==
  [kind : {"none", "upload", "stop"}, job : Job \cup {""}, token : Token,
   at : {"idle", "asked", "thread", "served", "refused"}]
ShownKind == [jobs : [Job -> P!State], current : BOOLEAN]
Begun == {"running", "ended", "gone"}
Over == {"ended", "gone"}

PageTypes ==
  /\ pJobs \in [Job -> P!State] /\ pLoop \in Job \cup {""} /\ pStops \subseteq Job
  /\ pEdits \in 0..MaxEdits /\ pToken \in Token
  /\ pRefresh \in [Slot -> RefreshKind] /\ pCommand \in CommandKind /\ pShown \in ShownKind
\* The job that runs holds the event loop.
Holding ==
  /\ pLoop # "" => pJobs[pLoop] = "running"
  /\ \A j \in Job : pJobs[j] = "running" => pLoop = j
\* What a refresh has read was so when nothing changed since; a job that it saw running has
\* begun, and is over when the event loop sends the answer.
Reads(r) ==
  /\ r.at = "answered" => r.asked = {}
  /\ r.current => /\ r.at = "asked" => r.token = pToken
                  /\ r.at \in {"thread", "answered"} => P!Accepted(pToken)
                  /\ \A j \in Job \ r.asked : r.jobs[j] = P!Visible(j)
  /\ \A j \in Job : r.jobs[j] = "running" => /\ pJobs[j] \in Begun
                                             /\ r.at = "answered" => pJobs[j] \in Over
Refreshes == \A k \in Slot : Reads(pRefresh[k])
Commands ==
  /\ pCommand.at # "idle" => pCommand.job \in Job
  /\ pCommand.at = "asked" /\ pCommand.kind = "upload" => pJobs[pCommand.job] = "absent"
Showing ==
  /\ pShown.current => (\A j \in Job : pShown.jobs[j] = P!Visible(j)) /\ P!Accepted(pToken)
  /\ \A j \in Job : pShown.jobs[j] = "running" => pJobs[j] \in Over
PageInv == PageTypes /\ Holding /\ Refreshes /\ Commands /\ Showing

LEMMA BlankIs == P!Blank \in [Job -> P!State] /\ \A j \in Job : P!Blank[j] = "absent"
BY DEF P!Blank, P!State

LEMMA IdleIs ==
  /\ P!Idle \in RefreshKind /\ P!Idle.at = "idle" /\ P!Idle.current = FALSE /\ P!Idle.jobs = P!Blank
<1> DEFINE f == FALSE
           b == P!Blank
           t == ""
<1>1. P!Idle = [at |-> "idle", token |-> t, current |-> f, asked |-> {}, jobs |-> b]
      BY DEF P!Idle
<1>2. f \in BOOLEAN /\ b \in [Job -> P!State] /\ t \in Token
      BY BlankIs, PageAssumption
<1> HIDE DEF f, b, t
<1>3. P!Idle \in RefreshKind
      BY <1>1, <1>2 DEF RefreshKind
<1>4. P!Idle.at = "idle" /\ P!Idle.current = f /\ P!Idle.jobs = b
      BY <1>1
<1> QED BY <1>3, <1>4 DEF f, b

LEMMA StartedIs ==
  ASSUME NEW t \in Token
  PROVE  /\ P!Started(t) \in RefreshKind /\ P!Started(t).at = "asked" /\ P!Started(t).token = t
         /\ P!Started(t).asked = Job /\ P!Started(t).jobs = P!Blank
<1> DEFINE c == TRUE
           i == P!Idle
           q == P!Started(t)
<1>1. q = [i EXCEPT !.at = "asked", !.token = t, !.current = c, !.asked = Job]
      BY DEF P!Started
<1>2. i \in RefreshKind /\ c \in BOOLEAN /\ i.jobs = P!Blank
      BY IdleIs
<1> HIDE DEF c, i, q
<1>3. q \in RefreshKind /\ q.at = "asked" /\ q.token = t /\ q.asked = Job /\ q.jobs = i.jobs
      BY <1>1, <1>2 DEF RefreshKind
<1> QED BY <1>2, <1>3 DEF q

\* What was asked before a change.
LEMMA OlderIs ==
  ASSUME NEW r \in RefreshKind
  PROVE  /\ [r EXCEPT !.current = FALSE] \in RefreshKind
         /\ [r EXCEPT !.current = FALSE].at = r.at /\ [r EXCEPT !.current = FALSE].token = r.token
         /\ [r EXCEPT !.current = FALSE].asked = r.asked /\ [r EXCEPT !.current = FALSE].jobs = r.jobs
         /\ ~[r EXCEPT !.current = FALSE].current
<1> DEFINE f == FALSE
           q == [r EXCEPT !.current = f]
<1>1. f \in BOOLEAN
      OBVIOUS
<1>2. q = [r EXCEPT !.current = f]
      OBVIOUS
<1> HIDE DEF f, q
<1>3. q \in RefreshKind /\ q.at = r.at /\ q.token = r.token /\ q.asked = r.asked /\ q.jobs = r.jobs
      /\ q.current = f
      BY <1>1, <1>2 DEF RefreshKind
<1>4. ~q.current
      BY <1>3 DEF f
<1> QED BY <1>3, <1>4 DEF q, f

LEMMA OutdatedIs ==
  ASSUME NEW r \in ShownKind
  PROVE  /\ [r EXCEPT !.current = FALSE] \in ShownKind /\ [r EXCEPT !.current = FALSE].jobs = r.jobs
         /\ ~[r EXCEPT !.current = FALSE].current
<1> DEFINE f == FALSE
           q == [r EXCEPT !.current = f]
<1>1. f \in BOOLEAN
      OBVIOUS
<1>2. q = [r EXCEPT !.current = f]
      OBVIOUS
<1> HIDE DEF f, q
<1>3. q \in ShownKind /\ q.jobs = r.jobs /\ q.current = f
      BY <1>1, <1>2 DEF ShownKind
<1>4. ~q.current
      BY <1>3 DEF f
<1> QED BY <1>3, <1>4 DEF q, f

LEMMA PageStart == P!Init => PageInv
<1> SUFFICES ASSUME P!Init PROVE PageInv
    OBVIOUS
<1> DEFINE s == [jobs |-> P!Blank, current |-> FALSE]
           f == FALSE
           t == ""
<1>0. /\ pJobs = P!Blank /\ pLoop = "" /\ pStops = {} /\ pEdits = 0 /\ pToken = t
      /\ pRefresh = [k \in Slot |-> P!Idle] /\ pCommand = P!NoCommand
      /\ pShown = [jobs |-> P!Blank, current |-> f]
      BY Zenon DEF P!Init
<1>1. f \in BOOLEAN /\ t \in Token /\ MaxEdits \in Nat /\ ~f
      BY PageAssumption
<1>2. pCommand = [kind |-> "none", job |-> "", token |-> t, at |-> "idle"]
      BY <1>0 DEF P!NoCommand
<1> HIDE DEF f, t
<1>3. pCommand \in CommandKind /\ pCommand.at = "idle"
      BY <1>1, <1>2 DEF CommandKind
<1>4. pShown \in ShownKind /\ ~pShown.current /\ pShown.jobs = P!Blank
      BY <1>0, <1>1, BlankIs DEF ShownKind
<1>5. PageTypes
  <2>1. pEdits \in 0..MaxEdits
    <3>1. pEdits = 0 /\ MaxEdits \in Nat
          BY <1>0, <1>1, Zenon
    <3> QED BY <3>1
  <2>2. pRefresh \in [Slot -> RefreshKind]
        BY <1>0, IdleIs
  <2> QED BY <1>0, <1>1, <1>3, <1>4, <2>1, <2>2, BlankIs DEF PageTypes
<1>6. \A j \in Job : pJobs[j] = "absent"
      BY <1>0, BlankIs
<1>7. Holding
      BY <1>0, <1>6 DEF Holding
<1>8. Refreshes
      BY <1>0, <1>6, IdleIs, BlankIs DEF Refreshes, Reads
<1>9. Commands
      BY <1>3 DEF Commands
<1>10. Showing
      BY <1>4, BlankIs DEF Showing
<1> QED BY <1>5, <1>7, <1>8, <1>9, <1>10 DEF PageInv

\* A job goes on, and everything that was asked before is of before.
LEMMA JobMoves ==
  ASSUME PageInv, NEW j \in Job, NEW st \in P!State, pJobs' = [pJobs EXCEPT ![j] = st],
         pShown' = [pShown EXCEPT !.current = FALSE],
         pRefresh' = [k \in Slot |-> [pRefresh[k] EXCEPT !.current = FALSE]],
         pStops' = pStops, pEdits' = pEdits, pToken' = pToken,
         pJobs[j] \in Begun => st \in Begun, pJobs[j] \in Over => st \in Over
  PROVE  /\ Refreshes' /\ Showing' /\ pJobs' \in [Job -> P!State]
         /\ pRefresh' \in [Slot -> RefreshKind] /\ pShown' \in ShownKind
<1> USE DEF PageInv
<1>0. pJobs \in [Job -> P!State] /\ pRefresh \in [Slot -> RefreshKind] /\ pShown \in ShownKind
      BY DEF PageTypes
<1>1. /\ pJobs' \in [Job -> P!State] /\ \A i \in Job : pJobs'[i] = IF i = j THEN st ELSE pJobs[i]
      BY <1>0
<1>2. \A i \in Job : /\ pJobs[i] \in Begun => pJobs'[i] \in Begun
                     /\ pJobs[i] \in Over => pJobs'[i] \in Over
      BY <1>1
<1>3. ASSUME NEW k \in Slot PROVE pRefresh'[k] \in RefreshKind /\ Reads(pRefresh[k])'
  <2>1. pRefresh[k] \in RefreshKind /\ pRefresh'[k] = [pRefresh[k] EXCEPT !.current = FALSE]
        BY <1>0
  <2>2. /\ pRefresh'[k] \in RefreshKind /\ pRefresh'[k].at = pRefresh[k].at
        /\ pRefresh'[k].asked = pRefresh[k].asked /\ pRefresh'[k].jobs = pRefresh[k].jobs
        /\ ~pRefresh'[k].current
        BY <2>1, OlderIs
  <2>3. Reads(pRefresh[k])
        BY DEF Refreshes
  <2> QED BY <1>2, <2>2, <2>3 DEF Reads
<1>4. pRefresh' \in [Slot -> RefreshKind]
      BY <1>3
<1>5. pShown' \in ShownKind /\ ~pShown'.current /\ pShown'.jobs = pShown.jobs
      BY <1>0, OutdatedIs
<1>6. Showing'
      BY <1>2, <1>5 DEF Showing
<1>7. Refreshes'
      BY <1>3 DEF Refreshes
<1> QED BY <1>1, <1>4, <1>5, <1>6, <1>7

LEMMA BeginJob == ASSUME PageInv, NEW j \in Job, P!Begin(j) PROVE PageInv'
<1> USE DEF PageInv
<1>0. /\ pLoop = "" /\ pJobs[j] = "queued" /\ pJobs' = [pJobs EXCEPT ![j] = "running"] /\ pLoop' = j
      /\ pShown' = [pShown EXCEPT !.current = FALSE]
      /\ pRefresh' = [k \in Slot |-> [pRefresh[k] EXCEPT !.current = FALSE]]
      /\ pStops' = pStops /\ pEdits' = pEdits /\ pToken' = pToken /\ pCommand' = pCommand
      BY Zenon DEF P!Begin, P!Outdated, P!Older
<1>1. /\ Refreshes' /\ Showing' /\ pJobs' \in [Job -> P!State]
      /\ pRefresh' \in [Slot -> RefreshKind] /\ pShown' \in ShownKind
  <2>1. "running" \in P!State
        BY DEF P!State
  <2>2. pJobs[j] \notin Begun /\ pJobs[j] \notin Over
        BY <1>0 DEF Begun, Over
  <2> QED BY <1>0, <2>1, <2>2, JobMoves
<1>2. \A i \in Job : pJobs'[i] = IF i = j THEN "running" ELSE pJobs[i]
      BY <1>0 DEF PageTypes
<1>3. PageTypes'
      BY <1>0, <1>1 DEF PageTypes
<1>4. Holding'
      BY <1>0, <1>2, PageAssumption DEF Holding
<1>5. Commands'
      BY <1>0, <1>2 DEF Commands
<1> QED BY <1>1, <1>3, <1>4, <1>5

LEMMA EndJob == ASSUME PageInv, NEW j \in Job, P!End(j) PROVE PageInv'
<1> USE DEF PageInv
<1>0. /\ pLoop = j /\ pJobs' = [pJobs EXCEPT ![j] = "ended"] /\ pLoop' = ""
      /\ pShown' = [pShown EXCEPT !.current = FALSE]
      /\ pRefresh' = [k \in Slot |-> [pRefresh[k] EXCEPT !.current = FALSE]]
      /\ pStops' = pStops /\ pEdits' = pEdits /\ pToken' = pToken /\ pCommand' = pCommand
      BY Zenon DEF P!End, P!Outdated, P!Older
<1>1. pJobs[j] = "running"
      BY <1>0, PageAssumption DEF Holding
<1>2. /\ Refreshes' /\ Showing' /\ pJobs' \in [Job -> P!State]
      /\ pRefresh' \in [Slot -> RefreshKind] /\ pShown' \in ShownKind
  <2>1. "ended" \in P!State /\ "ended" \in Begun /\ "ended" \in Over
        BY DEF P!State, Begun, Over
  <2> QED BY <1>0, <2>1, JobMoves
<1>3. \A i \in Job : pJobs'[i] = IF i = j THEN "ended" ELSE pJobs[i]
      BY <1>0 DEF PageTypes
<1>4. PageTypes'
      BY <1>0, <1>2 DEF PageTypes
<1>5. Holding'
  <2>1. pLoop' = "" /\ pLoop = j
        BY <1>0, Zenon
  <2>2. ASSUME NEW i \in Job PROVE pJobs'[i] # "running"
    <3>1. pJobs[i] = "running" => i = j
          BY <2>1, Zenon DEF Holding
    <3> QED BY <1>3, <3>1
  <2> QED BY <2>1, <2>2, Zenon DEF Holding
<1>6. Commands'
      BY <1>0, <1>1, <1>3 DEF Commands
<1> QED BY <1>2, <1>4, <1>5, <1>6

LEMMA CleanJob == ASSUME PageInv, NEW j \in Job, P!Clean(j) PROVE PageInv'
<1> USE DEF PageInv
<1>0. /\ pJobs[j] = "ended" /\ pJobs' = [pJobs EXCEPT ![j] = "gone"] /\ pLoop' = pLoop
      /\ pShown' = [pShown EXCEPT !.current = FALSE]
      /\ pRefresh' = [k \in Slot |-> [pRefresh[k] EXCEPT !.current = FALSE]]
      /\ pStops' = pStops /\ pEdits' = pEdits /\ pToken' = pToken /\ pCommand' = pCommand
      BY Zenon DEF P!Clean, P!Outdated, P!Older
<1>1. /\ Refreshes' /\ Showing' /\ pJobs' \in [Job -> P!State]
      /\ pRefresh' \in [Slot -> RefreshKind] /\ pShown' \in ShownKind
  <2>1. "gone" \in P!State /\ "gone" \in Begun /\ "gone" \in Over
        BY DEF P!State, Begun, Over
  <2> QED BY <1>0, <2>1, JobMoves
<1>2. \A i \in Job : pJobs'[i] = IF i = j THEN "gone" ELSE pJobs[i]
      BY <1>0 DEF PageTypes
<1>3. PageTypes'
      BY <1>0, <1>1 DEF PageTypes
<1>4. Holding'
      BY <1>0, <1>2 DEF Holding, PageTypes
<1>5. Commands'
      BY <1>0, <1>2 DEF Commands
<1> QED BY <1>1, <1>3, <1>4, <1>5

\* What happens to the command under way is seen in no refresh.
LEMMA CommandIs ==
  ASSUME NEW c \in CommandKind, NEW a \in {"served", "refused", "thread"}
  PROVE  /\ [c EXCEPT !.at = a] \in CommandKind /\ [c EXCEPT !.at = a].at = a
         /\ [c EXCEPT !.at = a].job = c.job /\ [c EXCEPT !.at = a].kind = c.kind
BY DEF CommandKind

LEMMA CreateStep == ASSUME PageInv, P!CreateJob PROVE PageInv'
<1> USE DEF PageInv
<1> DEFINE j == pCommand.job
<1>0. /\ pCommand.at = "asked" /\ pCommand.kind = "upload" /\ pLoop = ""
      /\ pJobs' = [pJobs EXCEPT ![j] = "queued"] /\ pLoop' = pLoop
      /\ pCommand' = [pCommand EXCEPT !.at = "served"]
      /\ pShown' = [pShown EXCEPT !.current = FALSE]
      /\ pRefresh' = [k \in Slot |-> [pRefresh[k] EXCEPT !.current = FALSE]]
      /\ pStops' = pStops /\ pEdits' = pEdits /\ pToken' = pToken
      BY Zenon DEF P!CreateJob, P!Outdated, P!Older
<1>1. j \in Job /\ pJobs[j] = "absent" /\ pCommand \in CommandKind
      BY <1>0 DEF Commands, PageTypes
<1>2. pCommand' \in CommandKind /\ pCommand'.at = "served" /\ pCommand'.job = j
      BY <1>0, <1>1, CommandIs
<1> HIDE DEF j
<1>3. /\ Refreshes' /\ Showing' /\ pJobs' \in [Job -> P!State]
      /\ pRefresh' \in [Slot -> RefreshKind] /\ pShown' \in ShownKind
  <2>1. "queued" \in P!State /\ pJobs[j] \notin Begun /\ pJobs[j] \notin Over
        BY <1>1 DEF P!State, Begun, Over
  <2> QED BY <1>0, <1>1, <2>1, JobMoves
<1>4. \A i \in Job : pJobs'[i] = IF i = j THEN "queued" ELSE pJobs[i]
      BY <1>0 DEF PageTypes
<1>5. PageTypes'
      BY <1>0, <1>2, <1>3 DEF PageTypes
<1>6. Holding'
  <2>1. pLoop' = "" /\ pLoop = ""
        BY <1>0, Zenon
  <2>2. ASSUME NEW i \in Job PROVE pJobs'[i] # "running"
    <3>1. pJobs[i] = "running" => pLoop = i
          BY Zenon DEF Holding
    <3>2. pJobs[i] # "running"
          BY <2>1, <3>1, PageAssumption, Zenon
    <3> QED BY <1>4, <3>2
  <2> QED BY <2>1, <2>2, Zenon DEF Holding
<1>7. Commands'
      BY <1>1, <1>2 DEF Commands
<1> QED BY <1>3, <1>5, <1>6, <1>7

-----------------------------------------------------------------------------
(* refresh *)

\* One refresh starts, or goes on, and nothing else changes.
LEMMA OneRefresh ==
  ASSUME PageInv, NEW k \in Slot, NEW r \in RefreshKind, Reads(r),
         pRefresh' = [pRefresh EXCEPT ![k] = r],
         pJobs' = pJobs, pLoop' = pLoop, pStops' = pStops, pEdits' = pEdits, pToken' = pToken
  PROVE  pRefresh' \in [Slot -> RefreshKind] /\ Refreshes' /\ Holding'
<1> USE DEF PageInv
<1>1. /\ pRefresh' \in [Slot -> RefreshKind]
      /\ \A i \in Slot : pRefresh'[i] = IF i = k THEN r ELSE pRefresh[i]
      BY DEF PageTypes
<1>2. ASSUME NEW i \in Slot, NEW s, Reads(s), pRefresh'[i] = s PROVE Reads(pRefresh[i])'
  <2>1. \A n \in Job : P!Visible(n)' = P!Visible(n)
        BY DEF P!Visible
  <2>2. P!Accepted(pToken)' = P!Accepted(pToken)
        BY Zenon DEF P!Accepted
  <2> QED BY <1>2, <2>1, <2>2 DEF Reads
<1>3. Refreshes'
  <2> SUFFICES ASSUME NEW i \in Slot PROVE Reads(pRefresh[i])'
      BY DEF Refreshes
  <2>1. CASE i = k
        BY <1>1, <1>2, <2>1
  <2>2. CASE i # k
        BY <1>1, <1>2, <2>2 DEF Refreshes
  <2> QED BY <2>1, <2>2
<1>4. Holding'
      BY Zenon DEF Holding
<1> QED BY <1>1, <1>3, <1>4

\* One that starts has read nothing.
LEMMA StartReads == ASSUME PageInv PROVE P!Started(pToken) \in RefreshKind /\ Reads(P!Started(pToken))
<1>1. pToken \in Token
      BY DEF PageInv, PageTypes
<1> DEFINE r == P!Started(pToken)
<1>2. r \in RefreshKind /\ r.at = "asked" /\ r.token = pToken /\ r.asked = Job /\ r.jobs = P!Blank
      BY <1>1, StartedIs
<1> HIDE DEF r
<1>3. \A j \in Job : r.jobs[j] = "absent"
      BY <1>2, BlankIs
<1>4. Reads(r)
      BY <1>2, <1>3 DEF Reads
<1> QED BY <1>2, <1>4 DEF r

LEMMA IdleReads == Reads(P!Idle)
BY IdleIs, BlankIs DEF Reads

LEMMA TickStep == ASSUME PageInv, NEW k \in Slot, P!Tick(k) PROVE PageInv'
<1> USE DEF PageInv
<1>0. /\ pRefresh' = [pRefresh EXCEPT ![k] = P!Started(pToken)]
      /\ pJobs' = pJobs /\ pLoop' = pLoop /\ pStops' = pStops /\ pEdits' = pEdits /\ pToken' = pToken
      /\ pCommand' = pCommand /\ pShown' = pShown
      BY Zenon DEF P!Tick
<1>1. pRefresh' \in [Slot -> RefreshKind] /\ Refreshes' /\ Holding'
      BY <1>0, OneRefresh, StartReads
<1>2. PageTypes'
      BY <1>0, <1>1 DEF PageTypes
<1>3. Commands'
      BY <1>0 DEF Commands
<1>4. Showing'
      BY <1>0 DEF Showing, P!Visible, P!Accepted
<1> QED BY <1>1, <1>2, <1>3, <1>4

LEMMA DispatchStep == ASSUME PageInv, NEW k \in Slot, P!Dispatch(k) PROVE PageInv'
<1> USE DEF PageInv
<1> DEFINE a == IF P!Accepted(pRefresh[k].token) THEN "thread" ELSE "locked"
           t == ""
           o == pRefresh[k]
           r == [o EXCEPT !.at = a, !.token = t]
<1>0. /\ o.at = "asked"
      /\ pRefresh' = [pRefresh EXCEPT ![k].at = a, ![k].token = t]
      /\ pJobs' = pJobs /\ pLoop' = pLoop /\ pStops' = pStops /\ pEdits' = pEdits /\ pToken' = pToken
      /\ pCommand' = pCommand /\ pShown' = pShown
      BY Zenon DEF P!Dispatch
<1>1. o \in RefreshKind /\ Reads(o) /\ pRefresh \in [Slot -> RefreshKind]
      BY DEF PageTypes, Refreshes
<1>2. /\ t \in Token /\ a \in {"thread", "locked"}
      /\ a = "thread" => P!Accepted(o.token)
      BY PageAssumption
<1>3. r = [o EXCEPT !.at = a, !.token = t]
      OBVIOUS
<1> HIDE DEF a, t, r
<1>4. pRefresh' = [pRefresh EXCEPT ![k] = r]
      BY <1>0, <1>1, <1>3
<1> HIDE DEF o
<1>5. /\ r \in RefreshKind /\ r.at = a /\ r.asked = o.asked /\ r.jobs = o.jobs
      /\ r.current = o.current
      BY <1>1, <1>2, <1>3 DEF RefreshKind
<1>6. Reads(r)
  <2>1. r.at # "answered" /\ r.at # "asked"
        BY <1>2, <1>5
  <2>2. r.current /\ r.at \in {"thread", "answered"} => P!Accepted(pToken)
        BY <1>0, <1>1, <1>2, <1>5 DEF Reads
  <2>3. r.current => \A n \in Job \ r.asked : r.jobs[n] = P!Visible(n)
        BY <1>1, <1>5 DEF Reads
  <2>4. \A n \in Job : r.jobs[n] = "running" => pJobs[n] \in Begun
        BY <1>1, <1>5 DEF Reads
  <2> QED BY <2>1, <2>2, <2>3, <2>4 DEF Reads
<1>7. pRefresh' \in [Slot -> RefreshKind] /\ Refreshes' /\ Holding'
      BY <1>0, <1>4, <1>5, <1>6, OneRefresh
<1>8. PageTypes'
      BY <1>0, <1>7 DEF PageTypes
<1>9. Commands'
      BY <1>0 DEF Commands
<1>10. Showing'
      BY <1>0 DEF Showing, P!Visible, P!Accepted
<1> QED BY <1>7, <1>8, <1>9, <1>10

LEMMA ReadStep == ASSUME PageInv, NEW k \in Slot, NEW j \in Job, P!Read(k, j) PROVE PageInv'
<1> USE DEF PageInv
<1> DEFINE o == pRefresh[k]
           v == P!Visible(j)
           r == [o EXCEPT !.asked = o.asked \ {j}, !.jobs[j] = v]
<1>0. /\ o.at = "thread" /\ j \in o.asked
      /\ pRefresh' = [pRefresh EXCEPT ![k].asked = @ \ {j}, ![k].jobs[j] = v]
      /\ pJobs' = pJobs /\ pLoop' = pLoop /\ pStops' = pStops /\ pEdits' = pEdits /\ pToken' = pToken
      /\ pCommand' = pCommand /\ pShown' = pShown
      BY Zenon DEF P!Read
<1>1. o \in RefreshKind /\ Reads(o) /\ pRefresh \in [Slot -> RefreshKind]
      BY DEF PageTypes, Refreshes
<1>2. v \in P!State /\ (v = "running" => pJobs[j] \in Begun)
      BY DEF PageTypes, P!Visible, P!State, Begun
<1>3. r = [o EXCEPT !.asked = o.asked \ {j}, !.jobs[j] = v]
      OBVIOUS
<1>4. v = P!Visible(j)
      OBVIOUS
<1> HIDE DEF v, r
<1>5. pRefresh' = [pRefresh EXCEPT ![k] = r]
      BY <1>0, <1>1, <1>3
<1> HIDE DEF o
<1>6. /\ r \in RefreshKind /\ r.at = "thread" /\ r.asked = o.asked \ {j}
      /\ r.current = o.current /\ \A i \in Job : r.jobs[i] = IF i = j THEN v ELSE o.jobs[i]
      BY <1>0, <1>1, <1>2, <1>3 DEF RefreshKind
<1>7. Reads(r)
  <2>1. r.current => P!Accepted(pToken)
        BY <1>0, <1>1, <1>6 DEF Reads
  <2>2. r.current => \A n \in Job \ r.asked : r.jobs[n] = P!Visible(n)
        BY <1>1, <1>4, <1>6 DEF Reads
  <2>3. \A n \in Job : r.jobs[n] = "running" => pJobs[n] \in Begun
        BY <1>1, <1>2, <1>6 DEF Reads
  <2> QED BY <1>6, <2>1, <2>2, <2>3 DEF Reads
<1>8. pRefresh' \in [Slot -> RefreshKind] /\ Refreshes' /\ Holding'
      BY <1>0, <1>5, <1>6, <1>7, OneRefresh
<1>9. PageTypes'
      BY <1>0, <1>8 DEF PageTypes
<1>10. Commands'
      BY <1>0 DEF Commands
<1>11. Showing'
      BY <1>0 DEF Showing, P!Visible, P!Accepted
<1> QED BY <1>8, <1>9, <1>10, <1>11

\* What a thread saw running is over: a job that runs would hold the event loop.
LEMMA AnswerStep == ASSUME PageInv, NEW k \in Slot, P!Answer(k) PROVE PageInv'
<1> USE DEF PageInv
<1> DEFINE o == pRefresh[k]
           r == [o EXCEPT !.at = "answered"]
<1>0. /\ o.at = "thread" /\ o.asked = {} /\ pLoop = ""
      /\ pRefresh' = [pRefresh EXCEPT ![k].at = "answered"]
      /\ pJobs' = pJobs /\ pLoop' = pLoop /\ pStops' = pStops /\ pEdits' = pEdits /\ pToken' = pToken
      /\ pCommand' = pCommand /\ pShown' = pShown
      BY ZenonT(60) DEF P!Answer
<1>1. o \in RefreshKind /\ Reads(o) /\ pRefresh \in [Slot -> RefreshKind]
      BY DEF PageTypes, Refreshes
<1>2. ASSUME NEW n \in Job, pJobs[n] \in Begun PROVE pJobs[n] \in Over
  <2>1. pJobs[n] = "running" => pLoop = n
        BY Zenon DEF Holding
  <2>2. pJobs[n] # "running"
        BY <1>0, <2>1, PageAssumption, Zenon
  <2> QED BY <1>2, <2>2 DEF Begun, Over
<1>3. pRefresh' = [pRefresh EXCEPT ![k] = r]
  <2>1. pRefresh' = [pRefresh EXCEPT ![k].at = "answered"]
        BY <1>0, Zenon
  <2> QED BY <1>1, <2>1
<1>4. o.asked = {} /\ o.at = "thread"
      BY <1>0, Zenon
<1>5. r = [o EXCEPT !.at = "answered"]
      OBVIOUS
<1> HIDE DEF o, r
<1>6. /\ r \in RefreshKind /\ r.at = "answered" /\ r.asked = o.asked /\ r.jobs = o.jobs
      /\ r.current = o.current
      BY <1>1, <1>5 DEF RefreshKind
<1>7. Reads(r)
      BY <1>1, <1>2, <1>4, <1>6 DEF Reads
<1>8. pRefresh' \in [Slot -> RefreshKind] /\ Refreshes' /\ Holding'
      BY <1>0, <1>3, <1>6, <1>7, OneRefresh
<1>9. PageTypes'
      BY <1>0, <1>8 DEF PageTypes
<1>10. Commands'
      BY <1>0 DEF Commands
<1>11. Showing'
      BY <1>0 DEF Showing, P!Visible, P!Accepted
<1> QED BY <1>8, <1>9, <1>10, <1>11

LEMMA RenderStep == ASSUME PageInv, NEW k \in Slot, P!Render(k) PROVE PageInv'
<1> USE DEF PageInv
<1> DEFINE o == pRefresh[k]
           n == [jobs |-> o.jobs, current |-> o.current]
<1>0. /\ pShown' = IF o.at = "answered" THEN n ELSE pShown
      /\ pRefresh' = [pRefresh EXCEPT ![k] = P!Idle]
      /\ pJobs' = pJobs /\ pLoop' = pLoop /\ pStops' = pStops /\ pEdits' = pEdits /\ pToken' = pToken
      /\ pCommand' = pCommand
      BY Zenon DEF P!Render
<1>1. o \in RefreshKind /\ Reads(o)
      BY DEF PageTypes, Refreshes
<1>2. n = [jobs |-> o.jobs, current |-> o.current]
      OBVIOUS
<1> HIDE DEF o, n
<1>3. n \in ShownKind /\ n.jobs = o.jobs /\ n.current = o.current
      BY <1>1, <1>2 DEF RefreshKind, ShownKind
<1>4. \A j \in Job : P!Visible(j)' = P!Visible(j)
      BY <1>0 DEF P!Visible
<1>5. P!Accepted(pToken)' = P!Accepted(pToken)
      BY <1>0, Zenon DEF P!Accepted
<1>6. pShown' \in ShownKind /\ Showing'
  <2>1. CASE o.at = "answered"
    <3>1. pShown' = n
          BY <1>0, <2>1
    <3>2. o.asked = {}
          BY <1>1, <2>1 DEF Reads
    <3>3. \A j \in Job : j \in Job \ o.asked
          BY <3>2
    <3>4. n.current => (\A j \in Job : n.jobs[j] = P!Visible(j)) /\ P!Accepted(pToken)
          BY <1>1, <1>3, <2>1, <3>3 DEF Reads
    <3>5. \A j \in Job : n.jobs[j] = "running" => pJobs[j] \in Over
          BY <1>1, <1>3, <2>1 DEF Reads
    <3> QED BY <1>0, <1>3, <1>4, <1>5, <3>1, <3>4, <3>5 DEF Showing
  <2>2. CASE o.at # "answered"
    <3>1. pShown' = pShown
          BY <1>0, <2>2
    <3> QED BY <1>0, <1>4, <1>5, <3>1 DEF Showing, PageTypes
  <2> QED BY <2>1, <2>2
<1>7. pRefresh' \in [Slot -> RefreshKind] /\ Refreshes' /\ Holding'
      BY <1>0, IdleIs, IdleReads, OneRefresh
<1>8. PageTypes'
      BY <1>0, <1>6, <1>7 DEF PageTypes
<1>9. Commands'
      BY <1>0 DEF Commands
<1> QED BY <1>6, <1>7, <1>8, <1>9

\* Another token: what was asked with the one before is of before.
LEMMA TokenStep ==
  ASSUME PageInv, NEW k \in Slot, NEW t \in Token, P!SetToken(k, t) PROVE PageInv'
<1> USE DEF PageInv
<1> DEFINE older == [i \in Slot |-> [pRefresh[i] EXCEPT !.current = FALSE]]
           r == P!Started(t)
<1>0. /\ pToken' = t /\ pEdits < MaxEdits /\ pEdits' = pEdits + 1
      /\ pShown' = [pShown EXCEPT !.current = FALSE]
      /\ pRefresh' = [older EXCEPT ![k] = r]
      /\ pJobs' = pJobs /\ pLoop' = pLoop /\ pStops' = pStops /\ pCommand' = pCommand
      BY Zenon DEF P!SetToken, P!Outdated, P!Older
<1>1. /\ r \in RefreshKind /\ r.at = "asked" /\ r.token = t /\ r.asked = Job /\ r.jobs = P!Blank
      BY StartedIs
<1>2. ASSUME NEW i \in Slot
      PROVE  /\ older[i] \in RefreshKind /\ older[i].at = pRefresh[i].at
             /\ older[i].asked = pRefresh[i].asked /\ older[i].jobs = pRefresh[i].jobs
             /\ ~older[i].current
  <2>1. pRefresh[i] \in RefreshKind /\ older[i] = [pRefresh[i] EXCEPT !.current = FALSE]
        BY DEF PageTypes
  <2> QED BY <2>1, OlderIs
<1>3. older \in [Slot -> RefreshKind]
      BY <1>2
<1> HIDE DEF older, r
<1>4. /\ pRefresh' \in [Slot -> RefreshKind]
      /\ \A i \in Slot : pRefresh'[i] = IF i = k THEN r ELSE older[i]
      BY <1>0, <1>1, <1>3
<1>5. ASSUME NEW i \in Slot PROVE Reads(pRefresh[i])'
  <2>1. CASE i = k
    <3>1. \A n \in Job : r.jobs[n] = "absent"
          BY <1>1, BlankIs
    <3>2. pRefresh'[i] = r
          BY <1>4, <2>1
    <3> QED BY <1>0, <1>1, <3>1, <3>2 DEF Reads
  <2>2. CASE i # k
    <3>1. pRefresh'[i] = older[i] /\ Reads(pRefresh[i])
          BY <1>4, <2>2 DEF Refreshes
    <3> QED BY <1>0, <1>2, <3>1 DEF Reads
  <2> QED BY <2>1, <2>2
<1>6. Refreshes'
      BY <1>5 DEF Refreshes
<1>7. pShown' \in ShownKind /\ pShown'.jobs = pShown.jobs /\ ~pShown'.current
  <2>1. pShown \in ShownKind
        BY DEF PageTypes
  <2> QED BY <1>0, <2>1, OutdatedIs
<1>8. pEdits' \in 0..MaxEdits
  <2>1. pEdits \in 0..MaxEdits /\ MaxEdits \in Nat /\ pEdits < MaxEdits /\ pEdits' = pEdits + 1
        BY <1>0, PageAssumption, Zenon DEF PageTypes
  <2> QED BY <2>1
<1>9. PageTypes'
      BY <1>0, <1>4, <1>7, <1>8 DEF PageTypes
<1>10. Holding'
      BY <1>0, Zenon DEF Holding
<1>11. Commands'
      BY <1>0 DEF Commands
<1>12. Showing'
      BY <1>0, <1>7 DEF Showing
<1> QED BY <1>6, <1>9, <1>10, <1>11, <1>12

-----------------------------------------------------------------------------
(* What the user does *)

\* What a command does to neither the jobs nor the refreshes.
LEMMA Elsewhere ==
  ASSUME PageInv, pJobs' = pJobs, pLoop' = pLoop, pEdits' = pEdits, pToken' = pToken,
         pRefresh' = pRefresh, pShown' = pShown
  PROVE  Holding' /\ Refreshes' /\ Showing'
<1> USE DEF PageInv
<1>1. Holding'
      BY Zenon DEF Holding
<1>2. \A n \in Job : P!Visible(n)' = P!Visible(n)
      BY DEF P!Visible
<1>3. P!Accepted(pToken)' = P!Accepted(pToken)
      BY Zenon DEF P!Accepted
<1>4. Refreshes'
      BY <1>2, <1>3 DEF Refreshes, Reads
<1>5. Showing'
      BY <1>2, <1>3 DEF Showing
<1> QED BY <1>1, <1>4, <1>5

LEMMA CommandSent ==
  ASSUME PageInv, NEW j \in Job, NEW kind \in {"upload", "stop"}, P!Send(kind, j),
         kind = "upload" => pJobs[j] = "absent"
  PROVE  PageInv'
<1> USE DEF PageInv
<1>0. /\ pCommand' = [kind |-> kind, job |-> j, token |-> pToken, at |-> "asked"]
      /\ pJobs' = pJobs /\ pLoop' = pLoop /\ pStops' = pStops /\ pEdits' = pEdits /\ pToken' = pToken
      /\ pRefresh' = pRefresh /\ pShown' = pShown
      BY Zenon DEF P!Send
<1>1. Holding' /\ Refreshes' /\ Showing'
      BY <1>0, Elsewhere
<1>2. pCommand' \in CommandKind /\ pCommand'.job = j /\ pCommand'.kind = kind
      BY <1>0 DEF CommandKind, PageTypes
<1>3. PageTypes'
      BY <1>0, <1>2 DEF PageTypes
<1>4. Commands'
      BY <1>0, <1>2 DEF Commands
<1> QED BY <1>1, <1>3, <1>4

LEMMA TakeStep == ASSUME PageInv, P!TakeCommand PROVE PageInv'
<1> USE DEF PageInv
<1> DEFINE a == IF P!Accepted(pCommand.token) THEN "thread" ELSE "refused"
<1>0. /\ pCommand.at = "asked" /\ pCommand' = [pCommand EXCEPT !.at = a]
      /\ pJobs' = pJobs /\ pLoop' = pLoop /\ pStops' = pStops /\ pEdits' = pEdits /\ pToken' = pToken
      /\ pRefresh' = pRefresh /\ pShown' = pShown
      BY Zenon DEF P!TakeCommand
<1>1. Holding' /\ Refreshes' /\ Showing'
      BY <1>0, Elsewhere
<1>2. a \in {"served", "refused", "thread"} /\ a # "asked"
      OBVIOUS
<1> HIDE DEF a
<1>3. pCommand' \in CommandKind /\ pCommand'.at = a /\ pCommand'.job = pCommand.job
      BY <1>0, <1>2, CommandIs DEF PageTypes
<1>4. PageTypes'
      BY <1>0, <1>3 DEF PageTypes
<1>5. Commands'
      BY <1>0, <1>2, <1>3 DEF Commands
<1> QED BY <1>1, <1>4, <1>5

LEMMA StopStep == ASSUME PageInv, P!ServeStop PROVE PageInv'
<1> USE DEF PageInv
<1>0. /\ pCommand.at = "thread"
      /\ \/ pCommand' = [pCommand EXCEPT !.at = "refused"] /\ pStops' = pStops
         \/ pCommand' = [pCommand EXCEPT !.at = "served"] /\ pStops' = pStops \cup {pCommand.job}
      /\ pJobs' = pJobs /\ pLoop' = pLoop /\ pEdits' = pEdits /\ pToken' = pToken
      /\ pRefresh' = pRefresh /\ pShown' = pShown
      BY DEF P!ServeStop
<1>1. Holding' /\ Refreshes' /\ Showing'
      BY <1>0, Elsewhere
<1>2. /\ pCommand' \in CommandKind /\ pCommand'.at \in {"refused", "served"}
      /\ pCommand'.job = pCommand.job
      BY ZenonT(60), <1>0, CommandIs DEF PageTypes
<1>3. pCommand.job \in Job
      BY <1>0 DEF Commands
<1>4. pStops' \subseteq Job
      BY <1>0, <1>3 DEF PageTypes
<1>5. PageTypes'
      BY <1>0, <1>2, <1>4 DEF PageTypes
<1>6. Commands'
      BY <1>2, <1>3 DEF Commands
<1> QED BY <1>1, <1>5, <1>6

LEMMA NoCommandIs == P!NoCommand \in CommandKind /\ P!NoCommand.at = "idle"
<1> DEFINE t == ""
<1>1. t \in Token /\ P!NoCommand = [kind |-> "none", job |-> "", token |-> t, at |-> "idle"]
      BY PageAssumption DEF P!NoCommand
<1> HIDE DEF t
<1> QED BY <1>1 DEF CommandKind

LEMMA RefusedStep == ASSUME PageInv, P!Refused PROVE PageInv'
<1> USE DEF PageInv
<1>0. /\ pCommand' = P!NoCommand
      /\ pJobs' = pJobs /\ pLoop' = pLoop /\ pStops' = pStops /\ pEdits' = pEdits /\ pToken' = pToken
      /\ pRefresh' = pRefresh /\ pShown' = pShown
      BY Zenon DEF P!Refused
<1>1. Holding' /\ Refreshes' /\ Showing'
      BY <1>0, Elsewhere
<1>2. PageTypes'
      BY <1>0, NoCommandIs DEF PageTypes
<1>3. Commands'
      BY <1>0, NoCommandIs DEF Commands
<1> QED BY <1>1, <1>2, <1>3

LEMMA DoneStep == ASSUME PageInv, NEW k \in Slot, P!Done(k) PROVE PageInv'
<1> USE DEF PageInv
<1>0. /\ pRefresh' = [pRefresh EXCEPT ![k] = P!Started(pToken)] /\ pCommand' = P!NoCommand
      /\ pJobs' = pJobs /\ pLoop' = pLoop /\ pStops' = pStops /\ pEdits' = pEdits /\ pToken' = pToken
      /\ pShown' = pShown
      BY Zenon DEF P!Done
<1>1. pRefresh' \in [Slot -> RefreshKind] /\ Refreshes' /\ Holding'
      BY <1>0, OneRefresh, StartReads
<1>2. PageTypes'
      BY <1>0, <1>1, NoCommandIs DEF PageTypes
<1>3. Commands'
      BY <1>0, NoCommandIs DEF Commands
<1>4. Showing'
      BY <1>0 DEF Showing, P!Visible, P!Accepted
<1> QED BY <1>1, <1>2, <1>3, <1>4

LEMMA PageStep == PageInv /\ [P!Next]_(P!vars) => PageInv'
<1> SUFFICES ASSUME PageInv, [P!Next]_(P!vars) PROVE PageInv'
    OBVIOUS
<1>1. ASSUME NEW j \in Job, P!Begin(j) \/ P!End(j) \/ P!Clean(j) PROVE PageInv'
      BY <1>1, BeginJob, EndJob, CleanJob
<1>2. ASSUME NEW j \in Job, P!Upload(j) \/ P!StopJob(j) PROVE PageInv'
  <2>1. CASE P!Upload(j)
    <3>1. P!Send("upload", j) /\ pJobs[j] = "absent"
          BY <2>1, Zenon DEF P!Upload
    <3> QED BY <3>1, CommandSent
  <2>2. CASE P!StopJob(j)
    <3>1. P!Send("stop", j)
          BY <2>2, Zenon DEF P!StopJob
    <3> QED BY <3>1, CommandSent
  <2> QED BY <1>2, <2>1, <2>2
<1>3. ASSUME NEW k \in Slot, NEW t \in Token, P!SetToken(k, t) PROVE PageInv'
      BY <1>3, TokenStep
<1>4. ASSUME NEW k \in Slot, P!Tick(k) \/ P!Dispatch(k) \/ P!Answer(k) \/ P!Render(k) \/ P!Done(k)
      PROVE PageInv'
      BY <1>4, TickStep, DispatchStep, AnswerStep, RenderStep, DoneStep
<1>5. ASSUME NEW k \in Slot, NEW j \in Job, P!Read(k, j) PROVE PageInv'
      BY <1>5, ReadStep
<1>6. CASE P!TakeCommand \/ P!CreateJob \/ P!ServeStop \/ P!Refused
      BY <1>6, TakeStep, CreateStep, StopStep, RefusedStep
<1>7. CASE UNCHANGED P!vars
  <2>1. /\ pJobs' = pJobs /\ pLoop' = pLoop /\ pStops' = pStops /\ pEdits' = pEdits /\ pToken' = pToken
        /\ pRefresh' = pRefresh /\ pShown' = pShown /\ pCommand' = pCommand
        BY <1>7, Zenon DEF P!vars
  <2>2. Holding' /\ Refreshes' /\ Showing'
        BY <2>1, Elsewhere DEF PageInv
  <2> QED BY <2>1, <2>2 DEF PageInv, PageTypes, Commands
<1> QED BY <1>1, <1>2, <1>3, <1>4, <1>5, <1>6, <1>7, Zenon DEF P!Next

LEMMA PageShown == PageInv => P!PageHolds /\ P!DashboardTypeOK
<1> SUFFICES ASSUME PageInv PROVE P!PageHolds /\ P!DashboardTypeOK
    OBVIOUS
<1> USE DEF PageInv
<1>1. P!PageCurrent
      BY Zenon DEF Showing, P!PageCurrent
<1>2. P!StopShownLate
      BY DEF Showing, P!StopShownLate, P!Running, Over
<1>3. pShown.jobs \in [Job -> P!State]
      BY DEF PageTypes, ShownKind
<1>4. DOMAIN pCommand = DOMAIN P!NoCommand
  <2>1. DOMAIN P!NoCommand = {"kind", "job", "token", "at"}
        BY DEF P!NoCommand
  <2>2. DOMAIN pCommand = {"kind", "job", "token", "at"}
        BY DEF PageTypes, CommandKind
  <2> QED BY <2>1, <2>2
<1>5. ASSUME NEW k \in Slot
      PROVE  DOMAIN pRefresh[k] = DOMAIN P!Idle /\ pRefresh[k].jobs \in [Job -> P!State]
  <2>1. pRefresh[k] \in RefreshKind /\ P!Idle \in RefreshKind
        BY IdleIs DEF PageTypes
  <2>2. \A r \in RefreshKind : /\ r.jobs \in [Job -> P!State]
                               /\ DOMAIN r = {"at", "token", "current", "asked", "jobs"}
        BY DEF RefreshKind
  <2> QED BY <2>1, <2>2
<1>6. P!DashboardTypeOK
      BY <1>3, <1>4, <1>5, Zenon DEF PageTypes, P!DashboardTypeOK
<1> QED BY <1>1, <1>2, <1>6 DEF P!PageHolds

\* A page that is current shows every job as it is, and a Stop button is one of a job that is over.
THEOREM PagesHold == P!Spec => [](P!PageHolds /\ P!DashboardTypeOK)
<1>1. P!Init => PageInv
      BY PageStart
<1>2. PageInv /\ [P!Next]_(P!vars) => PageInv'
      BY PageStep
<1>3. PageInv => P!PageHolds /\ P!DashboardTypeOK
      BY PageShown
<1> QED BY <1>1, <1>2, <1>3, PTL DEF P!Spec

-----------------------------------------------------------------------------
(* What a training without a server learns and reports                         *)

IsArray(a) ==
  /\ a = [of |-> a.of, ndim |-> a.ndim, rows |-> a.rows] /\ a.ndim \in Nat \ {0}
  /\ Len(a.rows) \in Nat /\ a.rows = [i \in 1..Len(a.rows) |-> a.rows[i]]
Single(a) == \A i \in 1..Len(a.rows) : Len(a.rows[i]) = 1
Shaped(a) ==
  IF a.ndim = 1 THEN Single(a)
  ELSE \A i, j \in 1..Len(a.rows) : Len(a.rows[i]) = Len(a.rows[j])
Normal(a) ==
  IF a.ndim = 1 THEN Single(a) ELSE \A i \in 1..Len(a.rows) : Len(a.rows[i]) # 1
MeaningOf(l, row) ==
  IF F!Regression(l) \/ Len(row) = 1 THEN row ELSE <<F!ArgMax(row) - 1>>
TargetNames == {"y", "train_y", "val_y", "test_y"}
OriginalOf(r, split) ==
  IF r.kind = "godot_json" THEN F!Converted(r).y
  ELSE LET n == CHOOSE n \in DOMAIN r.files : r.files[n].of = split /\ n \in TargetNames
       IN r.files[n]
\* Rows and targets of one split; of a whole file they are as many, and the file's.
Paired(r, x, y) ==
  /\ x # <<>> => IsArray(x)
  /\ y # <<>> => IsArray(y) /\ Shaped(y)
  /\ F!Whole(r.files) /\ x # <<>> /\ y # <<>> =>
       x.of = y.of /\ Len(x.rows) = Len(y.rows) /\ OriginalOf(r, y.of) = y

LEMMA NoArray == ASSUME NEW a, IsArray(a) PROVE a # <<>>
<1>1. DOMAIN a = {"of", "ndim", "rows"}
      BY DEF IsArray
<1>2. DOMAIN <<>> = {}
      OBVIOUS
<1>3. "of" \in DOMAIN a
      BY <1>1
<1> QED BY <1>2, <1>3

\* A function on the numbers up to n is a sequence of n.
LEMMA LenOf ==
  ASSUME NEW n \in Nat, NEW s, DOMAIN s = 1..n, s = [i \in 1..n |-> s[i]]
  PROVE  s \in Seq({s[i] : i \in 1..n}) /\ Len(s) = n
<1> DEFINE ran == {s[i] : i \in 1..n}
<1>1. s \in [1..n -> ran]
      OBVIOUS
<1> HIDE DEF ran
<1>2. s \in Seq(ran)
      BY <1>1, SeqDef
<1>3. Len(s) = n
      BY <1>1, <1>2
<1> QED BY <1>2, <1>3 DEF ran

LEMMA NormalIs ==
  ASSUME NEW y, IsArray(y), Shaped(y)
  PROVE  LET z == F!NormalizeTargets(y)
         IN IsArray(z) /\ Normal(z) /\ z.of = y.of /\ z.rows = y.rows
<1> DEFINE z == F!NormalizeTargets(y)
           o == [y EXCEPT !.ndim = 1]
<1>0. DOMAIN y.rows = 1..Len(y.rows)
      BY DEF IsArray
<1>1. CASE y.ndim > 1 /\ Single(y)
  <2>1. z = o
        BY <1>0, <1>1, NoArray DEF F!NormalizeTargets, F!Missing, F!None, Single
  <2>2. o = [of |-> y.of, ndim |-> 1, rows |-> y.rows]
        BY DEF IsArray
  <2>3. o.of = y.of /\ o.ndim = 1 /\ o.rows = y.rows /\ o = [of |-> o.of, ndim |-> o.ndim, rows |-> o.rows]
        BY <2>2
  <2> HIDE DEF o, z
  <2>4. IsArray(o) /\ Normal(o)
        BY <1>1, <2>3 DEF IsArray, Normal, Single
  <2> QED BY <2>1, <2>3, <2>4 DEF z
<1>2. CASE ~(y.ndim > 1 /\ Single(y))
  <2>1. z = y
        BY <1>0, <1>2, NoArray DEF F!NormalizeTargets, F!Missing, F!None, Single
  <2>2. Normal(y)
    <3>1. CASE y.ndim = 1
          BY <3>1 DEF Shaped, Normal
    <3>2. CASE y.ndim # 1
      <4>1. PICK k \in 1..Len(y.rows) : Len(y.rows[k]) # 1
            BY <1>2, <3>2 DEF IsArray, Single
      <4>2. \A i \in 1..Len(y.rows) : Len(y.rows[i]) = Len(y.rows[k])
            BY <3>2 DEF Shaped
      <4> QED BY <3>2, <4>1, <4>2 DEF Normal
    <3> QED BY <3>1, <3>2
  <2> QED BY <2>1, <2>2
<1> QED BY <1>1, <1>2

LEMMA CoercedIs ==
  ASSUME NEW z, IsArray(z), Normal(z), NEW l
  PROVE  LET c == F!Coerced(z, l)
         IN /\ IsArray(c) /\ c.of = z.of /\ Len(c.rows) = Len(z.rows)
            /\ \A i \in 1..Len(z.rows) : c.rows[i] = MeaningOf(l, z.rows[i])
<1> DEFINE c == F!Coerced(z, l)
           n == Len(z.rows)
           m(i) == <<F!ArgMax(z.rows[i]) - 1>>
           rows == IF z.ndim = 1 THEN z.rows ELSE [i \in DOMAIN z.rows |-> m(i)]
<1>0. n \in Nat /\ DOMAIN z.rows = 1..n /\ z # <<>> /\ z = [of |-> z.of, ndim |-> z.ndim, rows |-> z.rows]
      BY NoArray DEF IsArray
<1>1. CASE F!Regression(l)
  <2>1. c = [z EXCEPT !.ndim = 2]
        BY <1>0, <1>1 DEF F!Coerced, F!Missing, F!None
  <2>2. c = [of |-> z.of, ndim |-> 2, rows |-> z.rows]
        BY <1>0, <2>1
  <2>3. c.of = z.of /\ c.ndim = 2 /\ c.rows = z.rows /\ c = [of |-> c.of, ndim |-> c.ndim, rows |-> c.rows]
        BY <2>2
  <2> HIDE DEF c, n, rows
  <2>4. IsArray(c)
        BY <2>3 DEF IsArray
  <2>5. \A i \in 1..Len(z.rows) : c.rows[i] = MeaningOf(l, z.rows[i])
        BY <1>1, <2>3 DEF MeaningOf
  <2> QED BY <2>3, <2>4, <2>5 DEF c
<1>2. CASE ~F!Regression(l)
  <2>1. c = [z EXCEPT !.ndim = 1, !.rows = rows]
        BY <1>0, <1>2 DEF F!Coerced, F!Missing, F!None
  <2>2. /\ DOMAIN rows = 1..n /\ rows = [i \in 1..n |-> rows[i]]
        /\ \A i \in 1..n : rows[i] = IF z.ndim = 1 THEN z.rows[i] ELSE m(i)
        BY <1>0 DEF IsArray
  <2>3. \A i \in 1..n : rows[i] = MeaningOf(l, z.rows[i])
        BY <1>2, <2>2 DEF Normal, Single, MeaningOf
  <2> HIDE DEF c, rows
  <2>4. c = [of |-> z.of, ndim |-> 1, rows |-> rows]
        BY <1>0, <2>1
  <2>5. c.of = z.of /\ c.ndim = 1 /\ c.rows = rows /\ c = [of |-> c.of, ndim |-> c.ndim, rows |-> c.rows]
        BY <2>4
  <2>6. Len(rows) = n
        BY <1>0, <2>2, LenOf
  <2>7. IsArray(c)
        BY <1>0, <2>2, <2>5, <2>6 DEF IsArray
  <2> QED BY <2>3, <2>5, <2>6, <2>7 DEF c
<1> QED BY <1>1, <1>2

\* Rows with targets that a metric, or a batch, may take by their places.
Matched(r, l, v) ==
  /\ Len(v.x.rows) \in Nat \ {0} /\ DOMAIN v.x.rows = 1..Len(v.x.rows)
  /\ Len(v.y.rows) \in Nat /\ DOMAIN v.y.rows = 1..Len(v.y.rows)
  /\ F!Whole(r.files) =>
       /\ Len(v.y.rows) = Len(v.x.rows) /\ v.x.of = v.y.of
       /\ \A i \in 1..Len(v.y.rows) : v.y.rows[i] = MeaningOf(l, OriginalOf(r, v.y.of).rows[i])

LEMMA PairMatches ==
  ASSUME NEW r, NEW l, NEW x, NEW y, Paired(r, x, y), x # <<>>, y # <<>>, x.rows # <<>>
  PROVE  Matched(r, l, [x |-> x, y |-> F!Coerced(F!NormalizeTargets(y), l)])
<1> DEFINE z == F!NormalizeTargets(y)
           c == F!Coerced(z, l)
           v == [x |-> x, y |-> c]
<1>1. IsArray(z) /\ Normal(z) /\ z.of = y.of /\ z.rows = y.rows
      BY NormalIs DEF Paired
<1> HIDE DEF z
<1>2. /\ IsArray(c) /\ c.of = z.of /\ Len(c.rows) = Len(z.rows)
      /\ \A i \in 1..Len(z.rows) : c.rows[i] = MeaningOf(l, z.rows[i])
      BY <1>1, CoercedIs
<1> HIDE DEF c
<1>3. v.x = x /\ v.y = c
      OBVIOUS
<1>4. Len(x.rows) \in Nat \ {0} /\ DOMAIN x.rows = 1..Len(x.rows)
  <2>1. Len(x.rows) \in Nat /\ x.rows = [i \in 1..Len(x.rows) |-> x.rows[i]]
        BY DEF Paired, IsArray
  <2>2. x.rows \in Seq({x.rows[i] : i \in 1..Len(x.rows)})
        BY <2>1, LenOf
  <2>3. Len(x.rows) # 0
        BY <2>2, EmptySeq
  <2> QED BY <2>1, <2>3
<1> HIDE DEF v
<1>5. Len(c.rows) \in Nat /\ DOMAIN c.rows = 1..Len(c.rows)
      BY <1>2 DEF IsArray
<1>6. F!Whole(r.files) => x.of = y.of /\ Len(x.rows) = Len(y.rows) /\ OriginalOf(r, y.of) = y
      BY DEF Paired
<1>7. Matched(r, l, v)
      BY <1>1, <1>2, <1>3, <1>4, <1>5, <1>6 DEF Matched
<1> QED BY <1>7 DEF v, c, z

-----------------------------------------------------------------------------
(* What a file holds *)

LEMMA FirstOfTwo ==
  ASSUME NEW f, NEW a, NEW b
  PROVE  F!First(f, <<a, b>>) =
           IF a \in DOMAIN f THEN f[a] ELSE IF b \in DOMAIN f THEN f[b] ELSE <<>>
<1> DEFINE names == <<a, b>>
           held == {i \in DOMAIN names : names[i] \in DOMAIN f}
<1>0. F!First(f, names) = IF held = {} THEN <<>> ELSE f[names[F!Min(held)]]
      BY DEF F!First, F!None
<1>1. DOMAIN names = 1..2 /\ names[1] = a /\ names[2] = b
      OBVIOUS
<1>2. \A i : i \in held <=> (i = 1 /\ a \in DOMAIN f) \/ (i = 2 /\ b \in DOMAIN f)
      BY <1>1
<1> HIDE DEF held, names
<1>3. CASE a \in DOMAIN f
  <2>1. 1 \in held /\ \A i \in held : i \in Int /\ 1 <= i
        BY <1>2, <1>3
  <2>2. F!Min(held) = 1
        BY <2>1 DEF F!Min
  <2> QED BY <1>0, <1>1, <1>3, <2>1, <2>2 DEF names
<1>4. CASE a \notin DOMAIN f /\ b \in DOMAIN f
  <2>1. 2 \in held /\ \A i \in held : i = 2
        BY <1>2, <1>4
  <2>2. F!Min(held) = 2
        BY <2>1 DEF F!Min
  <2> QED BY <1>0, <1>1, <1>4, <2>1, <2>2 DEF names
<1>5. CASE a \notin DOMAIN f /\ b \notin DOMAIN f
  <2>1. held = {}
        BY <1>2, <1>5
  <2> QED BY <1>0, <1>5, <2>1 DEF names
<1> QED BY <1>3, <1>4, <1>5

LEMMA FirstOfOne ==
  ASSUME NEW f, NEW a
  PROVE  F!First(f, <<a>>) = IF a \in DOMAIN f THEN f[a] ELSE <<>>
<1> DEFINE names == <<a>>
           held == {i \in DOMAIN names : names[i] \in DOMAIN f}
<1>0. F!First(f, names) = IF held = {} THEN <<>> ELSE f[names[F!Min(held)]]
      BY DEF F!First, F!None
<1>1. DOMAIN names = 1..1 /\ names[1] = a
      OBVIOUS
<1>2. \A i : i \in held <=> i = 1 /\ a \in DOMAIN f
      BY <1>1
<1> HIDE DEF held, names
<1>3. CASE a \in DOMAIN f
  <2>1. 1 \in held /\ \A i \in held : i = 1
        BY <1>2, <1>3
  <2>2. F!Min(held) = 1
        BY <2>1 DEF F!Min
  <2> QED BY <1>0, <1>1, <1>3, <2>1, <2>2 DEF names
<1>4. CASE a \notin DOMAIN f
  <2>1. held = {}
        BY <1>2, <1>4
  <2> QED BY <1>0, <1>4, <2>1 DEF names
<1> QED BY <1>3, <1>4

LEMMA FileArray ==
  ASSUME NEW r \in FitRequest, NEW n \in DOMAIN r.files
  PROVE  IsArray(r.files[n]) /\ Shaped(r.files[n])
<1> DEFINE a == r.files[n]
           kind == [of : {"train", "val", "test"}, ndim : Nat \ {0}, rows : Seq(Seq(Int))]
<1>1. /\ a \in kind
      /\ \A i, j \in DOMAIN a.rows : Len(a.rows[i]) = IF a.ndim = 1 THEN 1 ELSE Len(a.rows[j])
      BY RequestAssumption
<1> HIDE DEF a
<1>2. /\ a = [of |-> a.of, ndim |-> a.ndim, rows |-> a.rows] /\ a.ndim \in Nat \ {0}
      /\ a.rows \in Seq(Seq(Int))
      BY <1>1
<1>3. Len(a.rows) \in Nat /\ a.rows = [i \in 1..Len(a.rows) |-> a.rows[i]]
      BY <1>2
<1>4. IsArray(a)
      BY <1>2, <1>3 DEF IsArray
<1>5. DOMAIN a.rows = 1..Len(a.rows)
      BY <1>3
<1>6. Shaped(a)
      BY <1>1, <1>5 DEF Shaped, Single
<1> QED BY <1>4, <1>6 DEF a

\* The names of rows and of their targets.
NamePairs ==
  {<<"x", "y">>, <<"train_x", "train_y">>, <<"val_x", "val_y">>, <<"test_x", "test_y">>}

LEMMA Partner ==
  ASSUME NEW r \in FitRequest, F!Whole(r.files), NEW n \in DOMAIN r.files, NEW m,
         <<n, m>> \in NamePairs \/ <<m, n>> \in NamePairs
  PROVE  /\ m \in DOMAIN r.files /\ r.files[n].of = r.files[m].of
         /\ Len(r.files[n].rows) = Len(r.files[m].rows)
<1>1. PICK q \in DOMAIN r.files :
        /\ r.files[n].of = r.files[q].of /\ Len(r.files[n].rows) = Len(r.files[q].rows)
        /\ <<n, q>> \in {<<"x", "y">>, <<"train_x", "train_y">>, <<"val_x", "val_y">>, <<"test_x", "test_y">>}
                    \cup {<<"y", "x">>, <<"train_y", "train_x">>, <<"val_y", "val_x">>, <<"test_y", "test_x">>}
      BY Zenon DEF F!Whole
<1>2. q = m
  <2>1. n \in {"x", "y", "train_x", "train_y", "val_x", "val_y", "test_x", "test_y"}
        BY <1>1
  <2> QED BY <1>1, <2>1 DEF NamePairs
<1> QED BY <1>1, <1>2

\* The targets of a split are those that have its label.
LEMMA OriginalIs ==
  ASSUME NEW r \in FitRequest, r.kind # "godot_json", NEW n \in DOMAIN r.files, n \in TargetNames
  PROVE  OriginalOf(r, r.files[n].of) = r.files[n]
<1> DEFINE Q(k) == r.files[k].of = r.files[n].of /\ k \in TargetNames
<1>1. ASSUME NEW k \in DOMAIN r.files, Q(k) PROVE k = n
  <2>1. {n, k} \subseteq {"y", "train_y", "val_y", "test_y"}
        BY <1>1 DEF TargetNames
  <2> QED BY <1>1, <2>1, RequestAssumption
<1>2. Q(n)
      OBVIOUS
<1>3. (CHOOSE k \in DOMAIN r.files : Q(k)) = n
      BY <1>1, <1>2
<1> QED BY <1>3 DEF OriginalOf

\* Rows and targets that are looked up by the names of one split, or of two.
LEMMA OnePair ==
  ASSUME NEW r \in FitRequest, r.kind # "godot_json", NEW n, NEW m, <<n, m>> \in NamePairs
  PROVE  Paired(r, F!First(r.files, <<n>>), F!First(r.files, <<m>>))
<1> DEFINE x == F!First(r.files, <<n>>)
           y == F!First(r.files, <<m>>)
<1>1. /\ x = IF n \in DOMAIN r.files THEN r.files[n] ELSE <<>>
      /\ y = IF m \in DOMAIN r.files THEN r.files[m] ELSE <<>>
      BY FirstOfOne
<1> HIDE DEF x, y
<1>2. (x # <<>> => IsArray(x)) /\ (y # <<>> => IsArray(y) /\ Shaped(y))
      BY <1>1, FileArray
<1>3. ASSUME F!Whole(r.files), x # <<>>, y # <<>>
      PROVE  x.of = y.of /\ Len(x.rows) = Len(y.rows) /\ OriginalOf(r, y.of) = y
  <2>1. n \in DOMAIN r.files /\ m \in DOMAIN r.files /\ x = r.files[n] /\ y = r.files[m]
        BY <1>1, <1>3
  <2>2. m \in TargetNames
        BY DEF NamePairs, TargetNames
  <2> QED BY <1>3, <2>1, <2>2, Partner, OriginalIs
<1> QED BY <1>2, <1>3 DEF Paired, x, y

LEMMA TwoPairs ==
  ASSUME NEW r \in FitRequest, r.kind # "godot_json", NEW n, NEW m, NEW n2, NEW m2,
         <<n, m>> \in NamePairs, <<n2, m2>> \in NamePairs
  PROVE  Paired(r, F!First(r.files, <<n, n2>>), F!First(r.files, <<m, m2>>))
<1> DEFINE x == F!First(r.files, <<n, n2>>)
           y == F!First(r.files, <<m, m2>>)
           f == r.files
<1>1. /\ x = IF n \in DOMAIN f THEN f[n] ELSE IF n2 \in DOMAIN f THEN f[n2] ELSE <<>>
      /\ y = IF m \in DOMAIN f THEN f[m] ELSE IF m2 \in DOMAIN f THEN f[m2] ELSE <<>>
      BY FirstOfTwo
<1> HIDE DEF x, y
<1>2. (x # <<>> => IsArray(x)) /\ (y # <<>> => IsArray(y) /\ Shaped(y))
      BY <1>1, FileArray
<1>3. ASSUME F!Whole(f), x # <<>>, y # <<>>
      PROVE  x.of = y.of /\ Len(x.rows) = Len(y.rows) /\ OriginalOf(r, y.of) = y
  <2>1. m \in TargetNames /\ m2 \in TargetNames
        BY DEF NamePairs, TargetNames
  <2>2. (n \in DOMAIN f <=> m \in DOMAIN f) /\ (n2 \in DOMAIN f <=> m2 \in DOMAIN f)
        BY <1>3, Partner
  <2>3. CASE n \in DOMAIN f
        BY <1>1, <1>3, <2>1, <2>2, <2>3, Partner, OriginalIs
  <2>4. CASE n \notin DOMAIN f
    <3>1. n2 \in DOMAIN f /\ m2 \in DOMAIN f /\ x = f[n2] /\ y = f[m2]
          BY <1>1, <1>3, <2>2, <2>4
    <3> QED BY <1>3, <2>1, <3>1, Partner, OriginalIs
  <2> QED BY <2>3, <2>4
<1> QED BY <1>2, <1>3 DEF Paired, x, y

\* A dataset of the builder: as many targets as rows, in the form of the first.
LEMMA ConvertedIs ==
  ASSUME NEW r \in FitRequest, r.kind = "godot_json", F!Converted(r) # <<>>
  PROVE  /\ DOMAIN F!Converted(r) = {"x", "y"}
         /\ Paired(r, F!Converted(r).x, F!Converted(r).y)
<1> DEFINE n == F!Cardinality(F!Kept(r))
           kept == F!Ascending(F!Kept(r))
           cells(i, from, to) == F!FlattenSeq(SubSeq(r.table[i], from, to))
           xs == [k \in DOMAIN kept |-> cells(kept[k], 1, r.outputsFrom)]
           ys == [k \in DOMAIN kept |-> cells(kept[k], r.outputsFrom + 1, Len(r.table[kept[k]]))]
           dim == IF \E i \in DOMAIN ys : Len(ys[i]) = 1 THEN 1 ELSE 2
           x == [of |-> "table", ndim |-> 2, rows |-> xs]
           y == [of |-> "table", ndim |-> dim, rows |-> ys]
<1>1. F!Converted(r) = IF F!Kept(r) = {} \/ ~F!Even(xs) \/ ~F!Even(ys) THEN <<>> ELSE [x |-> x, y |-> y]
      BY DEF F!Converted
<1>2. F!Kept(r) # {} /\ F!Even(xs) /\ F!Even(ys) /\ F!Converted(r) = [x |-> x, y |-> y]
      BY <1>1
<1>3. n \in Nat
  <2>1. r.table \in Seq(Seq(Seq(Int)))
        BY RequestAssumption
  <2>2. Len(r.table) \in Nat /\ F!Kept(r) \subseteq 1..Len(r.table)
        BY <2>1 DEF F!Kept
  <2>3. IsFiniteSet(1..Len(r.table))
        BY <2>2, FS_Interval
  <2>4. IsFiniteSet(F!Kept(r))
        BY <2>2, <2>3, FS_Subset
  <2>5. Cardinality(F!Kept(r)) \in Nat
        BY <2>4, FS_CardinalityType
  <2>6. F!Cardinality(F!Kept(r)) = Cardinality(F!Kept(r))
        BY DEF F!Cardinality, Cardinality
  <2> QED BY <2>5, <2>6
<1>4. DOMAIN kept = 1..n
      BY DEF F!Ascending
<1> HIDE DEF n, kept, cells
<1>5. DOMAIN xs = 1..n /\ DOMAIN ys = 1..n /\ xs = [i \in 1..n |-> xs[i]] /\ ys = [i \in 1..n |-> ys[i]]
      BY <1>4
<1> HIDE DEF xs, ys
<1>6. Len(xs) = n /\ Len(ys) = n
      BY <1>3, <1>5, LenOf
<1>7. dim \in {1, 2}
      OBVIOUS
<1>8. dim = 1 => \A i \in 1..n : Len(ys[i]) = 1
  <2>1. \A i \in 1..n : Len(ys[i]) = Len(ys[1])
        BY <1>2, <1>5 DEF F!Even
  <2> QED BY <1>5, <2>1
<1>9. \A i, j \in 1..n : Len(ys[i]) = Len(ys[j])
      BY <1>2, <1>5 DEF F!Even
<1> HIDE DEF dim
<1>10. /\ x.of = "table" /\ x.ndim = 2 /\ x.rows = xs /\ x = [of |-> x.of, ndim |-> x.ndim, rows |-> x.rows]
       /\ y.of = "table" /\ y.ndim = dim /\ y.rows = ys /\ y = [of |-> y.of, ndim |-> y.ndim, rows |-> y.rows]
      OBVIOUS
<1> HIDE DEF x, y
<1>11. IsArray(x)
      BY <1>3, <1>5, <1>6, <1>10 DEF IsArray
<1>12. IsArray(y)
      BY <1>3, <1>5, <1>6, <1>7, <1>10 DEF IsArray
<1>13. Shaped(y)
      BY <1>6, <1>8, <1>9, <1>10 DEF Shaped, Single
<1>14. DOMAIN F!Converted(r) = {"x", "y"} /\ F!Converted(r).x = x /\ F!Converted(r).y = y
      BY <1>2
<1>15. OriginalOf(r, y.of) = y
      BY <1>14 DEF OriginalOf
<1> QED BY <1>6, <1>10, <1>11, <1>12, <1>13, <1>14, <1>15 DEF Paired

\* What is loaded is two pairs, each there or not.
LEMMA LoadedIs ==
  ASSUME NEW r \in FitRequest
  PROVE  \E x, y, vx, vy : /\ F!Loaded(r) = F!ArrayDataset(x, y, vx, vy)
                           /\ Paired(r, x, y) /\ Paired(r, vx, vy)
<1> DEFINE f == IF r.kind = "godot_json" THEN F!Converted(r) ELSE r.files
<1>0. Paired(r, <<>>, <<>>)
      BY DEF Paired
<1>1. CASE r.kind = "npz"
  <2>1. F!Loaded(r) = F!ArrayDataset(F!First(r.files, <<"x", "train_x">>), F!First(r.files, <<"y", "train_y">>),
                         F!First(r.files, <<"val_x", "test_x">>), F!First(r.files, <<"val_y", "test_y">>))
        BY <1>1 DEF F!Loaded
  <2>2. /\ Paired(r, F!First(r.files, <<"x", "train_x">>), F!First(r.files, <<"y", "train_y">>))
        /\ Paired(r, F!First(r.files, <<"val_x", "test_x">>), F!First(r.files, <<"val_y", "test_y">>))
        BY <1>1, TwoPairs DEF NamePairs
  <2> QED BY <2>1, <2>2
<1>2. CASE r.kind = "npy"
  <2>1. F!Loaded(r) = F!ArrayDataset(F!First(r.files, <<"train_x">>), F!First(r.files, <<"train_y">>),
                         F!First(r.files, <<"val_x", "test_x">>), F!First(r.files, <<"val_y", "test_y">>))
        BY <1>2 DEF F!Loaded
  <2>2. /\ Paired(r, F!First(r.files, <<"train_x">>), F!First(r.files, <<"train_y">>))
        /\ Paired(r, F!First(r.files, <<"val_x", "test_x">>), F!First(r.files, <<"val_y", "test_y">>))
        BY <1>2, OnePair, TwoPairs DEF NamePairs
  <2> QED BY <2>1, <2>2
<1>3. CASE r.kind = "godot_json"
  <2> DEFINE c == F!Converted(r)
  <2>1. F!Loaded(r) = F!ArrayDataset(F!First(c, <<"x">>), F!First(c, <<"y">>), <<>>, <<>>)
        BY <1>3 DEF F!Loaded, F!None
  <2>2. /\ F!First(c, <<"x">>) = IF "x" \in DOMAIN c THEN c["x"] ELSE <<>>
        /\ F!First(c, <<"y">>) = IF "y" \in DOMAIN c THEN c["y"] ELSE <<>>
        BY FirstOfOne
  <2>3. Paired(r, F!First(c, <<"x">>), F!First(c, <<"y">>))
    <3>1. CASE c = <<>>
      <4>1. "x" \notin DOMAIN c /\ "y" \notin DOMAIN c
            BY <3>1
      <4> QED BY <1>0, <2>2, <4>1
    <3>2. CASE c # <<>>
      <4>1. DOMAIN c = {"x", "y"} /\ Paired(r, c.x, c.y)
            BY <1>3, <3>2, ConvertedIs
      <4> HIDE DEF c
      <4>2. F!First(c, <<"x">>) = c.x /\ F!First(c, <<"y">>) = c.y
            BY <2>2, <4>1
      <4> QED BY <4>1, <4>2
    <3> QED BY <3>1, <3>2
  <2> QED BY <1>0, <2>1, <2>3
<1>4. CASE r.kind \notin {"npz", "npy", "godot_json"}
  <2>1. F!Loaded(r) = F!NoData
        BY <1>4 DEF F!Loaded
  <2>2. F!NoData = F!ArrayDataset(<<>>, <<>>, <<>>, <<>>)
        BY DEF F!NoData, F!ArrayDataset, F!NormalizeTargets, F!Missing, F!None
  <2> QED BY <1>0, <2>1, <2>2
<1> QED BY <1>1, <1>2, <1>3, <1>4

\* The dataset with its targets in the form of the loss.
CoercedData(d, l) == [d EXCEPT !.y = F!Coerced(@, l), !.val_y = F!Coerced(@, l)]
Enough(r) ==
  ~F!Missing(F!Loaded(r).x) /\ ~F!Missing(F!Loaded(r).y) /\ F!Loaded(r).x.rows # <<>>

LEMMA FitDataIs ==
  ASSUME NEW r \in FitRequest, NEW l, Enough(r)
  PROVE  LET p == CoercedData(F!Loaded(r), l)
         IN Matched(r, l, p) /\ Matched(r, l, F!ValidationArrays(p))
<1>1. PICK x, y, vx, vy : /\ F!Loaded(r) = F!ArrayDataset(x, y, vx, vy)
                          /\ Paired(r, x, y) /\ Paired(r, vx, vy)
      BY LoadedIs
<1> DEFINE ny == F!NormalizeTargets(y)
           nv == F!NormalizeTargets(vy)
           d == F!Loaded(r)
           p == CoercedData(d, l)
           cy == F!Coerced(ny, l)
           cv == F!Coerced(nv, l)
<1>2. d = [x |-> x, y |-> ny, val_x |-> vx, val_y |-> nv]
      BY <1>1 DEF F!ArrayDataset
<1>3. p = [d EXCEPT !.y = F!Coerced(@, l), !.val_y = F!Coerced(@, l)]
      BY SMTT(30) DEF CoercedData
<1>4. (ny # <<>> => y # <<>>) /\ (vy = <<>> => cv = <<>>)
      BY DEF F!NormalizeTargets, F!Missing, F!None, F!Coerced
<1> HIDE DEF ny, nv, d
<1>5. p = [x |-> x, y |-> cy, val_x |-> vx, val_y |-> cv]
      BY <1>2, <1>3
<1>6. x # <<>> /\ y # <<>> /\ x.rows # <<>>
      BY <1>2, <1>4 DEF Enough, F!Missing, F!None, d
<1> HIDE DEF p
<1>7. Matched(r, l, [x |-> x, y |-> cy])
      BY <1>1, <1>6, PairMatches DEF ny
<1>8. vx # <<>> /\ vy # <<>> /\ vx.rows # <<>> => Matched(r, l, [x |-> vx, y |-> cv])
      BY <1>1, PairMatches DEF nv
<1> HIDE DEF cy, cv
<1>9. p.x = x /\ p.y = cy /\ p.val_x = vx /\ p.val_y = cv
      BY <1>5
<1>10. Matched(r, l, p)
      BY <1>7, <1>9 DEF Matched
<1>11. Matched(r, l, F!ValidationArrays(p))
  <2>1. CASE vx # <<>> /\ cv # <<>> /\ vx.rows # <<>>
    <3>1. F!ValidationArrays(p) = [x |-> vx, y |-> cv]
          BY <1>9, <2>1 DEF F!ValidationArrays, F!Missing, F!None
    <3> QED BY <1>4, <1>8, <2>1, <3>1
  <2>2. CASE ~(vx # <<>> /\ cv # <<>> /\ vx.rows # <<>>)
    <3>1. F!ValidationArrays(p) = [x |-> x, y |-> cy]
          BY <1>9, <2>2 DEF F!ValidationArrays, F!Missing, F!None
    <3> QED BY <1>7, <3>1
  <2> QED BY <2>1, <2>2
<1> QED BY <1>10, <1>11 DEF p, d

-----------------------------------------------------------------------------
(* What a metric is of *)

LEMMA DivGrows ==
  ASSUME NEW m \in Nat \ {0}, NEW a \in Nat, NEW b \in Nat, b >= a + m
  PROVE  a \div m + 1 <= b \div m /\ a \div m \in Nat
<1> DEFINE q == a \div m
           s == b \div m
<1>1. /\ q \in Int /\ m * q <= a /\ a < m * q + m
      /\ s \in Int /\ m * s <= b /\ b < m * s + m
      OBVIOUS
<1>2. q \in Nat
      BY <1>1
<1> HIDE DEF q, s
<1>3. m * q + m < m * s + m
      BY <1>1
<1>4. m * (s - q) > 0
      BY <1>1, <1>3
<1>5. s - q > 0
      BY <1>1, <1>4
<1> QED BY <1>1, <1>2, <1>5 DEF q, s

LEMMA DivExact == ASSUME NEW m \in Nat \ {0}, NEW q \in Nat PROVE (m * q) \div m = q
<1> DEFINE s == (m * q) \div m
<1>1. s \in Int /\ m * s <= m * q /\ m * q < m * s + m
      OBVIOUS
<1> HIDE DEF s
<1>2. m * (q - s) >= 0 /\ m * (q - s) < m
      BY <1>1
<1>3. q - s >= 0 /\ q - s < 1
      BY <1>1, <1>2
<1> QED BY <1>1, <1>3 DEF s

\* The places of a sample: of all, or from the first to the last in growing steps.
Sample(n) == IF fEpoch = fRequest.epochs \/ n <= MaxSamples THEN n ELSE MaxSamples
LEMMA PlacesAre ==
  ASSUME NEW n \in Nat \ {0}
  PROVE  /\ Sample(n) \in Nat \ {0} /\ Sample(n) <= n
         /\ DOMAIN F!Places(n) = 1..Sample(n) /\ Len(F!Places(n)) = Sample(n)
         /\ \A i \in 1..Sample(n) : F!Places(n)[i] \in 1..n
         /\ \A i, j \in 1..Sample(n) : i < j => F!Places(n)[i] < F!Places(n)[j]
         /\ F!Places(n)[1] = 1 /\ F!Places(n)[Sample(n)] = n
<1> DEFINE p == F!Places(n)
           k == Sample(n)
           g(i) == 1 + ((i - 1) * (n - 1)) \div (MaxSamples - 1)
<1>0. MaxSamples \in Nat \ {0, 1}
      BY RequestAssumption
<1>1. k \in Nat \ {0} /\ k <= n
      BY <1>0 DEF Sample
<1>2. CASE fEpoch = fRequest.epochs \/ n <= MaxSamples
  <2>1. p = [i \in 1..n |-> i] /\ k = n
        BY <1>2 DEF F!Places, Sample
  <2> HIDE DEF p, k
  <2>2. Len(p) = n
        BY <2>1, LenOf
  <2> QED BY <1>1, <2>1, <2>2 DEF p, k
<1>3. CASE ~(fEpoch = fRequest.epochs \/ n <= MaxSamples)
  <2>1. p = [i \in 1..MaxSamples |-> g(i)] /\ k = MaxSamples
        BY <1>3 DEF F!Places, Sample
  <2>2. n > MaxSamples
        BY <1>0, <1>3
  <2>3. ASSUME NEW i \in 1..MaxSamples, NEW j \in 1..MaxSamples, i < j PROVE g(i) + 1 <= g(j)
    <3> DEFINE m == MaxSamples - 1
               a == (i - 1) * (n - 1)
               b == (j - 1) * (n - 1)
    <3>1. m \in Nat \ {0} /\ i - 1 \in Nat /\ j - 1 \in Nat /\ n - 1 \in Nat
          BY <1>0
    <3>2. a \in Nat /\ b \in Nat
          BY <3>1
    <3>3. b = a + (j - i) * (n - 1)
          BY <3>1
    <3>4. (j - i) * (n - 1) >= n - 1
      <4>1. j - i - 1 \in Nat
            BY <2>3
      <4>2. (j - i - 1) * (n - 1) \in Nat
            BY <3>1, <4>1
      <4>3. (j - i) * (n - 1) = (j - i - 1) * (n - 1) + (n - 1)
            BY <3>1, <4>1
      <4> QED BY <3>1, <4>2, <4>3
    <3>5. b >= a + m
      <4> DEFINE c == (j - i) * (n - 1)
      <4>1. c \in Int /\ c >= n - 1 /\ b = a + c /\ n - 1 >= m
            BY <1>0, <2>2, <3>1, <3>3, <3>4
      <4> HIDE DEF a, b, c, m
      <4> QED BY <3>1, <3>2, <4>1
    <3> HIDE DEF a, b, m
    <3>6. a \div m + 1 <= b \div m /\ a \div m \in Nat /\ b \div m \in Int
          BY <3>1, <3>2, <3>5, DivGrows
    <3>7. (1 + a \div m) + 1 <= 1 + b \div m
          BY <3>6
    <3> QED BY <3>7 DEF a, b, m
  <2>4. g(1) = 1
    <3>1. (1 - 1) * (n - 1) = 0
          OBVIOUS
    <3>2. 0 \div (MaxSamples - 1) = 0
          BY <1>0
    <3> QED BY <3>1, <3>2
  <2>5. g(MaxSamples) = n
    <3> DEFINE m == MaxSamples - 1
               q == n - 1
    <3>1. m \in Nat \ {0} /\ q \in Nat /\ 1 + q = n
          BY <1>0
    <3>2. g(MaxSamples) = 1 + (m * q) \div m
          OBVIOUS
    <3> HIDE DEF g, m, q
    <3> QED BY <3>1, <3>2, DivExact
  <2>6. \A i \in 1..MaxSamples : g(i) \in Int
        BY <1>0
  <2> HIDE DEF g
  <2>7. \A i \in 1..MaxSamples : g(i) \in 1..n
    <3> SUFFICES ASSUME NEW i \in 1..MaxSamples PROVE g(i) \in 1..n
        OBVIOUS
    <3>0. 1 \in 1..MaxSamples /\ MaxSamples \in 1..MaxSamples
          BY <1>0
    <3>1. 1 < i => g(1) + 1 <= g(i)
          BY <2>3, <3>0
    <3>2. i < MaxSamples => g(i) + 1 <= g(MaxSamples)
          BY <2>3, <3>0
    <3>3. g(i) \in Int
          BY <2>6
    <3> QED BY <1>0, <2>4, <2>5, <3>1, <3>2, <3>3
  <2>8. \A i, j \in 1..MaxSamples : i < j => g(i) < g(j)
        BY <2>3, <2>6
  <2> HIDE DEF p, k
  <2>9. \A i \in 1..MaxSamples : p[i] = g(i)
        BY <2>1
  <2>10. Len(p) = MaxSamples
        BY <1>0, <2>1, LenOf
  <2>11. p[1] = 1 /\ p[MaxSamples] = n
        BY <1>0, <2>4, <2>5, <2>9
  <2>12. \A i, j \in 1..k : i < j => p[i] < p[j]
        BY <2>1, <2>8, <2>9
  <2>13. \A i \in 1..k : p[i] \in 1..n
        BY <2>1, <2>7, <2>9
  <2>14. DOMAIN p = 1..k
        BY <2>1
  <2> QED BY <1>1, <2>1, <2>10, <2>11, <2>12, <2>13, <2>14 DEF p, k
<1> QED BY <1>2, <1>3

LEMMA CountTo == ASSUME NEW k \in Nat PROVE IsFiniteSet(1..k) /\ Cardinality(1..k) = k
<1>0. 1 \in Int /\ k \in Int
        OBVIOUS
<1>1. IsFiniteSet(1..k) /\ Cardinality(1..k) = IF 1 > k THEN 0 ELSE k - 1 + 1
        BY <1>0, FS_Interval, Zenon
<1> DEFINE q == Cardinality(1..k)
<1>2. q = IF 1 > k THEN 0 ELSE k - 1 + 1
        BY <1>1
<1> HIDE DEF q
<1>3. q = k
        BY <1>2
<1> QED BY <1>1, <1>3 DEF q

LEMMA SampleCount ==
  ASSUME NEW k \in Nat, NEW p, DOMAIN p = 1..k, p = [i \in 1..k |-> p[i]],
         \A i \in 1..k : p[i] \in Int, \A i, j \in 1..k : i < j => p[i] < p[j]
  PROVE  Cardinality({p[i] : i \in 1..k}) = k
<1> DEFINE ran == {p[i] : i \in 1..k}
<1>1. p \in [1..k -> ran] /\ \A y \in ran : \E i \in 1..k : p[i] = y
      OBVIOUS
<1>2. \A i, j \in 1..k : p[i] = p[j] => i = j
      OBVIOUS
<1> HIDE DEF ran
<1>3. p \in Injection(1..k, ran)
      BY <1>1, <1>2 DEF Injection, IsInjective
<1>4. p \in Surjection(1..k, ran)
      BY <1>1 DEF Surjection
<1>5. IsFiniteSet(1..k) /\ Cardinality(1..k) = k
      BY CountTo
<1>6. Cardinality(ran) = Cardinality(1..k)
      BY <1>3, <1>4, <1>5, FS_Surjection
<1> QED BY <1>5, <1>6 DEF ran

\* Targets that fit, in a file that is whole, can be compared.
LEMMA ComparableIs ==
  ASSUME fRequest \in FitRequest, F!Whole(fRequest.files), NEW v,
         Matched(fRequest, fConfig.loss, v), F!Fits(v)
  PROVE  F!Comparable(v, F!Places(Len(v.x.rows)))
<1> DEFINE c == Len(v.x.rows)
           p == F!Places(c)
           k == Sample(c)
           ys == v.y.rows
           at == IF Len(p) < c THEN F!Range(p) ELSE DOMAIN ys
           w == Len(ys[1])
           d == fRequest.classes
<1>1. c \in Nat \ {0} /\ DOMAIN v.x.rows = 1..c /\ Len(ys) = c /\ DOMAIN ys = 1..c
      BY DEF Matched
<1> HIDE DEF c
<1>2. /\ k \in Nat \ {0} /\ k <= c /\ DOMAIN p = 1..k /\ Len(p) = k
      /\ \A i \in 1..k : p[i] \in 1..c
      /\ \A i, j \in 1..k : i < j => p[i] < p[j]
      BY <1>1, PlacesAre
<1>3. p = [i \in 1..k |-> p[i]]
      BY <1>2 DEF F!Places
<1>4. Cardinality({p[i] : i \in 1..k}) = k
      BY <1>2, <1>3, SampleCount
<1>5. d \in Nat
      BY RequestAssumption
<1>6. \A i \in 1..c : IF F!Regression(fConfig.loss) THEN Len(ys[i]) = d ELSE ys[i][1] \in 0..d - 1
      BY <1>1 DEF F!Fits
<1> HIDE DEF p, k, ys, d
<1>7. at \subseteq 1..c /\ 1 \in 1..c /\ at # {} /\ Cardinality(at) = k
  <2>1. CASE k < c
    <3>1. at = {p[i] : i \in 1..k}
          BY <1>2, <2>1 DEF F!Range
    <3>2. p[1] \in {p[i] : i \in 1..k} /\ {p[i] : i \in 1..k} \subseteq 1..c /\ 1 \in 1..c
          BY <1>1, <1>2
    <3> HIDE DEF at
    <3> QED BY <1>4, <3>1, <3>2, Zenon
  <2>2. CASE ~(k < c)
    <3>1. at = 1..c /\ k = c
          BY <1>1, <1>2, <2>2
    <3>2. Cardinality(1..c) = c
          BY <1>1, FS_Interval
    <3> QED BY <1>1, <3>1, <3>2
  <2> QED BY <2>1, <2>2
<1>8. F!Cardinality(at) = Cardinality(at)
      BY DEF F!Cardinality, Cardinality
<1>9. F!Comparable(v, p) <=>
        /\ at \subseteq DOMAIN ys /\ at # {}
        /\ IF F!Regression(fConfig.loss)
           THEN \/ F!Cardinality(at) * w = Len(p) * d
                \/ /\ F!Cardinality(at) = Len(p) \/ 1 \in {F!Cardinality(at), Len(p)}
                   /\ 1 \in {w, d}
           ELSE F!Cardinality(at) \in {1, Len(p)} /\ \A i \in at : ys[i][1] \in -d..d - 1
      BY DEF F!Comparable, c, ys, d
<1> HIDE DEF at
<1>10. CASE F!Regression(fConfig.loss)
  <2>1. w = d
        BY <1>6, <1>7, <1>10
  <2> QED BY <1>1, <1>2, <1>7, <1>8, <1>9, <1>10, <2>1 DEF c, p
<1>11. CASE ~F!Regression(fConfig.loss)
  <2>1. \A i \in at : ys[i][1] \in -d..d - 1
    <3> SUFFICES ASSUME NEW i \in at PROVE ys[i][1] \in -d..d - 1
        OBVIOUS
    <3> DEFINE e == ys[i][1]
    <3>1. e \in 0..d - 1
          BY <1>6, <1>7, <1>11
    <3> HIDE DEF e
    <3>2. e \in -d..d - 1
          BY SMTT(30), <1>5, <3>1
    <3> QED BY <3>2 DEF e
  <2> QED BY <1>1, <1>2, <1>7, <1>8, <1>9, <1>11, <2>1 DEF c, p
<1> QED BY <1>10, <1>11

\* What is evaluated is of as many rows as there are places; of a whole file, with their targets.
LEMMA EvaluatedIs ==
  ASSUME fRequest \in FitRequest, NEW v, Matched(fRequest, fConfig.loss, v)
  PROVE  LET c == Len(v.x.rows)
             m == F!Evaluated(v, F!Places(c))
             s == m.samples
         IN /\ m.epoch = fEpoch /\ Len(s) = Sample(c) /\ c \in Nat \ {0}
            /\ F!Whole(fRequest.files) =>
                 /\ \A i \in DOMAIN s :
                      /\ s[i].x = s[i].y
                      /\ s[i].target = F!Meaning(F!Original(s[i].y[1]).rows[s[i].y[2]])
                      /\ \A j \in DOMAIN s : s[i].x = s[j].x => i = j
                 /\ s[1].x[2] = 1 /\ s[Len(s)].x[2] = c
<1> DEFINE c == Len(v.x.rows)
           p == F!Places(c)
           k == Sample(c)
           m == F!Evaluated(v, p)
           s == m.samples
           tgt(i) == IF p[i] \in DOMAIN v.y.rows THEN p[i] ELSE 1
           e(i) == [x |-> <<v.x.of, p[i]>>, y |-> <<v.y.of, tgt(i)>>, target |-> v.y.rows[tgt(i)]]
<1>1. c \in Nat \ {0}
      BY DEF Matched
<1>2. /\ k \in Nat \ {0} /\ DOMAIN p = 1..k
      /\ \A i \in 1..k : p[i] \in 1..c
      /\ \A i, j \in 1..k : i < j => p[i] < p[j]
      /\ p[1] = 1 /\ p[k] = c
      BY <1>1, PlacesAre
<1>3. m = [epoch |-> fEpoch, samples |-> [i \in DOMAIN p |-> e(i)]]
      BY DEF F!Evaluated
<1>4. m.epoch = fEpoch /\ s = [i \in 1..k |-> e(i)]
      BY SMTT(30), <1>2, <1>3
<1> HIDE DEF m
<1>5. DOMAIN s = 1..k /\ \A i \in 1..k : s[i] = e(i)
      BY SMTT(30), <1>4
<1>6. s = [i \in 1..k |-> s[i]]
      BY <1>4, <1>5
<1> HIDE DEF s, k, p, e
<1>7. Len(s) = k
      BY <1>2, <1>5, <1>6, LenOf
<1>8. ASSUME F!Whole(fRequest.files)
      PROVE  /\ \A i \in 1..k :
                  /\ s[i].x = s[i].y
                  /\ s[i].target = F!Meaning(F!Original(s[i].y[1]).rows[s[i].y[2]])
                  /\ \A j \in 1..k : s[i].x = s[j].x => i = j
             /\ s[1].x[2] = 1 /\ s[k].x[2] = c
  <2> DEFINE o == v.y.of
  <2>1. /\ DOMAIN v.y.rows = 1..c /\ v.x.of = o
        /\ \A i \in 1..c : v.y.rows[i] = MeaningOf(fConfig.loss, OriginalOf(fRequest, o).rows[i])
        BY <1>8 DEF Matched
  <2> HIDE DEF c, o
  <2>2. ASSUME NEW i \in 1..k
        PROVE  /\ s[i].x = <<o, p[i]>> /\ s[i].y = <<o, p[i]>> /\ s[i].target = v.y.rows[p[i]]
    <3>1. p[i] \in 1..c
          BY <1>2
    <3>2. tgt(i) = p[i]
          BY <2>1, <3>1
    <3> HIDE DEF tgt
    <3>3. s[i] = [x |-> <<v.x.of, p[i]>>, y |-> <<v.y.of, tgt(i)>>, target |-> v.y.rows[tgt(i)]]
          BY <1>5 DEF e
    <3> QED BY <2>1, <3>2, <3>3 DEF o
  <2>3. ASSUME NEW i \in 1..k
        PROVE  s[i].target = F!Meaning(F!Original(s[i].y[1]).rows[s[i].y[2]])
    <3>1. p[i] \in 1..c
          BY <1>2
    <3>2. s[i].y[1] = o /\ s[i].y[2] = p[i]
          BY <2>2
    <3>3. s[i].target = MeaningOf(fConfig.loss, OriginalOf(fRequest, o).rows[p[i]])
          BY <2>1, <2>2, <3>1
    <3>4. \A row : F!Meaning(row) = MeaningOf(fConfig.loss, row)
          BY DEF F!Meaning, MeaningOf
    <3>5. F!Original(o) = OriginalOf(fRequest, o)
          BY DEF F!Original, OriginalOf, TargetNames
    <3> QED BY <3>2, <3>3, <3>4, <3>5
  <2>4. ASSUME NEW i \in 1..k, NEW j \in 1..k, s[i].x = s[j].x PROVE i = j
    <3>1. <<o, p[i]>> = <<o, p[j]>>
          BY <2>2, <2>4
    <3>2. p[i] = p[j]
          BY <3>1
    <3>3. p[i] \in Int
          BY <1>2
    <3> QED BY <1>2, <3>2, <3>3
  <2>5. s[1].x[2] = 1 /\ s[k].x[2] = c
    <3>1. 1 \in 1..k /\ k \in 1..k
          BY <1>2
    <3>2. s[1].x = <<o, 1>> /\ s[k].x = <<o, c>>
          BY <1>2, <2>2, <3>1
    <3> QED BY <3>2
  <2> QED BY <2>2, <2>3, <2>4, <2>5
<1> QED BY <1>1, <1>4, <1>5, <1>7, <1>8 DEF s, k, p, m

-----------------------------------------------------------------------------
(* What is told, and the training as a whole *)

IsSeq(s) == s \in Seq({s[i] : i \in DOMAIN s})

LEMMA SeqIs ==
  ASSUME NEW s, IsSeq(s)
  PROVE  Len(s) \in Nat /\ DOMAIN s = 1..Len(s) /\ s = [i \in 1..Len(s) |-> s[i]]
<1> DEFINE ran == {s[i] : i \in DOMAIN s}
<1>1. s \in Seq(ran)
      BY DEF IsSeq
<1> HIDE DEF ran
<1> QED BY <1>1

LEMMA IsSeqIn == ASSUME NEW ran, NEW s \in Seq(ran) PROVE IsSeq(s)
<1>1. Len(s) \in Nat /\ DOMAIN s = 1..Len(s) /\ s = [i \in 1..Len(s) |-> s[i]]
      OBVIOUS
<1>2. s \in Seq({s[i] : i \in 1..Len(s)})
      BY <1>1, LenOf
<1> QED BY <1>1, <1>2 DEF IsSeq

LEMMA ConcatIs ==
  ASSUME NEW s, IsSeq(s), NEW t, IsSeq(t)
  PROVE  /\ IsSeq(s \o t) /\ Len(s \o t) = Len(s) + Len(t)
         /\ \A i \in 1..Len(s) : (s \o t)[i] = s[i]
         /\ \A i \in 1..Len(t) : (s \o t)[Len(s) + i] = t[i]
<1> DEFINE ran == {s[i] : i \in DOMAIN s} \cup {t[i] : i \in DOMAIN t}
           u == s \o t
<1>1. /\ Len(s) \in Nat /\ DOMAIN s = 1..Len(s) /\ s = [i \in 1..Len(s) |-> s[i]]
      /\ Len(t) \in Nat /\ DOMAIN t = 1..Len(t) /\ t = [i \in 1..Len(t) |-> t[i]]
      BY SeqIs
<1>2. s \in [1..Len(s) -> ran] /\ t \in [1..Len(t) -> ran]
      BY <1>1
<1> HIDE DEF ran
<1>3. s \in Seq(ran) /\ t \in Seq(ran)
      BY <1>1, <1>2, SeqDef
<1>4. /\ u \in Seq(ran) /\ Len(u) = Len(s) + Len(t)
      /\ \A i \in 1..Len(s) + Len(t) : u[i] = IF i <= Len(s) THEN s[i] ELSE t[i - Len(s)]
      BY <1>3, ConcatProperties
<1>5. IsSeq(u)
      BY <1>4, IsSeqIn
<1> HIDE DEF u
<1>6. \A i \in 1..Len(s) : u[i] = s[i]
      BY <1>1, <1>4
<1>7. ASSUME NEW i \in 1..Len(t) PROVE u[Len(s) + i] = t[i]
  <2>1. Len(s) + i \in 1..Len(s) + Len(t) /\ ~(Len(s) + i <= Len(s)) /\ Len(s) + i - Len(s) = i
        BY <1>1
  <2> QED BY <1>4, <2>1
<1> QED BY <1>4, <1>5, <1>6, <1>7 DEF u

LEMMA AppendIs ==
  ASSUME NEW s, IsSeq(s), NEW e
  PROVE  /\ IsSeq(Append(s, e)) /\ Len(Append(s, e)) = Len(s) + 1
         /\ \A i \in 1..Len(s) : Append(s, e)[i] = s[i]
         /\ Append(s, e)[Len(s) + 1] = e
<1> DEFINE ran == {s[i] : i \in DOMAIN s} \cup {e}
           u == Append(s, e)
<1>1. Len(s) \in Nat /\ DOMAIN s = 1..Len(s) /\ s = [i \in 1..Len(s) |-> s[i]]
      BY SeqIs
<1>2. s \in [1..Len(s) -> ran] /\ e \in ran
      BY <1>1
<1> HIDE DEF ran
<1>3. s \in Seq(ran)
      BY <1>1, <1>2, SeqDef
<1>4. u \in Seq(ran) /\ Len(u) = Len(s) + 1 /\ (\A i \in 1..Len(s) : u[i] = s[i]) /\ u[Len(s) + 1] = e
      BY <1>2, <1>3
<1>5. IsSeq(u)
      BY <1>4, IsSeqIn
<1> QED BY <1>4, <1>5

\* One that fails tells an error at the end.
LEMMA ErrorIs ==
  ASSUME NEW s, IsSeq(s), NEW t, IsSeq(t)
  PROVE  LET u == s \o t \o <<[phase |-> "error"]>>
         IN /\ IsSeq(u) /\ Len(u) = Len(s) + Len(t) + 1 /\ u[Len(u)].phase = "error"
            /\ \A i \in 1..Len(s) : u[i] = s[i]
            /\ \A i \in 1..Len(t) : u[Len(s) + i] = t[i]
<1> DEFINE o == [phase |-> "error"]
           e == <<o>>
           a == s \o t
<1>1. o.phase = "error"
      OBVIOUS
<1> HIDE DEF o
<1>2. e \in Seq({o}) /\ Len(e) = 1 /\ e[1] = o
      OBVIOUS
<1> HIDE DEF e
<1>3. IsSeq(e)
      BY <1>2, IsSeqIn
<1>4. /\ IsSeq(a) /\ Len(a) = Len(s) + Len(t)
      /\ \A i \in 1..Len(s) : a[i] = s[i]
      /\ \A i \in 1..Len(t) : a[Len(s) + i] = t[i]
      BY ConcatIs
<1>5. Len(s) \in Nat /\ Len(t) \in Nat
      BY SeqIs
<1> HIDE DEF a
<1>6. /\ IsSeq(a \o e) /\ Len(a \o e) = Len(a) + 1
      /\ \A i \in 1..Len(a) : (a \o e)[i] = a[i]
      /\ (a \o e)[Len(a) + 1] = o
  <2>1. /\ IsSeq(a \o e) /\ Len(a \o e) = Len(a) + Len(e)
        /\ \A i \in 1..Len(a) : (a \o e)[i] = a[i]
        /\ \A i \in 1..Len(e) : (a \o e)[Len(a) + i] = e[i]
    <3>1. IsSeq(a) /\ IsSeq(e)
          BY <1>3, <1>4
    <3> QED BY <3>1, ConcatIs
  <2>2. 1 \in 1..Len(e)
        BY <1>2
  <2> QED BY <1>2, <2>1, <2>2
<1> DEFINE u == a \o e
<1> HIDE DEF u
<1>7. /\ IsSeq(u) /\ Len(u) = Len(s) + Len(t) + 1 /\ u[Len(u)].phase = "error"
      /\ \A i \in 1..Len(s) : u[i] = s[i]
      /\ \A i \in 1..Len(t) : u[Len(s) + i] = t[i]
  <2>1. IsSeq(u) /\ Len(u) = Len(a) + 1 /\ (\A i \in 1..Len(a) : u[i] = a[i]) /\ u[Len(a) + 1] = o
        BY <1>6 DEF u
  <2>2. Len(u) = Len(s) + Len(t) + 1 /\ u[Len(u)].phase = "error"
        BY <1>1, <1>4, <2>1
  <2>3. \A i \in 1..Len(s) : i \in 1..Len(a)
        BY <1>4, <1>5
  <2>4. \A i \in 1..Len(t) : Len(s) + i \in 1..Len(a)
        BY <1>4, <1>5
  <2> QED BY <1>4, <2>1, <2>2, <2>3, <2>4
<1> QED BY <1>7 DEF u, a, e, o

Going == {"training", "trained", "done"}
FitPhases == {"warning", "state", "done", "error"}
\* The training has got as far as its first epoch.
Prepped == fStage \in Going \/ (fStage = "failed" /\ fEpoch > 0)
Wanted == F!Extracted(fRequest.train)
Cautions == F!Warnings(Wanted, fRequest)

FitTypes ==
  /\ fStage \in {"none", "asked", "failed"} \cup Going
  /\ fStage # "none" => fRequest \in FitRequest
  /\ fEpoch \in Nat /\ fMetrics.epoch \in Nat /\ fMetrics.epoch <= fEpoch
  /\ fStage \in {"none", "asked"} => fEpoch = 0 /\ fEvents = <<>>
  /\ fEpoch = 0 => fMetrics = F!NoMetrics
  /\ IsSeq(fEvents) /\ \A i \in DOMAIN fEvents : fEvents[i].phase \in FitPhases
\* What is trained on is what was asked for, in the form of the loss.
FitData ==
  Prepped => /\ fData = CoercedData(F!Loaded(fRequest), Wanted.loss)
             /\ fConfig = F!Resolved(Wanted, fRequest) /\ Enough(fRequest)
\* The warnings come first, and there are no others.
FitCautions ==
  fStage \in Going =>
    /\ Len(Cautions) <= Len(fEvents)
    /\ \A i \in DOMAIN fEvents : fEvents[i].phase = "warning" <=> i <= Len(Cautions)
FitReports ==
  \A i \in DOMAIN fEvents : fEvents[i].phase = "state" =>
    fEvents[i].metrics.epoch \in (fEvents[i].epoch - ExportInterval + 1)..fEvents[i].epoch \ {0}
\* The metrics are of the last epoch that was exported, at the end of an epoch.
Recent(e) == fMetrics.epoch \in 1..e /\ ExportInterval * (e \div ExportInterval) <= fMetrics.epoch
FitFresh ==
  /\ fStage = "training" /\ fEpoch > 0 => Recent(fEpoch)
  /\ fStage = "trained" => fEpoch > 0 /\ (fEpoch > 1 => Recent(fEpoch - 1))
  /\ fStage \in {"training", "done"} /\ fEpoch = fRequest.epochs =>
       /\ fMetrics.epoch = fRequest.epochs
       /\ Len(fMetrics.samples) = Len(F!ValidationArrays(fData).x.rows)
  /\ fStage = "done" => fEpoch = fRequest.epochs
FitRows == Prepped => F!MetricsOfRows
FitFailed ==
  fStage = "failed" /\ F!Whole(fRequest.files) /\ fEpoch > 0 =>
    ~F!Fits(fData) \/ ~F!Fits(F!ValidationArrays(fData))
FitInv ==
  /\ FitTypes /\ FitData /\ FitCautions /\ FitReports /\ FitFresh /\ FitRows /\ FitFailed

LEMMA DataMatches ==
  ASSUME FitTypes, FitData, Prepped
  PROVE  /\ fRequest \in FitRequest /\ fConfig.loss = Wanted.loss
         /\ Matched(fRequest, fConfig.loss, fData)
         /\ Matched(fRequest, fConfig.loss, F!ValidationArrays(fData))
<1>1. fRequest \in FitRequest
      BY DEF FitTypes, Prepped, Going
<1>2. fConfig.loss = Wanted.loss
      BY DEF FitData, F!Resolved
<1> QED BY <1>1, <1>2, FitDataIs DEF FitData

\* The rows of the metrics depend on nothing that the epochs change.
LEMMA RowsStay ==
  ASSUME fRequest' = fRequest, fConfig' = fConfig, fData' = fData, fMetrics' = fMetrics
  PROVE  F!MetricsOfRows' = F!MetricsOfRows /\ F!Fits(fData)' = F!Fits(fData)
         /\ F!Fits(F!ValidationArrays(fData))' = F!Fits(F!ValidationArrays(fData))
         /\ Wanted' = Wanted /\ Cautions' = Cautions
BY DEF F!MetricsOfRows, F!Original, F!Meaning, F!Fits, Wanted, Cautions

LEMMA NoneIs == IsSeq(<<>>) /\ Len(<<>>) = 0 /\ DOMAIN <<>> = {}
<1>1. <<>> \in Seq({1})
      OBVIOUS
<1>2. IsSeq(<<>>)
      BY <1>1, IsSeqIn
<1>3. Len(<<>>) = 0 /\ DOMAIN <<>> = {}
      OBVIOUS
<1> QED BY <1>2, <1>3

LEMMA FitStart == F!Init => FitInv
<1> SUFFICES ASSUME F!Init PROVE FitInv
    OBVIOUS
<1>0. /\ fStage = "none" /\ fEpoch = 0 /\ fMetrics = F!NoMetrics /\ fEvents = <<>>
      BY DEF F!Init
<1>1. fMetrics.epoch = 0
      BY <1>0 DEF F!NoMetrics
<1>2. IsSeq(<<>>) /\ DOMAIN <<>> = {}
      BY NoneIs
<1>3. FitTypes
      BY <1>0, <1>1, <1>2 DEF FitTypes, Going
<1>4. ~Prepped
      BY <1>0 DEF Prepped, Going
<1> QED BY <1>0, <1>2, <1>3, <1>4
        DEF FitInv, FitData, FitCautions, FitReports, FitFresh, FitRows, FitFailed, Going

LEMMA FitChosen == ASSUME FitInv, NEW r \in FitRequest, F!Choose(r) PROVE FitInv'
<1> USE DEF FitInv
<1>0. /\ fStage = "none" /\ fRequest' = r /\ fStage' = "asked"
      /\ fData' = fData /\ fConfig' = fConfig /\ fEpoch' = fEpoch /\ fMetrics' = fMetrics
      /\ fEvents' = fEvents
      BY DEF F!Choose
<1>1. FitTypes'
      BY <1>0 DEF FitTypes, Going
<1>2. ~Prepped'
      BY <1>0 DEF Prepped, Going
<1>3. FitReports'
      BY <1>0 DEF FitReports
<1> QED BY <1>0, <1>1, <1>2, <1>3 DEF FitData, FitCautions, FitFresh, FitRows, FitFailed, Going

LEMMA CautionsAre ==
  LET w == Cautions
  IN /\ IsSeq(w) /\ \A i \in DOMAIN w : w[i].phase = "warning"
     /\ Len(w) \in 0..2 /\ DOMAIN w = 1..Len(w)
     /\ F!Fallback(Wanted, fRequest) => Len(w) >= 1
     /\ F!Fallback(Wanted, fRequest) /\ Wanted.rate > 1 => Len(w) = 2
<1> DEFINE w == Cautions
           o == F!Warning
<1>1. o.phase = "warning"
      BY DEF F!Warning
<1> HIDE DEF o
<1>2. w = IF ~F!Fallback(Wanted, fRequest) THEN <<>> ELSE IF Wanted.rate > 1 THEN <<o, o>> ELSE <<o>>
      BY DEF Cautions, F!Warnings, o
<1> HIDE DEF w
<1>3. w \in Seq({o})
  <2>1. <<>> \in Seq({o}) /\ <<o>> \in Seq({o}) /\ <<o, o>> \in Seq({o})
        OBVIOUS
  <2> QED BY <1>2, <2>1, Zenon
<1>4. IsSeq(w) /\ \A i \in DOMAIN w : w[i] = o
      BY <1>3, IsSeqIn
<1>5. Len(<<>>) = 0 /\ Len(<<o>>) = 1 /\ Len(<<o, o>>) = 2
      OBVIOUS
<1>6. /\ Len(w) \in 0..2
      /\ F!Fallback(Wanted, fRequest) => Len(w) >= 1
      /\ F!Fallback(Wanted, fRequest) /\ Wanted.rate > 1 => Len(w) = 2
  <2>1. CASE ~F!Fallback(Wanted, fRequest)
    <3>1. w = <<>>
          BY <1>2, <2>1
    <3> QED BY <1>5, <2>1, <3>1
  <2>2. CASE F!Fallback(Wanted, fRequest) /\ Wanted.rate > 1
    <3>1. w = <<o, o>>
          BY <1>2, <2>2
    <3> QED BY <1>5, <2>2, <3>1
  <2>3. CASE F!Fallback(Wanted, fRequest) /\ ~(Wanted.rate > 1)
    <3>1. w = <<o>>
          BY <1>2, <2>3
    <3> QED BY <1>5, <2>3, <3>1
  <2> QED BY <2>1, <2>2, <2>3
<1>7. DOMAIN w = 1..Len(w)
      BY <1>3
<1> QED BY <1>1, <1>4, <1>6, <1>7 DEF w

LEMMA FitPrepares == ASSUME FitInv, F!Prepare PROVE FitInv'
<1> USE DEF FitInv
<1> DEFINE d == F!Loaded(fRequest)
           c == Wanted
           told == IF c.optimizer \in F!Optimizers THEN Cautions ELSE <<>>
           short == F!Missing(d.x) \/ F!Missing(d.y)
           unfit == d.x.rows = <<>> \/ c.optimizer \notin F!Optimizers \/ c.loss \notin F!SupportedLoss
<1>0. /\ fStage = "asked" /\ fRequest' = fRequest /\ fEpoch' = fEpoch /\ fMetrics' = fMetrics
      /\ IF short THEN F!Fail(<<>>)
         ELSE IF unfit THEN F!Fail(IF d.x.rows = <<>> THEN <<>> ELSE told)
         ELSE /\ fData' = CoercedData(d, c.loss) /\ fConfig' = F!Resolved(c, fRequest)
              /\ fStage' = "training" /\ fEvents' = fEvents \o told
      BY Zenon DEF F!Prepare, Wanted, Cautions, CoercedData
<1>1. fEpoch = 0 /\ fEvents = <<>> /\ fMetrics = F!NoMetrics /\ fRequest \in FitRequest
      BY <1>0 DEF FitTypes
<1>2. /\ IsSeq(told) /\ \A i \in DOMAIN told : told[i].phase = "warning"
      /\ DOMAIN told = 1..Len(told) /\ Len(told) \in Nat
      BY CautionsAre, NoneIs
<1>3. Wanted' = Wanted /\ Cautions' = Cautions
      BY <1>0 DEF Wanted, Cautions
<1>4. CASE short \/ unfit
  <2> DEFINE t == IF short \/ d.x.rows = <<>> THEN <<>> ELSE told
             u == <<>> \o t \o <<[phase |-> "error"]>>
  <2>1. fStage' = "failed" /\ fEvents' = u
        BY <1>0, <1>1, <1>4 DEF F!Fail
  <2>2. IsSeq(t) /\ \A i \in 1..Len(t) : t[i].phase = "warning"
        BY <1>2, NoneIs
  <2>3. Len(t) \in Nat
        BY <2>2, SeqIs
  <2> HIDE DEF t
  <2>4. /\ IsSeq(u) /\ Len(u) = Len(<<>>) + Len(t) + 1 /\ u[Len(u)].phase = "error"
        /\ \A i \in 1..Len(t) : u[Len(<<>>) + i] = t[i]
    <3> DEFINE z == <<>>
    <3>1. IsSeq(z) /\ IsSeq(t)
          BY <2>2, NoneIs
    <3> HIDE DEF z
    <3>2. LET q == z \o t \o <<[phase |-> "error"]>>
          IN /\ IsSeq(q) /\ Len(q) = Len(z) + Len(t) + 1 /\ q[Len(q)].phase = "error"
             /\ \A i \in 1..Len(t) : q[Len(z) + i] = t[i]
          BY <3>1, ErrorIs
    <3> QED BY <3>2 DEF z
  <2> HIDE DEF u
  <2>5. IsSeq(u) /\ Len(u) = Len(t) + 1 /\ u[Len(t) + 1].phase = "error" /\ \A i \in 1..Len(t) : u[i] = t[i]
        BY <2>3, <2>4, NoneIs
  <2>6. DOMAIN u = 1..Len(t) + 1
        BY <2>5, SeqIs
  <2>7. \A i \in DOMAIN u : u[i].phase \in {"warning", "error"}
        BY <2>2, <2>3, <2>5, <2>6
  <2>8. FitTypes'
        BY <1>0, <1>1, <2>1, <2>5, <2>7 DEF FitTypes, Going, FitPhases
  <2>9. FitReports'
        BY <2>1, <2>7 DEF FitReports
  <2>10. ~Prepped'
        BY <1>0, <1>1, <2>1 DEF Prepped, Going
  <2> QED BY <1>0, <1>1, <2>1, <2>8, <2>9, <2>10
          DEF FitData, FitCautions, FitFresh, FitRows, FitFailed, Going
<1>5. CASE ~short /\ ~unfit
  <2>1. /\ fData' = CoercedData(d, c.loss) /\ fConfig' = F!Resolved(c, fRequest)
        /\ fStage' = "training" /\ fEvents' = fEvents \o told
        BY <1>0, <1>5
  <2>2. told = Cautions
        BY <1>5
  <2>3. fEvents' = Cautions
    <3> DEFINE ran == {told[i] : i \in DOMAIN told}
    <3>1. told \in Seq(ran)
          BY <1>2 DEF IsSeq
    <3> HIDE DEF ran, told
    <3>2. <<>> \o told = told
          BY <3>1, ConcatEmptySeq
    <3> QED BY <1>1, <2>1, <2>2, <3>2
  <2>4. FitTypes'
        BY <1>0, <1>1, <1>2, <2>1, <2>2, <2>3 DEF FitTypes, Going, FitPhases
  <2>5. FitData'
        BY <1>0, <1>3, <1>5, <2>1 DEF FitData, Enough
  <2>6. FitCautions'
        BY <1>2, <1>3, <2>1, <2>2, <2>3 DEF FitCautions
  <2>7. FitReports'
        BY <1>2, <2>2, <2>3 DEF FitReports
  <2>8. FitFresh'
    <3>1. fRequest.epochs # 0
          BY <1>1, RequestAssumption
    <3> QED BY <1>0, <1>1, <2>1, <3>1 DEF FitFresh
  <2>9. FitRows'
    <3>1. fMetrics'.samples = <<>>
          BY <1>0, <1>1 DEF F!NoMetrics
    <3> QED BY <3>1, NoneIs DEF FitRows, F!MetricsOfRows
  <2> QED BY <2>1, <2>4, <2>5, <2>6, <2>7, <2>8, <2>9 DEF FitFailed
<1> QED BY <1>4, <1>5

\* A training that fails on its way.
LEMMA FitFails ==
  ASSUME FitInv, Prepped, F!Fail(<<>>), fRequest' = fRequest, fData' = fData, fConfig' = fConfig,
         fEpoch' = fEpoch, fMetrics' = fMetrics,
         F!Whole(fRequest.files) /\ fEpoch > 0 => ~F!Fits(fData) \/ ~F!Fits(F!ValidationArrays(fData))
  PROVE  FitInv'
<1> USE DEF FitInv
<1> DEFINE u == fEvents \o <<>> \o <<[phase |-> "error"]>>
           n == Len(fEvents)
<1>1. fStage' = "failed" /\ fEvents' = u
      BY DEF F!Fail
<1>2. IsSeq(fEvents) /\ n \in Nat /\ DOMAIN fEvents = 1..n
      BY SMTT(30), SeqIs DEF FitTypes
<1>3. /\ IsSeq(u) /\ Len(u) = n + Len(<<>>) + 1 /\ u[Len(u)].phase = "error"
      /\ \A i \in 1..n : u[i] = fEvents[i]
      BY ZenonT(60), <1>2, NoneIs, ErrorIs
<1> HIDE DEF u
<1>4. Len(u) = n + 1 /\ u[n + 1].phase = "error" /\ DOMAIN u = 1..n + 1
      BY <1>2, <1>3, NoneIs, SeqIs
<1> HIDE DEF n
<1>5. \A i \in DOMAIN u : (i \in DOMAIN fEvents /\ u[i] = fEvents[i]) \/ u[i].phase = "error"
      BY <1>2, <1>3, <1>4
<1>6. FitTypes'
  <2>1. fRequest \in FitRequest
        BY DEF FitTypes, Prepped, Going
  <2>2. \A i \in DOMAIN u : u[i].phase \in FitPhases
        BY <1>5 DEF FitTypes, FitPhases
  <2> QED BY <1>1, <1>3, <2>1, <2>2 DEF FitTypes, Going
<1>7. FitReports'
      BY <1>1, <1>5 DEF FitReports
<1>8. FitData' /\ FitRows' /\ FitFailed'
      BY RowsStay DEF FitData, FitRows, FitFailed, Wanted
<1>9. FitCautions' /\ FitFresh'
      BY <1>1 DEF FitCautions, FitFresh, Going
<1> QED BY <1>6, <1>7, <1>8, <1>9

LEMMA EpochTrained == ASSUME FitInv, F!TrainEpoch PROVE FitInv'
<1> USE DEF FitInv
<1>0. /\ fStage = "training" /\ fEpoch < fRequest.epochs
      /\ fRequest' = fRequest /\ fData' = fData /\ fConfig' = fConfig /\ fMetrics' = fMetrics
      /\ \/ fStage' = "trained" /\ fEpoch' = fEpoch + 1 /\ fEvents' = fEvents
         \/ /\ Len(fData.y.rows) < Len(fData.x.rows) \/ ~F!Fits(fData)
            /\ F!Fail(<<>>) /\ fEpoch' = fEpoch
      BY DEF F!TrainEpoch
<1>1. Prepped
      BY <1>0 DEF Prepped, Going
<1>2. CASE F!Fail(<<>>) /\ fEpoch' = fEpoch /\ (Len(fData.y.rows) < Len(fData.x.rows) \/ ~F!Fits(fData))
  <2>1. F!Whole(fRequest.files) => ~F!Fits(fData)
    <3>1. F!Whole(fRequest.files) => Len(fData.y.rows) = Len(fData.x.rows) /\ Len(fData.x.rows) \in Nat
          BY <1>1, DataMatches DEF Matched
    <3> QED BY <1>2, <3>1
  <2> QED BY <1>0, <1>1, <1>2, <2>1, FitFails
<1>3. CASE fStage' = "trained" /\ fEpoch' = fEpoch + 1 /\ fEvents' = fEvents
  <2>1. fEpoch \in Nat /\ fMetrics.epoch \in Nat /\ fMetrics.epoch <= fEpoch /\ fRequest \in FitRequest
        BY <1>0 DEF FitTypes
  <2>2. fEpoch' \in Nat /\ fMetrics.epoch <= fEpoch' /\ fEpoch' > 0 /\ fEpoch' - 1 = fEpoch
        BY <1>3, <2>1
  <2>3. FitTypes'
        BY <1>0, <1>3, <2>1, <2>2 DEF FitTypes, Going
  <2>4. FitData' /\ FitRows'
        BY <1>0, <1>1, RowsStay DEF FitData, FitRows, Wanted
  <2>5. FitCautions' /\ FitReports'
        BY <1>0, <1>3, RowsStay DEF FitCautions, FitReports, Going
  <2>6. FitFresh'
    <3>1. fEpoch' > 1 => Recent(fEpoch)
          BY <1>0, <2>1, <2>2 DEF FitFresh
    <3>2. (fEpoch > 1 => Recent(fEpoch - 1))'
          BY <1>0, <2>2, <3>1 DEF Recent
    <3> QED BY <1>3, <2>2, <3>2 DEF FitFresh
  <2>7. FitFailed'
        BY <1>3 DEF FitFailed
  <2> QED BY <2>3, <2>4, <2>5, <2>6, <2>7
<1> QED BY <1>0, <1>2, <1>3

\* Between two exports the metrics are of the last.
LEMMA Between ==
  ASSUME NEW i \in Nat \ {0}, NEW e \in Nat \ {0}
  PROVE  /\ e \div i \in Nat /\ i * (e \div i) <= e /\ e - i + 1 <= i * (e \div i)
         /\ e % i # 0 => e \div i = (e - 1) \div i
<1> DEFINE q == e \div i
           s == (e - 1) \div i
           m == e % i
           t == i * q
<1>1. q \in Nat /\ m \in 0..i - 1 /\ e = t + m
      OBVIOUS
<1>2. s \in Nat /\ i * s <= e - 1 /\ e - 1 < i * s + i
      OBVIOUS
<1> HIDE DEF m, q, s
<1>3. t \in Nat
      BY <1>1
<1>4. t <= e /\ e - i + 1 <= t
  <2> HIDE DEF t
  <2> QED BY <1>1, <1>3
<1>5. ASSUME m # 0 PROVE q = s
  <2>1. i * q <= e - 1 /\ e - 1 < i * q + i
        BY <1>1, <1>3, <1>5
  <2>2. i * (q - s) < i /\ i * (s - q) < i
        BY <1>1, <1>2, <2>1
  <2>3. q - s < 1 /\ s - q < 1
        BY <1>1, <1>2, <2>2
  <2> QED BY <1>1, <1>2, <2>3
<1> QED BY <1>1, <1>4, <1>5 DEF q, s, m

LEMMA EpochEnds == ASSUME FitInv, F!EndEpoch PROVE FitInv'
<1> USE DEF FitInv
<1> DEFINE v == F!ValidationArrays(fData)
           p == F!Places(Len(v.x.rows))
           x == F!Exports(fEpoch)
           m == IF x THEN F!Evaluated(v, p) ELSE fMetrics
           o == [phase |-> "state", epoch |-> fEpoch, metrics |-> m]
<1>0. /\ fStage = "trained"
      /\ fRequest' = fRequest /\ fData' = fData /\ fConfig' = fConfig /\ fEpoch' = fEpoch
      /\ IF x /\ ~F!Comparable(v, p) THEN F!Fail(<<>>) /\ fMetrics' = fMetrics
         ELSE fMetrics' = m /\ fEvents' = Append(fEvents, o) /\ fStage' = "training"
      BY Zenon DEF F!EndEpoch
<1>1. Prepped
      BY <1>0 DEF Prepped, Going
<1>2. /\ fRequest \in FitRequest /\ fConfig.loss = Wanted.loss
      /\ Matched(fRequest, fConfig.loss, v)
      BY <1>1, DataMatches
<1>3. CASE x /\ ~F!Comparable(v, p)
  <2>1. F!Whole(fRequest.files) => ~F!Fits(v)
        BY <1>2, <1>3, ComparableIs
  <2>2. F!Fail(<<>>) /\ fMetrics' = fMetrics
        BY <1>0, <1>3
  <2> QED BY <1>0, <1>1, <2>1, <2>2, FitFails
<1>4. CASE ~(x /\ ~F!Comparable(v, p))
  <2>0. fMetrics' = m /\ fEvents' = Append(fEvents, o) /\ fStage' = "training"
        BY <1>0, <1>4
  <2>1. /\ fEpoch \in Nat /\ fEpoch > 0 /\ fMetrics.epoch \in Nat /\ fMetrics.epoch <= fEpoch
        /\ fEpoch > 1 => Recent(fEpoch - 1)
        /\ IsSeq(fEvents)
        BY <1>0 DEF FitTypes, FitFresh
  <2>2. ExportInterval \in Nat \ {0} /\ fRequest.epochs \in Nat \ {0}
        BY <1>2, FitAssumption, RequestAssumption
  <2>3. x <=> fEpoch = 1 \/ fEpoch % ExportInterval = 0 \/ fEpoch = fRequest.epochs
        BY SMTT(30) DEF F!Exports
  <2>4. x => /\ m.epoch = fEpoch /\ Len(m.samples) = Sample(Len(v.x.rows))
             /\ F!Whole(fRequest.files) =>
                  /\ \A i \in DOMAIN m.samples :
                       /\ m.samples[i].x = m.samples[i].y
                       /\ m.samples[i].target =
                            F!Meaning(F!Original(m.samples[i].y[1]).rows[m.samples[i].y[2]])
                       /\ \A j \in DOMAIN m.samples : m.samples[i].x = m.samples[j].x => i = j
                  /\ m.samples[1].x[2] = 1 /\ m.samples[Len(m.samples)].x[2] = Len(v.x.rows)
    <3> HIDE DEF v
    <3>1. CASE x
      <4>1. m = F!Evaluated(v, p)
            BY <3>1
      <4> QED BY <1>2, <4>1, EvaluatedIs
    <3> QED BY <3>1, ZenonT(60)
  <2>5. ~x => m = fMetrics
        OBVIOUS
  <2>6. o.phase = "state" /\ o.epoch = fEpoch /\ o.metrics = m
        OBVIOUS
  <2> HIDE DEF m, o, x, p, v
  <2> DEFINE t == ExportInterval * (fEpoch \div ExportInterval)
  <2>61. fEpoch \in Nat \ {0} /\ ExportInterval \in Nat \ {0}
        BY <2>1, <2>2
  <2>62. /\ fEpoch \div ExportInterval \in Nat /\ t <= fEpoch /\ fEpoch - ExportInterval + 1 <= t
         /\ fEpoch % ExportInterval # 0 =>
              fEpoch \div ExportInterval = (fEpoch - 1) \div ExportInterval
        BY <2>61, Between, Zenon
  <2>63. t \in Nat
    <3> DEFINE q == fEpoch \div ExportInterval
    <3>1. q \in Nat
          BY <2>62
    <3> HIDE DEF q
    <3>2. ExportInterval * q \in Nat
          BY <2>61, <3>1
    <3> QED BY <3>2 DEF q
  <2> HIDE DEF t
  <2>7. m.epoch \in 1..fEpoch /\ t <= m.epoch
    <3>1. t <= fEpoch
          BY <2>62
    <3>2. CASE x
      <4>1. m.epoch = fEpoch
            BY <2>4, <3>2
      <4> QED BY <2>1, <3>1, <4>1
    <3>3. CASE ~x
      <4>1. fEpoch > 1 /\ fEpoch % ExportInterval # 0
            BY <2>1, <2>3, <3>3
      <4>2. t = ExportInterval * ((fEpoch - 1) \div ExportInterval)
            BY <2>62, <4>1, Zenon DEF t
      <4>3. fMetrics.epoch \in 1..fEpoch - 1 /\ t <= fMetrics.epoch
            BY <2>1, <4>1, <4>2, Zenon DEF Recent
      <4> QED BY <2>1, <2>5, <3>3, <4>3
    <3> QED BY <3>2, <3>3
  <2>8. m.epoch \in (fEpoch - ExportInterval + 1)..fEpoch \ {0}
    <3>1. fEpoch - ExportInterval + 1 <= t /\ t \in Nat
          BY <2>62, <2>63
    <3>2. m.epoch \in 1..fEpoch /\ t <= m.epoch
          BY <2>7
    <3> QED BY <2>61, <3>1, <3>2
  <2> DEFINE n == Len(fEvents)
             u == Append(fEvents, o)
  <2>9. n \in Nat /\ DOMAIN fEvents = 1..n
        BY SMTT(30), <2>1, SeqIs
  <2>10. IsSeq(u) /\ Len(u) = n + 1 /\ (\A i \in 1..n : u[i] = fEvents[i]) /\ u[n + 1] = o
        BY <2>1, AppendIs
  <2>11. fEvents' = u
        BY <2>0
  <2> HIDE DEF u
  <2>12. DOMAIN u = 1..n + 1
        BY <2>10, SeqIs
  <2> HIDE DEF n
  <2>13. \A i \in DOMAIN u : (i \in DOMAIN fEvents /\ u[i] = fEvents[i]) \/ (i = n + 1 /\ u[i] = o)
        BY <2>9, <2>10, <2>12
  <2>14. FitTypes'
    <3>1. \A i \in DOMAIN u : u[i].phase \in FitPhases
          BY <2>6, <2>13 DEF FitTypes, FitPhases
    <3>2. fMetrics'.epoch \in Nat /\ fMetrics'.epoch <= fEpoch' /\ fEpoch' # 0 /\ fEpoch' \in Nat
          BY <1>0, <2>0, <2>1, <2>7
    <3> QED BY <1>0, <1>2, <2>0, <2>10, <2>11, <3>1, <3>2 DEF FitTypes, Going
  <2>15. FitData'
        BY <1>0, <1>1 DEF FitData, Wanted
  <2>16. FitCautions'
    <3> DEFINE w == Len(Cautions)
    <3>1. w <= n /\ w \in Nat /\ \A i \in DOMAIN fEvents : fEvents[i].phase = "warning" <=> i <= w
          BY <1>0, CautionsAre DEF FitCautions, Going, n
    <3>2. Cautions' = Cautions
          BY <1>0 DEF Cautions, Wanted
    <3> HIDE DEF w
    <3>3. w <= n + 1 /\ \A i \in DOMAIN u : u[i].phase = "warning" <=> i <= w
          BY <2>6, <2>9, <2>13, <3>1 DEF n
    <3> QED BY <2>10, <2>11, <3>2, <3>3 DEF FitCautions, w
  <2>17. FitReports'
    <3>1. \A i \in DOMAIN u : u[i].phase = "state" =>
             u[i].metrics.epoch \in (u[i].epoch - ExportInterval + 1)..u[i].epoch \ {0}
      <4> SUFFICES ASSUME NEW i \in DOMAIN u, u[i].phase = "state"
                   PROVE  u[i].metrics.epoch \in (u[i].epoch - ExportInterval + 1)..u[i].epoch \ {0}
          OBVIOUS
      <4>1. CASE i \in DOMAIN fEvents /\ u[i] = fEvents[i]
            BY <4>1 DEF FitReports
      <4>2. CASE u[i] = o
            BY <2>6, <2>8, <4>2
      <4> QED BY <2>13, <4>1, <4>2
    <3> QED BY <2>11, <3>1 DEF FitReports
  <2>18. FitFresh'
    <3>1. Recent(fEpoch)'
          BY <1>0, <2>0, <2>7 DEF Recent, t
    <3>2. fEpoch = fRequest.epochs => m.epoch = fRequest.epochs /\ Len(m.samples) = Len(v.x.rows)
      <4> SUFFICES ASSUME fEpoch = fRequest.epochs
                   PROVE  m.epoch = fRequest.epochs /\ Len(m.samples) = Len(v.x.rows)
          OBVIOUS
      <4>1. x /\ Sample(Len(v.x.rows)) = Len(v.x.rows)
            BY <2>3 DEF Sample
      <4> QED BY <2>4, <4>1
    <3> QED BY <1>0, <2>0, <3>1, <3>2 DEF FitFresh, v
  <2>19. FitRows'
    <3>1. CASE ~x
      <4>1. fMetrics' = fMetrics
            BY <2>0, <2>5, <3>1
      <4> QED BY <1>0, <1>1, <4>1, RowsStay DEF FitRows
    <3>2. CASE x
      <4>1. F!MetricsOfRows' <=>
              (F!Whole(fRequest.files) =>
                 /\ \A i \in DOMAIN m.samples :
                      /\ m.samples[i].x = m.samples[i].y
                      /\ m.samples[i].target =
                            F!Meaning(F!Original(m.samples[i].y[1]).rows[m.samples[i].y[2]])
                      /\ \A j \in DOMAIN m.samples : m.samples[i].x = m.samples[j].x => i = j
                 /\ m.samples # <<>> =>
                      /\ m.samples[1].x[2] = 1
                      /\ m.samples[Len(m.samples)].x[2] = Len(v.x.rows))
            BY <1>0, <2>0 DEF F!MetricsOfRows, F!Original, F!Meaning, v
      <4> QED BY <2>4, <3>2, <4>1 DEF FitRows
    <3> QED BY <3>1, <3>2
  <2>20. FitFailed'
        BY <2>0 DEF FitFailed
  <2> QED BY SMTT(30), <2>14, <2>15, <2>16, <2>17, <2>18, <2>19, <2>20
<1> QED BY <1>3, <1>4

LEMMA FitEnds == ASSUME FitInv, F!Done PROVE FitInv'
<1> USE DEF FitInv
<1> DEFINE o == [phase |-> "done"]
           n == Len(fEvents)
           u == Append(fEvents, o)
<1>0. /\ fStage = "training" /\ fEpoch = fRequest.epochs /\ fStage' = "done" /\ fEvents' = u
      /\ fRequest' = fRequest /\ fData' = fData /\ fConfig' = fConfig /\ fMetrics' = fMetrics
      /\ fEpoch' = fEpoch
      BY Zenon DEF F!Done
<1>1. Prepped
      BY <1>0 DEF Prepped, Going
<1>2. o.phase = "done"
      OBVIOUS
<1> HIDE DEF o
<1>3. IsSeq(fEvents) /\ n \in Nat /\ DOMAIN fEvents = 1..n
      BY SeqIs DEF FitTypes
<1>4. IsSeq(u) /\ Len(u) = n + 1 /\ (\A i \in 1..n : u[i] = fEvents[i]) /\ u[n + 1] = o
      BY <1>3, AppendIs
<1> HIDE DEF u
<1>5. DOMAIN u = 1..n + 1
      BY <1>4, SeqIs
<1> HIDE DEF n
<1>6. \A i \in DOMAIN u : (i \in DOMAIN fEvents /\ u[i] = fEvents[i]) \/ (i = n + 1 /\ u[i] = o)
      BY <1>3, <1>4, <1>5
<1>7. FitTypes'
  <2>1. \A i \in DOMAIN u : u[i].phase \in FitPhases
        BY <1>2, <1>6 DEF FitTypes, FitPhases
  <2> QED BY <1>0, <1>4, <2>1 DEF FitTypes, Going
<1>8. FitData' /\ FitRows'
      BY <1>0, <1>1, RowsStay DEF FitData, FitRows, Wanted
<1>9. FitCautions'
  <2> DEFINE w == Len(Cautions)
  <2>1. w <= n /\ w \in Nat /\ \A i \in DOMAIN fEvents : fEvents[i].phase = "warning" <=> i <= w
        BY <1>0, CautionsAre DEF FitCautions, Going, n
  <2>2. Cautions' = Cautions
        BY <1>0 DEF Cautions, Wanted
  <2> HIDE DEF w
  <2>3. w <= n + 1 /\ \A i \in DOMAIN u : u[i].phase = "warning" <=> i <= w
        BY <1>2, <1>3, <1>6, <2>1 DEF n
  <2> QED BY <1>0, <1>4, <2>2, <2>3 DEF FitCautions, w
<1>10. FitReports'
      BY <1>0, <1>2, <1>6 DEF FitReports
<1>11. FitFresh'
      BY <1>0 DEF FitFresh
<1>12. FitFailed'
      BY <1>0 DEF FitFailed
<1> QED BY <1>7, <1>8, <1>9, <1>10, <1>11, <1>12

LEMMA FitStep == FitInv /\ [F!Next]_(F!vars) => FitInv'
<1> SUFFICES ASSUME FitInv, [F!Next]_(F!vars) PROVE FitInv'
    OBVIOUS
<1>1. ASSUME NEW r \in FitRequest, F!Choose(r) PROVE FitInv'
      BY <1>1, FitChosen
<1>2. CASE UNCHANGED F!vars
  <2>1. /\ fStage' = fStage /\ fEvents' = fEvents /\ fRequest' = fRequest /\ fData' = fData
        /\ fConfig' = fConfig /\ fMetrics' = fMetrics /\ fEpoch' = fEpoch
        BY <1>2 DEF F!vars
  <2>2. FitTypes' /\ FitReports'
        BY <2>1 DEF FitInv, FitTypes, FitReports
  <2>3. Prepped' = Prepped
        BY <2>1 DEF Prepped
  <2>4. FitData' /\ FitRows' /\ FitCautions' /\ FitFailed'
        BY <2>1, <2>3, RowsStay DEF FitInv, FitData, FitRows, FitCautions, FitFailed
  <2>5. FitFresh'
        BY <2>1 DEF FitInv, FitFresh, Recent
  <2> QED BY <2>2, <2>4, <2>5 DEF FitInv
<1> QED BY <1>1, <1>2, FitPrepares, EpochTrained, EpochEnds, FitEnds, Zenon DEF F!Next

LEMMA FitHolds == FitInv => F!LocalFitHolds /\ F!LocalFitTypeOK
<1> SUFFICES ASSUME FitInv PROVE F!LocalFitHolds /\ F!LocalFitTypeOK
    OBVIOUS
<1> USE DEF FitInv
<1>1. F!LocalFitTypeOK
      BY DEF FitTypes, Going, FitPhases, F!LocalFitTypeOK
<1>2. F!MetricsOfRows
  <2>1. CASE Prepped
        BY <2>1 DEF FitRows
  <2>2. CASE ~Prepped
    <3>1. fEpoch = 0
          BY <2>2 DEF FitTypes, Prepped, Going
    <3>2. fMetrics.samples = <<>>
          BY <3>1 DEF FitTypes, F!NoMetrics
    <3> QED BY <3>2, NoneIs DEF F!MetricsOfRows
  <2> QED BY <2>1, <2>2
<1>3. F!ReportsFresh
      BY DEF FitReports, FitFresh, F!ReportsFresh
<1>4. F!AsAsked
  <2> DEFINE held == {i \in DOMAIN fEvents : fEvents[i].phase = "warning"}
             told == F!Cardinality(held)
             w == Len(Cautions)
  <2>1. ASSUME fStage \in Going
        PROVE  /\ fConfig.loss = Wanted.loss
               /\ (fConfig.optimizer = "sgd") = (Wanted.optimizer = "sgd") \/ told >= 1
               /\ fConfig.rate = Wanted.rate \/ told = 2
    <3>1. fConfig = F!Resolved(Wanted, fRequest)
          BY <2>1 DEF FitData, Prepped
    <3>2. told = w /\ w \in Nat
      <4>1. w \in Nat /\ w <= Len(fEvents) /\ \A i \in DOMAIN fEvents : fEvents[i].phase = "warning" <=> i <= w
            BY <2>1, CautionsAre DEF FitCautions
      <4>2. DOMAIN fEvents = 1..Len(fEvents) /\ Len(fEvents) \in Nat
            BY SeqIs DEF FitTypes
      <4> HIDE DEF w
      <4>3. held = 1..w
            BY <4>1, <4>2
      <4>4. Cardinality(1..w) = w
            BY <4>1, CountTo
      <4> HIDE DEF held
      <4>5. F!Cardinality(held) = Cardinality(held)
            BY DEF F!Cardinality, Cardinality
      <4> QED BY <4>1, <4>3, <4>4, <4>5
    <3> HIDE DEF told
    <3>3. /\ F!Fallback(Wanted, fRequest) => w >= 1
          /\ F!Fallback(Wanted, fRequest) /\ Wanted.rate > 1 => w = 2
          BY CautionsAre
    <3> HIDE DEF w
    <3>4. fConfig.loss = Wanted.loss
          BY <3>1 DEF F!Resolved
    <3>5. fConfig.optimizer = IF Wanted.optimizer = "sgd" /\ fRequest.sgd THEN "sgd" ELSE "adamw"
          BY <3>1 DEF F!Resolved
    <3>6. fConfig.rate = IF F!Fallback(Wanted, fRequest) /\ Wanted.rate > 1 THEN 1 ELSE Wanted.rate
          BY <3>1 DEF F!Resolved
    <3>7. (fConfig.optimizer = "sgd") = (Wanted.optimizer = "sgd") \/ told >= 1
      <4>1. CASE F!Fallback(Wanted, fRequest)
            BY <3>2, <3>3, <4>1
      <4>2. CASE ~F!Fallback(Wanted, fRequest)
            BY <3>5, <4>2 DEF F!Fallback
      <4> QED BY <4>1, <4>2
    <3>8. fConfig.rate = Wanted.rate \/ told = 2
          BY <3>2, <3>3, <3>6
    <3> QED BY <3>4, <3>7, <3>8
  <2> HIDE DEF told
  <2>2. F!AsAsked <=>
          /\ fStage \in {"training", "trained", "done"} =>
               /\ fConfig.loss = Wanted.loss
               /\ (fConfig.optimizer = "sgd") = (Wanted.optimizer = "sgd") \/ told >= 1
               /\ fConfig.rate = Wanted.rate \/ told = 2
          /\ fStage = "failed" /\ F!Whole(fRequest.files) /\ fEpoch > 0 =>
               ~F!Fits(fData) \/ ~F!Fits(F!ValidationArrays(fData))
        BY Zenon DEF F!AsAsked, Wanted, told
  <2> QED BY <2>1, <2>2 DEF FitFailed, Going
<1> QED BY <1>1, <1>2, <1>3, <1>4 DEF F!LocalFitHolds

\* What a training without a server reports is of rows with their own targets, of the last model
\* in the end, and of what was asked for.
THEOREM Fitted == F!Spec => [](F!LocalFitHolds /\ F!LocalFitTypeOK)
<1>1. F!Init => FitInv
      BY FitStart
<1>2. FitInv /\ [F!Next]_(F!vars) => FitInv'
      BY FitStep
<1>3. FitInv => F!LocalFitHolds /\ F!LocalFitTypeOK
      BY FitHolds
<1> QED BY <1>1, <1>2, <1>3, PTL DEF F!Spec

-----------------------------------------------------------------------------
(* A run of the composition is one of each component, of which all but one     *)
(* stand still.                                                                *)
LEMMA PartsStill ==
  /\ (lVars' = lVars) <=> (O!vars' = O!vars)
  /\ (kVars' = kVars) <=> (K!vars' = K!vars)
  /\ (pVars' = pVars) <=> (P!vars' = P!vars)
  /\ (fVars' = fVars) <=> (F!vars' = F!vars)
<1>1. lVars = O!vars /\ lVars' = O!vars'
      BY Zenon DEF lVars, O!vars
<1>2. kVars = K!vars /\ kVars' = K!vars'
      BY Zenon DEF kVars, K!vars
<1>3. pVars = P!vars /\ pVars' = P!vars'
      BY Zenon DEF pVars, P!vars
<1>4. fVars = F!vars /\ fVars' = F!vars'
      BY Zenon DEF fVars, F!vars
<1> QED BY <1>1, <1>2, <1>3, <1>4, Zenon

LEMMA PartsStep ==
  ASSUME [RuntimesNext]_<<part, vars, own>>
  PROVE  /\ [O!Next]_(O!vars) /\ [K!Next]_(K!vars)
         /\ [P!Next]_(P!vars) /\ [F!Next]_(F!vars)
<1>1. CASE RuntimesNext
  <2>1. O!Next \/ lVars' = lVars
        BY <1>1, Zenon DEF RuntimesNext, own
  <2>2. K!Next \/ kVars' = kVars
        BY <1>1, Zenon DEF RuntimesNext, own
  <2>3. P!Next \/ pVars' = pVars
        BY <1>1, Zenon DEF RuntimesNext, own
  <2>4. F!Next \/ fVars' = fVars
        BY <1>1, Zenon DEF RuntimesNext, own
  <2> QED BY <2>1, <2>2, <2>3, <2>4, PartsStill, Zenon
<1>2. CASE UNCHANGED <<part, vars, own>>
  <2>1. /\ lVars' = lVars /\ kVars' = kVars /\ pVars' = pVars /\ fVars' = fVars
        BY <1>2, Zenon DEF own
  <2> QED BY <2>1, PartsStill, Zenon
<1> QED BY <1>1, <1>2

LEMMA PartsOf ==
  RuntimesSpec => O!Spec /\ K!Spec /\ P!Spec /\ F!Spec
<1>1. RuntimesInit => O!Init /\ K!Init /\ P!Init /\ F!Init
      BY DEF RuntimesInit
<1> QED BY <1>1, PartsStep, PTL
        DEF RuntimesSpec, O!Spec, K!Spec, P!Spec, F!Spec

(* Trainings without a server and on-prem jobs keep their promises, and the    *)
(* page of the jobs its own, in every run of the composition.                  *)
THEOREM TrainingKept == RuntimesSpec => []TrainingHolds
<1>1. O!TrainingHolds /\ K!TrainerHolds /\ P!PageHolds /\ F!LocalFitHolds => TrainingHolds
      BY DEF TrainingHolds
<1> QED BY <1>1, PartsOf, Trained, JobTrained, PagesHold, Fitted, PTL
===============================================================================
