--------------------------- MODULE LocalTraining ---------------------------
(* A training without a server: a Python process writes packets to a file of  *)
(* its job directory and a model beside its checkpoint; the builder reads     *)
(* new lines, asks it to stop with a file and removes the directory at the    *)
(* end. When the builder is gone the process stops by itself.                 *)
EXTENDS Integers, SequencesExt

CONSTANTS
  Epochs,
  Batches,        \* of an epoch
  ExportInterval  \* the model is written in the first and last epoch, and every so many

VARIABLES
  pc,         \* of the process; "out" when it ended by itself, "killed"
  epoch,
  batch,
  killed,     \* it has seen that it is to stop
  progress,   \* packets in the file
  dir,        \* the job directory is there
  stop,       \* the stop file was written (and is there with the directory)
  builder,    \* "watching", "left" (the job is over for it), "dropped", "gone"
  lines,      \* packets that it has read
  artifact,   \* of which epoch the model in the job directory is, -1 for none
  model,      \* that beside the checkpoint: [of, whole]
  manifest    \* the result that was written with it

vars == <<pc, epoch, batch, killed, progress, dir, stop, builder, lines, artifact, model, manifest>>

Phase(p) == [phase |-> p, epoch |-> -1]
State(e) == [phase |-> "state", epoch |-> e]
Final == {"done", "stopped", "error"}

Init ==
  /\ pc = "start" /\ epoch = 0 /\ batch = 0 /\ killed = FALSE
  /\ progress = <<>> /\ dir = TRUE /\ stop = FALSE
  /\ builder = "watching" /\ lines = 0
  /\ artifact = -1 /\ model = [of |-> -1, whole |-> TRUE] /\ manifest = -1
-----------------------------------------------------------------------------
(* The process. What it writes into a directory that is gone fails. *)
StopSeen == (stop /\ dir) \/ builder = "gone"

Stopping == killed \/ StopSeen

\* Whether to stop is asked at next; the first time it is seen, it is told.
Asked(stopped, next) ==
  LET tells == StopSeen /\ ~killed
  IN /\ killed' = (killed \/ StopSeen)
     /\ progress' = IF tells /\ dir THEN Append(progress, Phase("stopped")) ELSE progress
     /\ pc' = IF tells /\ ~dir THEN "out" ELSE IF Stopping THEN stopped ELSE next

\* A dataset, a loss or a graph that it cannot take is an error before any training.
Start(valid) ==
  /\ pc = "start"
  /\ IF valid THEN progress' = Append(progress, Phase("start")) /\ pc' = "epoch"
     ELSE progress' = progress \o <<Phase("start"), Phase("error")>> /\ pc' = "out"
  /\ UNCHANGED <<epoch, batch, killed, dir, stop, builder, lines, artifact, model, manifest>>

BeginEpoch ==
  /\ pc = "epoch"
  /\ IF epoch = Epochs THEN pc' = "end" /\ UNCHANGED <<killed, progress>>
     ELSE Asked("end", "batch")
  /\ batch' = 0
  /\ UNCHANGED <<epoch, dir, stop, builder, lines, artifact, model, manifest>>

Batch ==
  /\ pc = "batch" /\ batch < Batches
  /\ Asked("after", "batch")
  /\ batch' = IF pc' = "batch" THEN batch + 1 ELSE batch
  /\ UNCHANGED <<epoch, dir, stop, builder, lines, artifact, model, manifest>>

EndBatches ==
  /\ pc = "batch" /\ batch = Batches
  /\ pc' = "after"
  /\ UNCHANGED <<epoch, batch, killed, progress, dir, stop, builder, lines, artifact, model, manifest>>

Exports(e) == e = 0 \/ (e + 1) % ExportInterval = 0 \/ e = Epochs - 1

AfterBatches ==
  /\ pc = "after"
  /\ Asked("end", IF Exports(epoch) THEN "export" ELSE "report")
  /\ UNCHANGED <<epoch, batch, dir, stop, builder, lines, artifact, model, manifest>>

\* The error cannot be told either where the directory is gone.
Failed == progress' = (IF dir THEN Append(progress, Phase("error")) ELSE progress) /\ pc' = "out"

Export ==
  /\ pc = "export"
  /\ IF dir THEN artifact' = epoch /\ pc' = "copy" /\ UNCHANGED progress
     ELSE Failed /\ UNCHANGED artifact
  /\ UNCHANGED <<epoch, batch, killed, dir, stop, builder, lines, model, manifest>>

\* The model beside the checkpoint is emptied and written again, in place.
CopyBegins(from, to) ==
  /\ pc = from
  /\ IF dir THEN model' = [of |-> artifact, whole |-> FALSE] /\ pc' = to /\ UNCHANGED progress
     ELSE Failed /\ UNCHANGED model
  /\ UNCHANGED <<epoch, batch, killed, dir, stop, builder, lines, artifact, manifest>>
CopyEnds(from, to) ==
  /\ pc = from
  /\ model' = [model EXCEPT !.whole = TRUE]
  /\ pc' = to
  /\ UNCHANGED <<epoch, batch, killed, progress, dir, stop, builder, lines, artifact, manifest>>

Report ==
  /\ pc = "report"
  /\ IF dir THEN progress' = Append(progress, State(epoch)) /\ pc' = "epoch" ELSE Failed
  /\ epoch' = epoch + 1
  /\ UNCHANGED <<batch, killed, dir, stop, builder, lines, artifact, model, manifest>>

\* Fault: how the loop ended is not asked.
EndUnasked ==
  /\ pc = "end"
  /\ pc' = "final"
  /\ UNCHANGED <<epoch, batch, killed, progress, dir, stop, builder, lines, artifact, model, manifest>>
End ==
  /\ pc = "end"
  /\ Asked("out", "final")
  /\ UNCHANGED <<epoch, batch, dir, stop, builder, lines, artifact, model, manifest>>

Finish ==
  /\ pc = "finish"
  /\ manifest' = artifact
  /\ IF dir THEN progress' = Append(progress, Phase("done")) /\ pc' = "out" ELSE Failed
  /\ UNCHANGED <<epoch, batch, killed, dir, stop, builder, lines, artifact, model>>

\* The library, the evaluation or a disk raises: what was begun stays as it is.
Raise ==
  /\ pc \in {"batch", "export", "copy", "copying", "report", "final", "finalcopy", "finish"}
  /\ Failed
  /\ UNCHANGED <<epoch, batch, killed, dir, stop, builder, lines, artifact, model, manifest>>

Process ==
  \/ \E valid \in BOOLEAN : Start(valid)
  \/ BeginEpoch \/ Batch \/ EndBatches \/ AfterBatches
  \/ Export \/ CopyBegins("copy", "copying") \/ CopyEnds("copying", "report") \/ Report
  \/ End \/ CopyBegins("final", "finalcopy") \/ CopyEnds("finalcopy", "finish") \/ Finish
  \/ Raise
-----------------------------------------------------------------------------
(* The builder *)
Poll ==
  /\ builder = "watching" /\ dir /\ lines < Len(progress)
  /\ lines' = Len(progress)
  /\ LET over == \E i \in lines + 1..Len(progress) : progress[i].phase \in Final
     IN /\ builder' = IF over THEN "left" ELSE builder
        /\ dir' = ~over
  /\ UNCHANGED <<pc, epoch, batch, killed, progress, stop, artifact, model, manifest>>

StopTraining ==
  /\ builder = "watching" /\ ~stop
  /\ stop' = TRUE
  /\ UNCHANGED <<pc, epoch, batch, killed, progress, dir, builder, lines, artifact, model, manifest>>

\* The block that trains was removed: the process is killed, its directory stays.
Drop ==
  /\ builder = "watching"
  /\ builder' = "dropped"
  /\ pc' = IF pc = "out" THEN pc ELSE "killed"
  /\ stop' = TRUE
  /\ UNCHANGED <<epoch, batch, killed, progress, dir, lines, artifact, model, manifest>>

\* The program is closed: the process is killed and the directory removed.
CloseAll ==
  /\ builder = "watching"
  /\ builder' = "gone"
  /\ pc' = IF pc = "out" THEN pc ELSE "killed"
  /\ stop' = TRUE /\ dir' = FALSE
  /\ UNCHANGED <<epoch, batch, killed, progress, lines, artifact, model, manifest>>

Crash ==
  /\ builder # "gone"
  /\ builder' = "gone"
  /\ UNCHANGED <<pc, epoch, batch, killed, progress, dir, stop, lines, artifact, model, manifest>>

Next == Process \/ Poll \/ StopTraining \/ Drop \/ CloseAll \/ Crash

Spec == Init /\ [][Next]_vars
-----------------------------------------------------------------------------
TrainingTypeOK ==
  /\ epoch \in 0..Epochs /\ batch \in 0..Batches
  /\ lines \in 0..Len(progress)
  /\ builder \in {"watching", "left", "dropped", "gone"}
  /\ model.of \in -1..Epochs - 1 /\ artifact \in -1..Epochs - 1 /\ manifest \in -1..Epochs - 1

\* A training ends with one packet that says so, after those of its epochs in order; the
\* builder reads all of them before it removes the directory.
OneEnd ==
  /\ \A i \in DOMAIN progress : progress[i].phase \in Final => i = Len(progress)
  /\ \A i \in DOMAIN progress : progress[i].phase = "state" => progress[i].epoch = i - 2
  /\ builder = "left" => lines = Len(progress) /\ Last(progress).phase \in Final

\* A result is of the last epoch of a training that was not told it is stopped, and the
\* model is that of the result; while the builder removes what it has read, only a
\* training that is over loses its directory.
ResultComplete ==
  /\ manifest # -1 => manifest = Epochs - 1 /\ model = [of |-> manifest, whole |-> TRUE]
  /\ killed => manifest = -1
  /\ (builder = "left" /\ Last(progress).phase = "stopped") => model.whole
  /\ pc = "out" => progress = <<>> \/ Last(progress).phase \in Final \/ builder \in {"gone", "dropped"}

TrainingHolds == OneEnd /\ ResultComplete
=============================================================================
