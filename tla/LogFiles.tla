------------------------------ MODULE LogFiles ------------------------------
(***************************************************************************)
(* The structured log: every record goes into one of three files, and a    *)
(* file that would grow too large is rotated first: core/logging.          *)
(*                                                                         *)
(* A lock keeps the threads of a process apart, so one record is written   *)
(* at a time; the process may be killed between any two steps, and the     *)
(* next one goes on with the files it finds.                               *)
(***************************************************************************)
EXTENDS Integers, Sequences, SequencesExt

CONSTANTS
  MaxSize,      \* SizeBasedRotationStrategy.max_bytes
  BackupCount,  \* SizeBasedRotationStrategy.backup_count
  MaxRecords,   \* bound: records logged
  MaxRotations  \* bound: rotations begun

ASSUME LogAssumption == MaxSize \in Int /\ BackupCount \in Int /\ MaxRecords \in Nat /\ MaxRotations \in Nat

VARIABLES
  files,    \* of each category: its file (0) and the backups; a missing file is empty
  emitting, \* the record in emit, its category and what is to be done next
  written,  \* history: of each category, the records written
  rotations \* history: of each category, the rotations begun

logVars == <<files, emitting, written, rotations>>

Categories == {"system", "tasks", "changes"}
Oldest  == IF BackupCount > 0 THEN BackupCount ELSE 0
Indices == 0..Oldest

\* The first part of an event type and of a logger's category.
Roots == Categories \union {"other"}

\* StructuredCategoryRouterFilter: an event that is of a task or a change is filed as one;
\* any other is where its logger says.
Category(event, raw) ==
  IF event \in {"tasks", "changes"} THEN event
  ELSE IF raw \in Categories THEN raw ELSE "system"

\* A record, and the rotations there had been before it.
Record(number, size, born) == [number |-> number, size |-> size, born |-> born]
NoRecord == Record(0, 0, 0)
Quiet == [record |-> NoRecord, category |-> "system", next |-> "none", index |-> 0]

LogInit ==
  /\ files = [c \in Categories |-> [i \in Indices |-> <<>>]]
  /\ emitting = Quiet
  /\ written = [c \in Categories |-> <<>>]
  /\ rotations = [c \in Categories |-> 0]

Size(file) ==
  LET sum[n \in 0..Len(file)] == IF n = 0 THEN 0 ELSE sum[n - 1] + file[n].size
  IN  sum[Len(file)]
Total(of) == of["system"] + of["tasks"] + of["changes"]
Count == Total([c \in Categories |-> Len(written[c])])

\* rotate_if_needed
TooLarge(category, size) ==
  MaxSize > 0 /\ Size(files[category][0]) + size > MaxSize

\* emit, with the lock; _rotate drops the oldest backup, or the file without backups.
Emit(size, event, raw) ==
  LET c == Category(event, raw)
      rotate == TooLarge(c, size)
      born == rotations[c] + (IF rotate THEN 1 ELSE 0)
  IN  /\ emitting = Quiet /\ Count < MaxRecords /\ Total(rotations) < MaxRotations
      /\ emitting' = [record |-> Record(Len(written[c]) + 1, size, born), category |-> c,
                      next |-> IF rotate /\ BackupCount > 0 THEN "shift" ELSE "append",
                      index |-> BackupCount - 1]
      /\ files' = IF rotate THEN [files EXCEPT ![c][Oldest] = <<>>] ELSE files
      /\ rotations' = [rotations EXCEPT ![c] = born]
      /\ UNCHANGED written

Moved(category, from) ==
  [files EXCEPT ![category][from + 1] = files[category][from], ![category][from] = <<>>]

\* Mutant: the backups are moved from the newest to the oldest.
Shift_NewestFirst ==
  /\ emitting.next = "shift"
  /\ LET i == BackupCount - 1 - emitting.index
         c == emitting.category IN
       files' = IF files[c][i] # <<>> THEN Moved(c, i) ELSE files
  /\ emitting' = IF emitting.index = 0 THEN [emitting EXCEPT !.next = "append"]
                 ELSE [emitting EXCEPT !.index = @ - 1]
  /\ UNCHANGED <<written, rotations>>

\* The loop of _rotate, and the file itself last: a file that is there takes the name of
\* the next older one.
Shift ==
  /\ emitting.next = "shift"
  /\ LET i == emitting.index
         c == emitting.category IN
       files' = IF files[c][i] # <<>> THEN Moved(c, i) ELSE files
  /\ emitting' = IF emitting.index = 0 THEN [emitting EXCEPT !.next = "append"]
                 ELSE [emitting EXCEPT !.index = @ - 1]
  /\ UNCHANGED <<written, rotations>>

AppendBytes ==
  /\ emitting.next = "append"
  /\ LET c == emitting.category IN
       /\ files' = [files EXCEPT ![c][0] = Append(@, emitting.record)]
       /\ written' = [written EXCEPT ![c] = Append(@, emitting.record)]
  /\ emitting' = Quiet
  /\ UNCHANGED rotations

\* The process is killed, or an exception is handled by handleError.
EmitEnds ==
  /\ emitting # Quiet
  /\ emitting' = Quiet
  /\ UNCHANGED <<files, written, rotations>>

LogNext ==
  \/ \E size \in 1..2, event, raw \in Roots : Emit(size, event, raw)
  \/ Shift \/ AppendBytes \/ EmitEnds

LogSpec == LogInit /\ [][LogNext]_logVars
-----------------------------------------------------------------------------
(* Properties                                                              *)

\* A category's records as they are read, from the oldest backup to the file.
Recorded(c) ==
  LET all[i \in Indices] == IF i = 0 THEN files[c][0] ELSE files[c][i] \o all[i - 1]
  IN  all[Oldest]

\* At any moment, in the middle of a rotation and after one that was cut short, the files
\* of a category hold its newest records, each once and in the order they were logged.  A
\* record is dropped by the rotation after BackupCount others at the earliest, and no file
\* is larger than the limit, but for one record that is.
LogIsASuffix ==
  \A c \in Categories :
    /\ IsSuffix(Recorded(c), written[c])
    /\ \A n \in 1..Len(written[c]) :
         rotations[c] - written[c][n].born <= BackupCount =>
           Len(written[c]) - n < Len(Recorded(c))
    /\ MaxSize > 0 => \A i \in Indices : Size(files[c][i]) <= MaxSize \/ Len(files[c][i]) = 1
=============================================================================
