---------------------------- MODULE ReplayBuffer ----------------------------
(***************************************************************************)
(* backend/alice/infrastructure/gateway/replay.py: the per-session ring of *)
(* outbound frames that a reconnecting client is replayed from.            *)
(*                                                                         *)
(* A stored frame is named by its event_index.  log is the history of      *)
(* every frame ever stored (log[i] is the content of event i), frames is   *)
(* the deque: the indices still retained, oldest first.                    *)
(***************************************************************************)
EXTENDS Integers, Sequences

CONSTANTS
  ReplayLimit,   \* the limit given to the constructor; may be 0 or negative
  FrameKinds,    \* the frames the machine of this module stores
  MaxEvents      \* bound: frames stored by the machine of this module

ASSUME ReplayAssumption ==
  /\ ReplayLimit \in Int
  /\ MaxEvents \in Nat

VARIABLES log, frames

replayVars == <<log, frames>>

\* self._limit: never below one frame.
Limit == IF ReplayLimit < 1 THEN 1 ELSE ReplayLimit

NextEventIndex == Len(log) + 1

\* What a deque of maxlen Limit keeps of a sequence of appends.
Retained(all) ==
  IF Len(all) > Limit THEN SubSeq(all, Len(all) - Limit + 1, Len(all)) ELSE all

\* One or more calls of append: each frame is stamped with the next index and
\* the oldest are evicted.
Store(new) ==
  /\ log' = log \o new
  /\ frames' = Retained(frames \o [k \in 1..Len(new) |-> Len(log) + k])

RetainedIndices == {frames[k] : k \in 1..Len(frames)}

LatestOf_Oldest(indices) == {i \in indices : \A j \in indices : i <= j}

LatestOf(indices) == {i \in indices : \A j \in indices : j <= i}

\* latest_snapshot_frame: the newest runtime event, else the newest completion.
\* Every runtime event carries a runtime_output (projector.py).
IsRuntimeEvent(i) == log[i].kind \in {"delta", "event"}

SnapshotIndices ==
  LET events == {i \in RetainedIndices : IsRuntimeEvent(i)}
  IN  IF events # {}
      THEN events
      ELSE {i \in RetainedIndices : log[i].kind = "completed"}

\* recovery_frames: what a client too far behind gets instead of a replay.
RecoveryFrames ==
  LatestOf(IF SnapshotIndices # {} THEN SnapshotIndices ELSE RetainedIndices)

NoResume == -1   \* resume_from_event_index is None

\* replay_from: the indices sent to the client, and whether a gap is announced.
TooOld_TooLax(resume) == frames # <<>> /\ resume < frames[1] - 2
TooOld(resume) == frames # <<>> /\ resume < frames[1] - 1

ReplayGap(resume) == resume # NoResume /\ TooOld(resume)

ReplayFrom(resume) ==
  IF resume = NoResume THEN RetainedIndices
  ELSE IF TooOld(resume) THEN RecoveryFrames
  ELSE {i \in RetainedIndices : i > resume}

-----------------------------------------------------------------------------
(* The buffer on its own: any sequence of appends.                         *)

Init ==
  /\ log = <<>>
  /\ frames = <<>>

StoreNext(kind) ==
  /\ Len(log) < MaxEvents
  /\ Store(<<[kind |-> kind]>>)

Next == \E kind \in FrameKinds : StoreNext(kind)

Spec == Init /\ [][Next]_replayVars

-----------------------------------------------------------------------------

\* Type invariant of the buffer's state; the deque never exceeds its limit.
TypeOK ==
  /\ log \in Seq([kind : FrameKinds])
  /\ frames \in Seq(Nat) /\ Len(frames) <= Limit

\* The deque is exactly the newest Limit events of the history, in order and
\* without a hole: what append's stamping and the deque's eviction promise.
WindowIsSuffix ==
  /\ Len(frames) = IF Len(log) < Limit THEN Len(log) ELSE Limit
  /\ \A k \in 1..Len(frames) : frames[k] = Len(log) - Len(frames) + k

\* A client that resumes from the last index it has seen and is told there is
\* no gap is replayed every event after that index, and nothing it already has
\* (replay_from's last return).
ResumeWithoutGapIsComplete ==
  \A resume \in 0..Len(log) :
    ~ReplayGap(resume) => ReplayFrom(resume) = (resume + 1)..Len(log)

\* A gap is announced exactly when an event the client has not seen has been
\* evicted, so a client is never told of a gap in vain (the earliest - 1 test).
GapExactlyWhenEvicted ==
  \A resume \in 0..Len(log) :
    ReplayGap(resume) <=> \E i \in (resume + 1)..Len(log) : i \notin RetainedIndices

\* In a gap the client gets one frame, one that is retained and newer than its
\* resume point, and no runtime event newer than that frame exists: recovery
\* never shows a client a state older than the newest output it could show.
RecoveryIsFresh ==
  \A resume \in 0..Len(log) :
    ReplayGap(resume) =>
      \E i \in RetainedIndices :
        /\ ReplayFrom(resume) = {i}
        /\ i > resume
        /\ \A j \in (i + 1)..Len(log) : ~IsRuntimeEvent(j)
=============================================================================
