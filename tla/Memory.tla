------------------------------- MODULE Memory -------------------------------
(***************************************************************************)
(* The memory files all sessions share: short term memory (entries under a *)
(* header per day) and long term memory (lessons under one header, and     *)
(* summaries the model made of expired days).                              *)
(*                                                                         *)
(* Nothing locks the files.  Every operation reads a file in one step and  *)
(* appends to it or rewrites it in a later one, and a session's operation  *)
(* may overlap those of the others.  A file that a rewrite has truncated   *)
(* but not yet written is empty when the process dies.                     *)
(***************************************************************************)
EXTENDS HostSessions, Naturals, Sequences, FiniteSets, Loops

CONSTANTS
  DaysToKeep,   \* stm_days_to_keep
  MaxDay,       \* bound: days that pass
  MaxEntries,   \* bound: entries written
  MaxMishaps    \* bound: crashes, unreadable files and failed distillations

ASSUME MemoryAssumption ==
  DaysToKeep \in Nat /\ MaxDay \in Nat /\ MaxEntries \in Nat /\ MaxMishaps \in Nat

VARIABLES
  today,      \* the date
  stm, ltm,   \* the two files, as lines
  op,         \* op[s]: the operation session s has begun, with what it has read
  written,    \* history: the entries written to either file
  asked,      \* history: entries the distiller was asked to condense
  distilled,  \* history: entries it answered for
  spoiled,    \* history: the kinds of mishap there have been
  mishaps     \* mishaps so far

memory == <<today, stm, ltm, op, written, asked, distilled, spoiled, mishaps>>

Days == 0..MaxDay
DayHeader(day) == [line |-> "day", day |-> day]
Lessons == [line |-> "lessons"]
Summary == [line |-> "summary"]

Idle == [step |-> "idle"]
Mishaps == {"stale", "stm_unread", "ltm_unread", "torn", "undistilled", "heading"}

MemoryInit ==
  /\ today = 0
  /\ stm = <<>> /\ ltm = <<>>
  /\ op = [s \in Sessions |-> Idle]
  /\ written = [stm |-> {}, ltm |-> {}]
  /\ asked = {} /\ distilled = {} /\ spoiled = {} /\ mishaps = 0

-----------------------------------------------------------------------------
(* Files                                                                   *)

LinesOf(file) == {file[i] : i \in 1..Len(file)}
EntriesIn(file) == {l \in LinesOf(file) : l.line = "entry"}
Headers(file) == {i \in 1..Len(file) : file[i].line = "day"}
Headed(file) == {file[i].day : i \in Headers(file)}

\* The header a line stands under: the last one before it.
HeaderOf(file, i) ==
  CHOOSE h \in Headers(file) : h <= i /\ \A k \in Headers(file) : k <= i => k <= h
Under(file, h) ==
  {file[i] : i \in {k \in h + 1..Len(file) : HeaderOf(file, k) = h}}

\* STMStore._parse_sections: a header that occurs twice leaves its last section only.
Section(file, day) ==
  LET h == CHOOSE i \in Headers(file) :
             /\ file[i].day = day
             /\ \A k \in Headers(file) : file[k].day = day => k <= i
  IN  Under(file, h) \intersect EntriesIn(file)

\* get_expired_sections: days strictly before today - days_to_keep.
Expired(file) == {day \in Headed(file) : day + DaysToKeep < today}

\* remove_sections and delete: all sections of these days go, with their headers.
WithoutSections(file, days) ==
  Keeping(file, {i \in 1..Len(file) : \/ \A h \in Headers(file) : h > i
                                      \/ file[HeaderOf(file, i)].day \notin days})

\* _write_to_stm: the entry goes to the end of the file, below a header of its own
\* when the file that was read has none for the day.
Noted(file, headed, entry) ==
  file \o (IF entry.day \in headed THEN <<>> ELSE <<DayHeader(entry.day)>>) \o <<entry>>

LessonHeaders(file) == {i \in 1..Len(file) : file[i] = Lessons}
FirstOf(places) == CHOOSE i \in places : \A k \in places : i <= k

\* Mutant: the lessons that were there are replaced.
WithLesson_Replaces(file, entry) ==
  SubSeq(file, 1, FirstOf(LessonHeaders(file))) \o <<entry>>

\* _write_to_ltm and add_to_lessons below an existing header: the text is split at
\* the headers, and only its first two parts are written again.
WithLesson(file, entry) ==
  LET first == FirstOf(LessonHeaders(file))
      rest  == LessonHeaders(file) \ {first}
      end   == IF rest = {} THEN Len(file) ELSE FirstOf(rest) - 1
  IN  SubSeq(file, 1, first) \o <<entry>> \o SubSeq(file, first + 1, end)

-----------------------------------------------------------------------------
(* Operations                                                              *)

Doing(s, step) == op[s].step = step
Goes(s, next) == op' = [op EXCEPT ![s] = next]

\* A write over a file that has changed, in what the operation depends on, since the
\* operation read it.
Stale(changed) == spoiled' = (IF changed THEN spoiled \union {"stale"} ELSE spoiled)
Mishap(kind) ==
  /\ mishaps < MaxMishaps
  /\ mishaps' = mishaps + 1
  /\ spoiled' = spoiled \union {kind}
NoMishap == UNCHANGED <<mishaps, spoiled>>

Used == {e.id : e \in written.stm \union written.ltm} \union
        {op[s].entry.id : s \in {t \in Sessions : op[t].step \in {"note", "lesson"}}}
\* An entry of today, by the first number not in use.
NewEntries ==
  {e \in [line : {"entry"}, id : 1..MaxEntries, day : {today}] :
     e.id \notin Used /\ \A n \in 1..e.id - 1 : n \in Used}

\* memory "...": the date is taken, the file is read.  An unreadable file is reported,
\* and nothing is written.
BeginNote(s) ==
  /\ Doing(s, "idle")
  /\ \E entry \in NewEntries : Goes(s, [step |-> "note", entry |-> entry, headed |-> Headed(stm)])
  /\ NoMishap
  /\ UNCHANGED <<today, stm, ltm, written, asked, distilled>>
EndNote(s) ==
  /\ Doing(s, "note")
  /\ stm' = Noted(stm, op[s].headed, op[s].entry)
  /\ written' = [written EXCEPT !.stm = @ \union {op[s].entry}]
  /\ Stale(Headed(stm) # op[s].headed)
  /\ Goes(s, Idle)
  /\ UNCHANGED <<today, ltm, asked, distilled, mishaps>>

\* memory "..." --ltm reports a file it cannot read.  MemoryManager.add_ltm_entry
\* (LTMStore.add_to_lessons) reads with FileRepository.read, which turns an error into an
\* empty text, and goes on with that.
BeginLesson(s) ==
  /\ Doing(s, "idle")
  /\ \E entry \in NewEntries, text \in {ltm, <<>>} :
       /\ Goes(s, [step |-> "lesson", entry |-> entry, read |-> ltm, text |-> text])
       /\ IF text = ltm THEN NoMishap ELSE Mishap("ltm_unread")
  /\ UNCHANGED <<today, stm, ltm, written, asked, distilled>>
\* A text without the header gets one at its end, a second one if it was not read.
EndLesson(s) ==
  /\ Doing(s, "lesson")
  /\ ltm' = (IF Lessons \in LinesOf(op[s].text)
             THEN WithLesson(op[s].text, op[s].entry)
             ELSE ltm \o <<Lessons, op[s].entry>>)
  /\ written' = [written EXCEPT !.ltm = @ \union {op[s].entry}]
  /\ Stale(ltm # op[s].read)
  /\ Goes(s, Idle)
  /\ UNCHANGED <<today, stm, asked, distilled, mishaps>>

\* The expired content manage_memory makes up for the distiller.
Shown(file, days) == UNION {Section(file, day) : day \in days}

\* manage_memory: the expired sections; when there are none (or the file cannot be
\* read) it is over.
BeginManage(s) ==
  /\ Doing(s, "idle")
  /\ Expired(stm) # {}
  /\ Goes(s, [step |-> "distill", days |-> Expired(stm),
               shown |-> Shown(stm, Expired(stm))])
  /\ NoMishap
  /\ UNCHANGED <<today, stm, ltm, written, asked, distilled>>

\* Distiller.distill_stm and add_distilled_memory: a summary is appended to the long
\* term memory, or there is nothing worth keeping, or the call fails.  The model may
\* write the lessons' header in its summary.  Whatever comes of it, the expired
\* sections are removed next.
Distill(s) ==
  /\ Doing(s, "distill")
  /\ asked' = asked \union op[s].shown
  /\ \/ /\ ltm' \in {ltm, Append(ltm, Summary)}
        /\ distilled' = distilled \union op[s].shown
        /\ NoMishap
     \/ /\ ltm' = ltm \o <<Summary, Lessons>>
        /\ distilled' = distilled \union op[s].shown
        /\ Mishap("heading")
     \/ /\ Mishap("undistilled")
        /\ UNCHANGED <<ltm, distilled>>
  /\ Goes(s, [step |-> "remove", days |-> op[s].days])
  /\ UNCHANGED <<today, stm, written>>

\* STMStore.remove_sections reads the file again, and STMStore.delete begins with it.
\* FileRepository.read turns an error into an empty text.
BeginRemove(s) ==
  /\ Doing(s, "remove")
  /\ \/ Goes(s, [step |-> "rewrite", read |-> stm,
                  text |-> WithoutSections(stm, op[s].days)]) /\ NoMishap
     \/ Goes(s, [step |-> "rewrite", read |-> stm, text |-> <<>>]) /\ Mishap("stm_unread")
  /\ UNCHANGED <<today, stm, ltm, written, asked, distilled>>
EndRemove(s) ==
  /\ Doing(s, "rewrite")
  /\ stm' = op[s].text
  /\ Stale(stm # op[s].read)
  /\ Goes(s, Idle)
  /\ UNCHANGED <<today, ltm, written, asked, distilled, mishaps>>

\* The process dies: what the operations have read is gone, and a file that one of
\* them was rewriting may be empty.  The next start leaves files that exist alone.
Crash ==
  /\ Mishap("torn")
  /\ stm' \in {stm} \union {<<>> : s \in {t \in Sessions : Doing(t, "rewrite")}}
  /\ ltm' \in {ltm} \union
       {<<>> : s \in {t \in Sessions : Doing(t, "lesson") /\ Lessons \in LinesOf(op[t].text)}}
  /\ op' = [s \in Sessions |-> Idle]
  /\ UNCHANGED <<today, written, asked, distilled>>

\* Time passes.  Bound: no memory command spans two midnights.
NewDay ==
  /\ today < MaxDay
  /\ \A s \in Sessions : Doing(s, "note") => op[s].entry.day = today
  /\ today' = today + 1
  /\ UNCHANGED <<stm, ltm, op, written, asked, distilled, spoiled, mishaps>>

MemoryBegin(s) == BeginNote(s) \/ BeginLesson(s) \/ BeginManage(s)
MemoryGoesOn(s) ==
  EndNote(s) \/ EndLesson(s) \/ Distill(s) \/ BeginRemove(s) \/ EndRemove(s)
-----------------------------------------------------------------------------
(* Properties                                                              *)

Without(kinds) == spoiled \intersect kinds = {}

\* An entry leaves the short term memory only when it has expired and the distiller
\* was asked about it, unless a file was rewritten from a stale or a failed read or
\* the process died (manage_memory, remove_sections).  With days_to_keep = 0, a note that
\* midnight overtakes is of an expired day when it is written, and goes with the sections
\* that were taken before.
EntriesAreKept ==
  DaysToKeep > 0 /\ Without({"stale", "stm_unread", "torn"}) =>
    \A e \in written.stm \ EntriesIn(stm) : e.day + DaysToKeep < today /\ e \in asked

\* It is in fact condensed, unless the call of the model failed: then manage_memory
\* removes it all the same.
RemovedEntriesAreDistilled ==
  DaysToKeep > 0 /\ Without({"stale", "stm_unread", "torn", "undistilled"}) =>
    written.stm \ EntriesIn(stm) \subseteq distilled

\* Every entry stands under the header of the day it was written on, across midnight.
EntriesAreFiledByDay ==
  Without({"stale"}) =>
    \A i \in 1..Len(stm) : stm[i].line = "entry" => stm[HeaderOf(stm, i)].day = stm[i].day

\* A lesson is never lost, unless it was overwritten from a stale read or by a crash, or
\* the lessons' header came into the file a second time, with a summary or with a lesson
\* added to a file that could not be read: the next lesson drops what is behind it.
LessonsAreKept ==
  Without({"stale", "torn", "heading", "ltm_unread"}) => written.ltm \subseteq EntriesIn(ltm)

\* What the memory files hold was written, and each entry once (also when operations
\* overlap).
NothingTwice ==
  /\ EntriesIn(stm) \subseteq written.stm /\ EntriesIn(ltm) \subseteq written.ltm
  /\ \A file \in {stm, ltm} : \A i, j \in 1..Len(file) :
       file[i].line = "entry" /\ file[i] = file[j] => i = j

\* The memory files as a whole keep what the agent was told to remember, once and under
\* its day (memory_manager.py, stm_store.py).
MemoryIsKept ==
  /\ EntriesAreKept /\ RemovedEntriesAreDistilled /\ EntriesAreFiledByDay
  /\ LessonsAreKept /\ NothingTwice
=============================================================================
