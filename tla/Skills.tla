------------------------------- MODULE Skills -------------------------------
(***************************************************************************)
(* A skill of one name in the two skill directories, the registry and the  *)
(* cache every session keeps of it, and the files themselves, which the    *)
(* container and the host change at any moment.                            *)
(*                                                                         *)
(* The registry is a snapshot: the directories are scanned one after the   *)
(* other, and the later one overrides the earlier.  The cache is checked   *)
(* against the modification time on every read, and its first directory    *)
(* that has the file wins.                                                 *)
(***************************************************************************)
EXTENDS HostSessions, Naturals

CONSTANTS MaxEdits    \* bound: changes of the files

ASSUME SkillsAssumption == MaxEdits \in Nat /\ None \notin Nat

VARIABLES
  files,      \* files[d]: the SKILL.md in directory d (text and mtime), or None
  registry,   \* registry[s]: the skill session s has registered, or None
  cache,      \* cache[s][d]: what session s has cached of d's file, or None
  scan,       \* scan[s]: what session s's thread is doing with the directories
  edits,      \* changes of the files so far; each text is numbered by its change
  clock,      \* the file system's clock
  asOf,       \* history: the number of changes session s's registry has seen, or None
  sameTick    \* history: two changes within one tick of the clock

skills == <<files, registry, cache, scan, edits, clock, asOf, sameTick>>

\* skills_dirs in their order: the built-in skills, then the user's.
Dirs == 1..2
File(text, mtime) == [text |-> text, mtime |-> mtime]
Skill(dir, text)  == [dir |-> dir, text |-> text]
Resting == [step |-> "rest"]

SkillsInit ==
  /\ files \in [Dirs -> {None, File(0, 0)}]
  /\ registry = [s \in Sessions |-> None]
  /\ cache = [s \in Sessions |-> [d \in Dirs |-> None]]
  /\ scan = [s \in Sessions |-> Resting]
  /\ edits = 0 /\ clock = 0 /\ sameTick = FALSE
  /\ asOf = [s \in Sessions |-> None]

Scanning(s, step) == scan[s].step = step
Turn(s, next) == scan' = [scan EXCEPT ![s] = next]
Exists(d) == files[d] # None
-----------------------------------------------------------------------------
(* cat skills/<name>/SKILL.md                                              *)

\* Mutant: what is cached is served without a look at the file's time.
Hit_IgnoresTime(s, d) == cache[s][d] # None
\* A cached text is served as long as the file has the time it was cached under.
Hit(s, d) == cache[s][d] # None /\ cache[s][d].mtime = files[d].mtime

\* read_skill_file from directory d on: the cached text, or the text has to be fetched,
\* with the time that was read before; or no directory has the file.
ReadFrom(s, d) ==
  IF \A e \in d..2 : ~Exists(e) THEN [step |-> "unlisted"]
  ELSE LET e == CHOOSE e \in d..2 : Exists(e) /\ \A b \in d..e - 1 : ~Exists(b)
       IN  IF Hit(s, e) THEN [step |-> "told", dir |-> e, text |-> cache[s][e].text,
                              old |-> files[e].text]
           ELSE [step |-> "fetch", dir |-> e, mtime |-> files[e].mtime,
                 old |-> files[e].text]

Cat(s) ==
  /\ Scanning(s, "rest")
  /\ Turn(s, ReadFrom(s, 1))
  /\ UNCHANGED <<files, registry, cache, edits, clock, asOf, sameTick>>

\* The file is read and cached; when it is gone by now the next directory is tried.
Fetch(s) ==
  /\ Scanning(s, "fetch")
  /\ LET d == scan[s].dir
     IN  IF Exists(d)
           THEN /\ cache' = [cache EXCEPT ![s][d] = File(files[d].text, scan[s].mtime)]
                /\ Turn(s, [step |-> "told", dir |-> d, text |-> files[d].text,
                            old |-> scan[s].old])
           ELSE Turn(s, ReadFrom(s, d + 1)) /\ UNCHANGED cache
  /\ UNCHANGED <<files, registry, edits, clock, asOf, sameTick>>

Answered(s) ==
  /\ Scanning(s, "told")
  /\ Turn(s, Resting)
  /\ UNCHANGED <<files, registry, cache, edits, clock, asOf, sameTick>>

\* SkillSnapshotManager.read_skill_file without a cached text: the registered skill's
\* own path is read, and an exception leaves execute when that file is gone.  An empty
\* registry is filled first; without the skill the container runs the cat.
ReadRegistered(s) ==
  /\ Scanning(s, "unlisted")
  /\ IF registry[s] = None
       THEN Turn(s, [step |-> "scan", dir |-> 1, found |-> None, since |-> edits,
                     wipes |-> FALSE, looks |-> TRUE])
       ELSE Turn(s, Resting)
  /\ UNCHANGED <<files, registry, cache, edits, clock, asOf, sameTick>>

-----------------------------------------------------------------------------
(* toolkit list, info and refresh, AliceAgent.refresh_skills               *)

\* toolkit refresh clears the cache in the end; refresh_skills, and a list of an empty
\* registry, do not.
BeginScan(s) ==
  /\ Scanning(s, "rest")
  /\ \E wipes \in BOOLEAN :
       Turn(s, [step |-> "scan", dir |-> 1, found |-> None, since |-> edits,
                wipes |-> wipes, looks |-> FALSE])
  /\ UNCHANGED <<files, registry, cache, edits, clock, asOf, sameTick>>

\* load_directory: the skill of a later directory replaces that of an earlier one.
Found(d, found) == IF Exists(d) THEN Skill(d, files[d].text) ELSE found

ScanFirst(s) ==
  /\ Scanning(s, "scan") /\ scan[s].dir = 1
  /\ scan' = [scan EXCEPT ![s].dir = 2, ![s].found = Found(1, @)]
  /\ UNCHANGED <<files, registry, cache, edits, clock, asOf, sameTick>>
ScanLast(s) ==
  /\ Scanning(s, "scan") /\ scan[s].dir = 2
  /\ registry' = [registry EXCEPT ![s] = Found(2, scan[s].found)]
  /\ asOf' = [asOf EXCEPT ![s] = IF scan[s].since = edits THEN edits ELSE None]
  /\ cache' = (IF scan[s].wipes THEN [cache EXCEPT ![s] = [d \in Dirs |-> None]] ELSE cache)
  /\ Turn(s, IF scan[s].looks /\ Found(2, scan[s].found) # None
               THEN [step |-> "unlisted"] ELSE Resting)
  /\ UNCHANGED <<files, edits, clock, sameTick>>

-----------------------------------------------------------------------------
(* The files                                                               *)

\* A file is written (also by FileRepository.write_file) or removed.  Two changes may
\* fall into one tick of the file system's clock.
Edit(d) ==
  /\ edits < MaxEdits
  /\ edits' = edits + 1
  /\ \E now \in {clock, clock + 1} :
       /\ clock' = now
       /\ sameTick' = (sameTick \/ now = clock)
       /\ files' = [files EXCEPT ![d] = File(edits + 1, now)]
  /\ UNCHANGED <<registry, cache, scan, asOf>>
Remove(d) ==
  /\ edits < MaxEdits /\ Exists(d)
  /\ edits' = edits + 1
  /\ files' = [files EXCEPT ![d] = None]
  /\ UNCHANGED <<registry, cache, scan, clock, asOf, sameTick>>

SkillsBegin(s)  == Cat(s) \/ BeginScan(s)
SkillsGoesOn(s) ==
  Fetch(s) \/ Answered(s) \/ ReadRegistered(s) \/ ScanFirst(s) \/ ScanLast(s)
FilesChange == \E d \in Dirs : Edit(d) \/ Remove(d)
-----------------------------------------------------------------------------
(* Properties                                                              *)

\* cat shows a text the file had while it was read, never an older one, although it is
\* served from the cache (cache_loader.py: "the modification time keeps the cache
\* consistent"); two changes within a tick may hide the second.
CatIsCurrent ==
  ~sameTick => \A s \in Sessions : Scanning(s, "told") => scan[s].text >= scan[s].old

\* What is in force: the user's skill, otherwise the built-in one.
InForce == Found(2, Found(1, None))

\* A refreshed registry lists exactly the skill in force: none that was removed, and not
\* the one that is overridden.
RegistryIsCurrent == \A s \in Sessions : asOf[s] = edits => registry[s] = InForce

SkillsAreCurrent == CatIsCurrent /\ RegistryIsCurrent
=============================================================================
