-------------------------- MODULE HostCommandsProofs --------------------------
(***************************************************************************)
(* Proofs about the files the sessions of a server share, for any number   *)
(* of sessions, fragments, updates, edits and entries: the system prompt   *)
(* and its fragments, the skills with their registries and caches, and the *)
(* memory files.                                                           *)
(***************************************************************************)
EXTENDS HostCommands, LoopsProofs

-----------------------------------------------------------------------------
(* The system prompt.                                                      *)

Texts == [Fragments -> Nat]
Compositions == [step : {"compose"}, of : Fragments, number : Nat]
Publications == [step : {"publish"}, of : Fragments, number : Nat, text : Texts]

PromptsTypeOK ==
  /\ fragment \in Texts /\ prompt \in Texts
  /\ system \in [Sessions -> Texts \cup {None}]
  /\ update \in [Sessions -> {NoUpdate} \cup Compositions \cup Publications]
  /\ own \in [Sessions -> Publications \cup {None}]
  /\ updates \in Nat /\ behind \in BOOLEAN

\* Updates are numbered in the order their fragments are written, so that what one of
\* them composes has its own fragment, or a later one.
NumberedInv ==
  /\ \A f \in Fragments : fragment[f] <= updates
  /\ \A s \in Sessions :
       /\ Updating(s, "compose") => fragment[update[s].of] >= update[s].number
       /\ Updating(s, "publish") => update[s].text[update[s].of] >= update[s].number

\* A session without an agent has published nothing.
AgentlessInv == \A s \in Sessions : system[s] = None => own[s] = None

PromptsInv == PromptsTypeOK /\ NumberedInv /\ AgentlessInv /\ PromptsAreCurrent

\* The three kinds of an update, told apart by their step.
LEMMA UpdateKinds ==
  ASSUME PromptsTypeOK, NEW s \in Sessions
  PROVE  /\ Updating(s, "none") => update[s] = NoUpdate
         /\ Updating(s, "compose") => update[s] \in Compositions
         /\ Updating(s, "publish") => update[s] \in Publications
         /\ Updating(s, "none") \/ Updating(s, "compose") \/ Updating(s, "publish")
  BY DEF PromptsTypeOK, Updating, NoUpdate, Compositions, Publications

LEMMA OpenKeepsPrompts ==
  ASSUME PromptsInv, NEW s \in Sessions, OpenSession(s) PROVE PromptsInv'
<1>1. /\ system' = [system EXCEPT ![s] = prompt] /\ system[s] = None /\ own[s] = None
      /\ UNCHANGED <<fragment, prompt, update, own, updates, behind>>
  BY DEF OpenSession, PromptsInv, AgentlessInv
<1>2. PromptsTypeOK'
  BY <1>1 DEF PromptsInv, PromptsTypeOK
<1>3. NumberedInv'
  BY <1>1 DEF PromptsInv, NumberedInv, Updating
<1>4. \A t \in Sessions : t # s => system'[t] = system[t]
  BY <1>1 DEF PromptsInv, PromptsTypeOK
<1>5. AgentlessInv'
  BY <1>1, <1>4 DEF PromptsInv, AgentlessInv
<1>6. PromptsAreCurrent'
  BY <1>1, <1>4 DEF PromptsInv, PromptsAreCurrent, PromptIsComposed, SessionsSeeTheirUpdates,
     Composing, Updating, Composed
<1>7. QED
  BY <1>2, <1>3, <1>5, <1>6 DEF PromptsInv

LEMMA WriteKeepsPrompts ==
  ASSUME PromptsInv, NEW s \in Sessions, WriteFragment(s) PROVE PromptsInv'
<1>1. PICK f \in Fragments :
        /\ fragment' = [fragment EXCEPT ![f] = updates + 1]
        /\ update' = [update EXCEPT ![s] = [step |-> "compose", of |-> f, number |-> updates + 1]]
        /\ updates' = updates + 1 /\ Updating(s, "none")
        /\ UNCHANGED <<prompt, system, own, behind>>
  BY DEF WriteFragment, Advance
<1>2. /\ PromptsTypeOK /\ updates \in Nat /\ updates + 1 \in Nat /\ fragment \in Texts
      /\ NumberedInv
  BY DEF PromptsInv, PromptsTypeOK
<1>3. [step |-> "compose", of |-> f, number |-> updates + 1] \in Compositions
  BY <1>2 DEF Compositions
<1>4. PromptsTypeOK'
  BY <1>1, <1>2, <1>3 DEF PromptsTypeOK, Texts
<1>5. /\ \A t \in Sessions : t # s => update'[t] = update[t]
      /\ update'[s] = [step |-> "compose", of |-> f, number |-> updates + 1]
  BY <1>1, <1>2 DEF PromptsTypeOK
<1>6. /\ \A g \in Fragments : fragment[g] \in Nat /\ fragment[g] <= updates
      /\ \A g \in Fragments : g # f => fragment'[g] = fragment[g]
      /\ fragment'[f] = updates + 1
  BY <1>1, <1>2 DEF Texts, NumberedInv
<1>7. \A g \in Fragments : fragment'[g] <= updates' /\ fragment'[g] >= fragment[g]
  BY <1>1, <1>2, <1>6
<1>8. \A t \in Sessions :
        /\ Updating(t, "compose")' => fragment'[update'[t].of] >= update'[t].number
        /\ Updating(t, "publish")' => update'[t].text[update'[t].of] >= update'[t].number
  <2>1. SUFFICES ASSUME NEW t \in Sessions
                 PROVE  /\ Updating(t, "compose")' =>
                             fragment'[update'[t].of] >= update'[t].number
                        /\ Updating(t, "publish")' =>
                             update'[t].text[update'[t].of] >= update'[t].number
    OBVIOUS
  <2>2. CASE t = s
    BY <1>2, <1>5, <1>6, <2>2 DEF Updating
  <2>3. CASE t # s
    <3>1. update'[t] = update[t]
      BY <1>5, <2>3
    <3>2. ASSUME Updating(t, "compose") PROVE fragment'[update[t].of] >= update[t].number
      <4>1. update[t] \in Compositions
        BY <1>2, <3>2, UpdateKinds
      <4>2. update[t].of \in Fragments /\ update[t].number \in Nat
        BY <4>1 DEF Compositions
      <4>3. fragment[update[t].of] >= update[t].number
        BY <1>2, <3>2 DEF NumberedInv
      <4>4. fragment'[update[t].of] >= fragment[update[t].of] /\ fragment'[update[t].of] \in Nat
        BY <1>4, <1>7, <4>2 DEF PromptsTypeOK, Texts
      <4>5. QED
        BY <1>6, <4>2, <4>3, <4>4
    <3>3. QED
      BY <1>2, <3>1, <3>2 DEF NumberedInv, Updating
  <2>4. QED
    BY <2>2, <2>3
<1>9. NumberedInv'
  BY <1>7, <1>8 DEF NumberedInv
<1>10. AgentlessInv' /\ SessionsSeeTheirUpdates'
  BY <1>1 DEF PromptsInv, AgentlessInv, PromptsAreCurrent, SessionsSeeTheirUpdates
<1>11. Composing'
  BY <1>5 DEF Composing, Updating
<1>12. QED
  BY <1>4, <1>9, <1>10, <1>11 DEF PromptsInv, PromptsAreCurrent, PromptIsComposed

LEMMA ComposeKeepsPrompts ==
  ASSUME PromptsInv, NEW s \in Sessions, Compose(s) PROVE PromptsInv'
<1>1. /\ Updating(s, "compose") /\ update[s] \in Compositions /\ PromptsTypeOK
      /\ UNCHANGED <<fragment, prompt, system, own, updates>>
  BY UpdateKinds DEF Compose, PromptsInv
<1>2. /\ update[s].of \in Fragments /\ update[s].number \in Nat
      /\ fragment[update[s].of] >= update[s].number /\ fragment \in Texts
  BY <1>1 DEF Compositions, PromptsInv, NumberedInv, PromptsTypeOK
<1>3. PICK new : /\ update' = [update EXCEPT ![s] = new]
                 /\ \/ new = NoUpdate /\ behind' = TRUE
                    \/ /\ new = [step |-> "publish", of |-> update[s].of,
                                 number |-> update[s].number, text |-> fragment]
                       /\ behind' = behind
  BY DEF Compose, Advance, Composed
<1>4. /\ new = NoUpdate \/ new \in Publications
      /\ new \in Publications => new.text[new.of] >= new.number
  BY <1>2, <1>3 DEF Publications, NoUpdate
<1>5. /\ update'[s] = new
      /\ \A t \in Sessions : t # s => update'[t] = update[t]
  BY <1>1, <1>3 DEF PromptsTypeOK
<1>6. PromptsTypeOK'
  BY <1>1, <1>3, <1>4 DEF PromptsTypeOK
<1>7. NumberedInv'
  <2>1. ASSUME NEW t \in Sessions
        PROVE  /\ Updating(t, "compose")' => fragment'[update'[t].of] >= update'[t].number
               /\ Updating(t, "publish")' =>
                    update'[t].text[update'[t].of] >= update'[t].number
    <3>1. CASE t = s
      BY <1>4, <1>5, <3>1 DEF Updating, NoUpdate, Publications
    <3>2. CASE t # s
      BY <1>1, <1>5, <3>2 DEF Updating, PromptsInv, NumberedInv
    <3>3. QED
      BY <3>1, <3>2
  <2>2. QED
    BY <1>1, <2>1 DEF PromptsInv, NumberedInv
<1>8. AgentlessInv' /\ SessionsSeeTheirUpdates'
  BY <1>1 DEF PromptsInv, AgentlessInv, PromptsAreCurrent, SessionsSeeTheirUpdates
<1>9. behind' \/ Composing'
  <2>1. CASE new = NoUpdate
    BY <1>3, <2>1 DEF NoUpdate
  <2>2. CASE new # NoUpdate
    <3>1. new.step = "publish"
      BY <1>4, <2>2 DEF Publications
    <3>2. ~Updating(s, "none")'
      BY <1>5, <3>1 DEF Updating
    <3>3. QED
      BY <3>2 DEF Composing
  <2>3. QED
    BY <2>1, <2>2
<1>10. QED
  BY <1>6, <1>7, <1>8, <1>9 DEF PromptsInv, PromptsAreCurrent, PromptIsComposed

LEMMA PublishKeepsPrompts ==
  ASSUME PromptsInv, NEW s \in Sessions, Publish(s) PROVE PromptsInv'
<1>1. /\ update[s] \in Publications /\ PromptsTypeOK
      /\ update[s].text[update[s].of] >= update[s].number
  BY UpdateKinds DEF Publish, PromptsInv, NumberedInv
<1>2. /\ prompt' = update[s].text
      /\ system' = [system EXCEPT ![s] = update[s].text]
      /\ own' = [own EXCEPT ![s] = update[s]]
      /\ behind' = (update[s].text # fragment)
      /\ update' = [update EXCEPT ![s] = NoUpdate]
      /\ UNCHANGED <<fragment, updates>>
  BY DEF Publish, HotSystem, Composed, Advance
<1>3. update[s].text \in Texts
  BY <1>1 DEF Publications
<1>4. PromptsTypeOK'
  BY <1>1, <1>2, <1>3 DEF PromptsTypeOK
<1>5. /\ update'[s] = NoUpdate /\ own'[s] = update[s] /\ system'[s] = update[s].text
      /\ \A t \in Sessions : t # s => /\ update'[t] = update[t] /\ own'[t] = own[t]
                                      /\ system'[t] = system[t]
  BY <1>1, <1>2 DEF PromptsTypeOK
<1>6. NumberedInv'
  BY <1>2, <1>5 DEF PromptsInv, NumberedInv, Updating, NoUpdate
<1>7. AgentlessInv'
  <2>1. system'[s] # None
    BY <1>3, <1>5, PromptsAssumption DEF Texts
  <2>2. QED
    BY <1>5, <2>1 DEF PromptsInv, AgentlessInv
<1>8. SessionsSeeTheirUpdates'
  BY <1>1, <1>5 DEF PromptsInv, PromptsAreCurrent, SessionsSeeTheirUpdates
<1>9. PromptIsComposed'
  BY <1>2 DEF PromptIsComposed, Composed
<1>10. QED
  BY <1>4, <1>6, <1>7, <1>8, <1>9 DEF PromptsInv, PromptsAreCurrent

LEMMA RestartKeepsPrompts == ASSUME PromptsInv, RestartPrompts PROVE PromptsInv'
<1>1. /\ prompt' = fragment /\ UNCHANGED <<fragment, updates>> /\ behind' = FALSE
      /\ \A s \in Sessions : system'[s] = None /\ update'[s] = NoUpdate /\ own'[s] = None
  BY DEF RestartPrompts, Composed
<1>2. PromptsTypeOK'
  BY DEF RestartPrompts, Composed, PromptsInv, PromptsTypeOK
<1>3. NumberedInv' /\ AgentlessInv' /\ PromptsAreCurrent'
  BY <1>1 DEF PromptsInv, NumberedInv, AgentlessInv, PromptsAreCurrent, PromptIsComposed,
     SessionsSeeTheirUpdates, Composed, Updating, NoUpdate
<1>4. QED
  BY <1>2, <1>3 DEF PromptsInv

LEMMA PromptsKept == PromptsInv /\ [Next]_vars => PromptsInv'
<1>1. SUFFICES ASSUME PromptsInv, [Next]_vars PROVE PromptsInv'
  OBVIOUS
<1>2. CASE UNCHANGED prompts
  BY <1>1, <1>2 DEF prompts, PromptsInv, PromptsTypeOK, NumberedInv, AgentlessInv,
     PromptsAreCurrent, PromptIsComposed, SessionsSeeTheirUpdates, Composing, Composed, Updating
<1>3. \/ UNCHANGED prompts \/ RestartPrompts
      \/ \E s \in Sessions : OpenSession(s) \/ WriteFragment(s) \/ Compose(s) \/ Publish(s)
  BY <1>1 DEF Next, vars, Dispatch, Continue, Open, Restart, Outside, PromptsGoesOn
<1>4. QED
  BY <1>1, <1>2, <1>3, OpenKeepsPrompts, WriteKeepsPrompts, ComposeKeepsPrompts,
     PublishKeepsPrompts, RestartKeepsPrompts

LEMMA PromptsInitially == Init => PromptsInv
<1>1. SUFFICES ASSUME Init PROVE PromptsInv
  OBVIOUS
<1>2. PromptsInit
  BY <1>1 DEF Init
<1>3. PromptsTypeOK
  BY <1>2 DEF PromptsInit, PromptsTypeOK, Texts, Composed
<1>4. NumberedInv /\ AgentlessInv /\ PromptsAreCurrent
  BY <1>2 DEF PromptsInit, NumberedInv, AgentlessInv, PromptsAreCurrent, PromptIsComposed,
     SessionsSeeTheirUpdates, Composed, Updating, NoUpdate
<1>5. QED
  BY <1>3, <1>4 DEF PromptsInv

\* The composed prompt says what the fragments say whenever no update is under way,
\* failed or was overtaken, and a session keeps what it has published (update_prompt,
\* rebuild_runtime_prompt), for any number of sessions and fragments.
THEOREM PromptsStayCurrent == Spec => []PromptsAreCurrent
<1>1. PromptsInv => PromptsAreCurrent
  BY DEF PromptsInv
<1>2. QED
  BY <1>1, PromptsInitially, PromptsKept, PTL DEF Spec

-----------------------------------------------------------------------------
(* The skills.                                                             *)

FileType == [text : Nat, mtime : Nat]
Finds == [dir : Dirs, text : Nat]

Fetches == [step : {"fetch"}, dir : Dirs, mtime : Nat, old : Nat]
Answers == [step : {"told"}, dir : Dirs, text : Nat, old : Nat]
Scans ==
  [step : {"scan"}, dir : Dirs, found : Finds \cup {None}, since : Nat, wipes : BOOLEAN,
   looks : BOOLEAN]

SkillsTypeOK ==
  /\ files \in [Dirs -> FileType \cup {None}]
  /\ registry \in [Sessions -> Finds \cup {None}]
  /\ cache \in [Sessions -> [Dirs -> FileType \cup {None}]]
  /\ scan \in [Sessions -> {Resting, [step |-> "unlisted"]} \cup Fetches \cup Answers \cup Scans]
  /\ edits \in Nat /\ clock \in Nat /\ sameTick \in BOOLEAN
  /\ asOf \in [Sessions -> Nat \cup {None}]

\* Nothing is newer than the last change, nor later than the clock.
PastInv ==
  /\ \A d \in Dirs : files[d] # None => files[d].text <= edits /\ files[d].mtime <= clock
  /\ \A s \in Sessions, d \in Dirs : cache[s][d] # None => cache[s][d].mtime <= clock
  /\ \A s \in Sessions :
       /\ Scanning(s, "fetch") => scan[s].old <= edits /\ scan[s].mtime <= clock
       /\ Scanning(s, "scan") => scan[s].since <= edits
       /\ asOf[s] # None => asOf[s] <= edits

\* A file that has the time a text was cached under is not newer than that text, and one
\* that is about to be read not older than when its time was taken.
CacheInv ==
  ~sameTick =>
    /\ \A s \in Sessions, d \in Dirs :
         cache[s][d] # None /\ files[d] # None /\ cache[s][d].mtime = files[d].mtime =>
           cache[s][d].text >= files[d].text
    /\ \A s \in Sessions :
         Scanning(s, "fetch") /\ files[scan[s].dir] # None =>
           files[scan[s].dir].text >= scan[s].old

\* A scan no change has come between has found what is in force so far.
ScanInv ==
  \A s \in Sessions :
    Scanning(s, "scan") =>
      /\ scan[s].dir = 1 => scan[s].found = None
      /\ scan[s].dir = 2 /\ scan[s].since = edits => scan[s].found = Found(1, None)

SkillsInv == SkillsTypeOK /\ PastInv /\ CacheInv /\ ScanInv /\ SkillsAreCurrent

LEMMA ScanKinds ==
  ASSUME SkillsTypeOK, NEW s \in Sessions
  PROVE  /\ Scanning(s, "fetch") => scan[s] \in Fetches
         /\ Scanning(s, "told") => scan[s] \in Answers
         /\ Scanning(s, "scan") => scan[s] \in Scans
  BY DEF SkillsTypeOK, Scanning, Resting, Fetches, Answers, Scans

LEMMA FoundType ==
  ASSUME SkillsTypeOK, NEW d \in Dirs, NEW found \in Finds \cup {None}
  PROVE  Found(d, found) \in Finds \cup {None}
<1>1. files[d] # None => files[d] \in FileType
  BY DEF SkillsTypeOK
<1>2. QED
  BY <1>1 DEF Found, Exists, Skill, Finds, FileType

\* What looking for the skill from one directory on comes to: nothing, a cached text that
\* is not older than the file, or a file to be read.
LEMMA ReadFromFinds ==
  ASSUME SkillsTypeOK, PastInv, CacheInv, NEW s \in Sessions, NEW d \in 1..3
  PROVE  LET found == ReadFrom(s, d) IN
         \/ found = [step |-> "unlisted"]
         \/ found \in Answers /\ (~sameTick => found.text >= found.old)
         \/ /\ found \in Fetches
            /\ found.old <= edits /\ found.mtime <= clock
            /\ files[found.dir] # None => files[found.dir].text >= found.old
<1>1. CASE \A e \in d..2 : ~Exists(e)
  BY <1>1 DEF ReadFrom
<1>2. CASE ~\A e \in d..2 : ~Exists(e)
  <2>1. \E e \in d..2 : Exists(e) /\ \A b \in d..e - 1 : ~Exists(b)
    <3>1. PICK e \in d..2 : Exists(e)
      BY <1>2
    <3>2. d = 1 \/ d = 2
      BY <3>1
    <3>3. CASE d = 1 /\ Exists(1)
      <4>1. 1 \in d..2 /\ d..1 - 1 = {}
        BY <3>3
      <4>2. QED
        BY <3>3, <4>1
    <3>4. CASE ~(d = 1 /\ Exists(1))
      <4>1. e = 2 /\ \A b \in d..2 - 1 : ~Exists(b)
        BY <3>1, <3>2, <3>4
      <4>2. QED
        BY <3>1, <4>1
    <3>5. QED
      BY <3>3, <3>4
  <2>2. PICK e \in d..2 :
          /\ e = CHOOSE x \in d..2 : Exists(x) /\ \A b \in d..x - 1 : ~Exists(b)
          /\ Exists(e)
    BY <2>1
  <2>3. e \in Dirs /\ files[e] \in FileType /\ files[e] # None
    BY <2>2 DEF Dirs, Exists, SkillsTypeOK
  <2>4. files[e].text \in Nat /\ files[e].mtime \in Nat
        /\ files[e].text <= edits /\ files[e].mtime <= clock
    BY <2>3 DEF FileType, PastInv
  <2>5. CASE Hit(s, e)
    <3>1. ReadFrom(s, d) = [step |-> "told", dir |-> e, text |-> cache[s][e].text,
                            old |-> files[e].text]
      BY <1>2, <2>2, <2>5 DEF ReadFrom
    <3>2. cache[s][e] \in FileType /\ cache[s][e].mtime = files[e].mtime /\ cache[s][e] # None
      BY <2>3, <2>5 DEF Hit, SkillsTypeOK
    <3>3. ~sameTick => cache[s][e].text >= files[e].text
      BY <2>3, <3>2 DEF CacheInv
    <3>4. QED
      BY <2>3, <2>4, <3>1, <3>2, <3>3 DEF Answers, FileType
  <2>6. CASE ~Hit(s, e)
    <3>1. ReadFrom(s, d) = [step |-> "fetch", dir |-> e, mtime |-> files[e].mtime,
                            old |-> files[e].text]
      BY <1>2, <2>2, <2>6 DEF ReadFrom
    <3>2. files[e].text >= files[e].text
      BY <2>4
    <3>3. QED
      BY <2>3, <2>4, <3>1, <3>2 DEF Fetches
  <2>7. QED
    BY <2>5, <2>6
<1>3. QED
  BY <1>1, <1>2

\* A session's thread goes on, and nothing else changes but its cache and its registry.
LEMMA TurnKeeps ==
  ASSUME SkillsInv, NEW s \in Sessions, NEW next, Turn(s, next),
         UNCHANGED <<files, edits, clock, sameTick>>,
         registry' \in [Sessions -> Finds \cup {None}], asOf' \in [Sessions -> Nat \cup {None}],
         \A t \in Sessions : asOf'[t] # None => asOf'[t] <= edits,
         RegistryIsCurrent',
         cache' \in [Sessions -> [Dirs -> FileType \cup {None}]],
         \A t \in Sessions, d \in Dirs :
           cache'[t][d] # None /\ cache'[t][d] # cache[t][d] =>
             /\ cache'[t][d].mtime <= clock
             /\ ~sameTick /\ files[d] # None => cache'[t][d].text >= files[d].text,
         \/ next = Resting
         \/ next = [step |-> "unlisted"]
         \/ next \in Answers /\ (~sameTick => next.text >= next.old)
         \/ /\ next \in Fetches
            /\ next.old <= edits /\ next.mtime <= clock
            /\ files[next.dir] # None => files[next.dir].text >= next.old
         \/ /\ next \in Scans /\ next.since <= edits
            /\ next.dir = 1 => next.found = None
            /\ next.dir = 2 /\ next.since = edits => next.found = Found(1, None)
  PROVE  SkillsInv'
<1>1. /\ SkillsTypeOK /\ PastInv /\ CacheInv /\ ScanInv /\ CatIsCurrent /\ RegistryIsCurrent
      /\ scan' = [scan EXCEPT ![s] = next]
  BY DEF SkillsInv, SkillsAreCurrent, Turn
<1>2. /\ scan'[s] = next
      /\ \A t \in Sessions : t # s => scan'[t] = scan[t]
  BY <1>1 DEF SkillsTypeOK
<1>3. SkillsTypeOK'
  BY <1>1 DEF SkillsTypeOK
<1>4. PastInv'
  <2>1. \A t \in Sessions, d \in Dirs : cache'[t][d] # None => cache'[t][d].mtime <= clock
    BY <1>1 DEF PastInv
  <2>2. \A t \in Sessions :
          /\ Scanning(t, "fetch")' => scan'[t].old <= edits /\ scan'[t].mtime <= clock
          /\ Scanning(t, "scan")' => scan'[t].since <= edits
    BY <1>1, <1>2 DEF PastInv, Scanning, Fetches, Answers, Scans, Resting
  <2>3. QED
    BY <1>1, <2>1, <2>2 DEF PastInv
<1>5. CacheInv'
  <2>1. SUFFICES ASSUME ~sameTick
                 PROVE  /\ \A t \in Sessions, d \in Dirs :
                             cache'[t][d] # None /\ files[d] # None
                               /\ cache'[t][d].mtime = files[d].mtime =>
                               cache'[t][d].text >= files[d].text
                        /\ \A t \in Sessions :
                             Scanning(t, "fetch")' /\ files[scan'[t].dir] # None =>
                               files[scan'[t].dir].text >= scan'[t].old
    BY DEF CacheInv
  <2>2. \A t \in Sessions, d \in Dirs :
          cache'[t][d] # None /\ files[d] # None /\ cache'[t][d].mtime = files[d].mtime =>
            cache'[t][d].text >= files[d].text
    BY <1>1, <2>1 DEF CacheInv
  <2>3. \A t \in Sessions :
          Scanning(t, "fetch")' /\ files[scan'[t].dir] # None =>
            files[scan'[t].dir].text >= scan'[t].old
    BY <1>1, <1>2, <2>1 DEF CacheInv, Scanning, Fetches, Answers, Scans, Resting
  <2>4. QED
    BY <2>2, <2>3
<1>6. ScanInv'
  BY <1>1, <1>2 DEF ScanInv, Scanning, Fetches, Answers, Scans, Resting, Found, Exists
<1>7. CatIsCurrent'
  BY <1>1, <1>2 DEF CatIsCurrent, Scanning, Fetches, Answers, Scans, Resting
<1>8. QED
  BY <1>3, <1>4, <1>5, <1>6, <1>7 DEF SkillsInv, SkillsAreCurrent

\* Most steps of the thread leave the registries and the caches alone.
LEMMA QuietTurnKeeps ==
  ASSUME SkillsInv, NEW s \in Sessions, NEW next, Turn(s, next),
         UNCHANGED <<files, registry, edits, clock, asOf, sameTick, cache>>,
         \/ next = Resting
         \/ next = [step |-> "unlisted"]
         \/ next \in Answers /\ (~sameTick => next.text >= next.old)
         \/ /\ next \in Fetches
            /\ next.old <= edits /\ next.mtime <= clock
            /\ files[next.dir] # None => files[next.dir].text >= next.old
         \/ /\ next \in Scans /\ next.since <= edits
            /\ next.dir = 1 => next.found = None
            /\ next.dir = 2 /\ next.since = edits => next.found = Found(1, None)
  PROVE  SkillsInv'
<1>1. /\ registry' \in [Sessions -> Finds \cup {None}] /\ asOf' \in [Sessions -> Nat \cup {None}]
      /\ cache' \in [Sessions -> [Dirs -> FileType \cup {None}]]
      /\ \A t \in Sessions : asOf'[t] # None => asOf'[t] <= edits
  BY DEF SkillsInv, SkillsTypeOK, PastInv
<1>2. RegistryIsCurrent'
  BY DEF SkillsInv, SkillsAreCurrent, RegistryIsCurrent, InForce, Found, Exists
<1>3. \A t \in Sessions, d \in Dirs : cache'[t][d] = cache[t][d]
  OBVIOUS
<1>4. QED
  BY <1>1, <1>2, <1>3, TurnKeeps

LEMMA CatKeeps == ASSUME SkillsInv, NEW s \in Sessions, Cat(s) PROVE SkillsInv'
<1>1. PICK next : /\ next = ReadFrom(s, 1) /\ Turn(s, next)
                  /\ UNCHANGED <<files, registry, edits, clock, asOf, sameTick, cache>>
  BY DEF Cat
<1>2. SkillsTypeOK /\ PastInv /\ CacheInv /\ 1 \in 1..3
  BY DEF SkillsInv
<1>3. \/ next = [step |-> "unlisted"]
      \/ next \in Answers /\ (~sameTick => next.text >= next.old)
      \/ /\ next \in Fetches
         /\ next.old <= edits /\ next.mtime <= clock
         /\ files[next.dir] # None => files[next.dir].text >= next.old
  BY <1>1, <1>2, ReadFromFinds
<1>4. QED
  BY <1>1, <1>3, QuietTurnKeeps

\* A file that is fetched is not older than it was when its time was taken.
LEMMA FetchKeeps == ASSUME SkillsInv, NEW s \in Sessions, Fetch(s) PROVE SkillsInv'
<1>1. /\ SkillsTypeOK /\ PastInv /\ CacheInv /\ RegistryIsCurrent
      /\ scan[s] \in Fetches /\ Scanning(s, "fetch")
      /\ UNCHANGED <<files, registry, edits, clock, asOf, sameTick>>
  BY ScanKinds DEF SkillsInv, SkillsAreCurrent, Fetch
<1>2. PICK d \in Dirs : d = scan[s].dir
  BY <1>1 DEF Fetches
<1>3. CASE Exists(d)
  <2>1. /\ cache' = [cache EXCEPT ![s][d] = File(files[d].text, scan[s].mtime)]
        /\ Turn(s, [step |-> "told", dir |-> d, text |-> files[d].text, old |-> scan[s].old])
    BY <1>2, <1>3 DEF Fetch
  <2>2. files[d] \in FileType /\ files[d].text \in Nat /\ scan[s].mtime \in Nat
        /\ scan[s].old \in Nat /\ files[d] # None
    BY <1>1, <1>2, <1>3 DEF Exists, SkillsTypeOK, FileType, Fetches
  <2>3. PICK new \in FileType : /\ new = File(files[d].text, scan[s].mtime)
                                /\ new.text = files[d].text /\ new.mtime = scan[s].mtime
    <3>1. File(files[d].text, scan[s].mtime) \in FileType
      BY <2>2 DEF File, FileType
    <3>2. QED
      BY <3>1 DEF File
  <2>4. PICK next \in Answers :
          /\ next = [step |-> "told", dir |-> d, text |-> files[d].text, old |-> scan[s].old]
          /\ next.text = files[d].text /\ next.old = scan[s].old
    <3>1. [step |-> "told", dir |-> d, text |-> files[d].text, old |-> scan[s].old] \in Answers
      BY <2>2 DEF Answers
    <3>2. QED
      BY <3>1
  <2>5. ~sameTick => next.text >= next.old
    BY <1>1, <1>2, <2>2, <2>4 DEF CacheInv
  <2>6. cache' \in [Sessions -> [Dirs -> FileType \cup {None}]]
    BY <1>1, <2>1, <2>3 DEF SkillsTypeOK
  <2>7. \A t \in Sessions, e \in Dirs :
          cache'[t][e] = cache[t][e] \/ (t = s /\ e = d /\ cache'[t][e] = new)
    BY <1>1, <2>1, <2>3 DEF SkillsTypeOK
  <2>8. new.mtime <= clock /\ new.text >= files[d].text
    BY <1>1, <2>2, <2>3 DEF PastInv
  <2>9. \A t \in Sessions, e \in Dirs :
          cache'[t][e] # None /\ cache'[t][e] # cache[t][e] =>
            /\ cache'[t][e].mtime <= clock
            /\ ~sameTick /\ files[e] # None => cache'[t][e].text >= files[e].text
    BY <2>7, <2>8
  <2>10. /\ registry' \in [Sessions -> Finds \cup {None}]
         /\ asOf' \in [Sessions -> Nat \cup {None}]
         /\ \A t \in Sessions : asOf'[t] # None => asOf'[t] <= edits
    BY <1>1 DEF SkillsTypeOK, PastInv
  <2>11. RegistryIsCurrent'
    BY <1>1 DEF RegistryIsCurrent, InForce, Found, Exists
  <2>12. QED
    BY <1>1, <2>1, <2>4, <2>5, <2>6, <2>9, <2>10, <2>11, TurnKeeps
<1>4. CASE ~Exists(d)
  <2>1. PICK next : /\ next = ReadFrom(s, d + 1) /\ Turn(s, next) /\ UNCHANGED cache
    BY <1>2, <1>4 DEF Fetch
  <2>2. d + 1 \in 1..3
    BY DEF Dirs
  <2>3. \/ next = [step |-> "unlisted"]
        \/ next \in Answers /\ (~sameTick => next.text >= next.old)
        \/ /\ next \in Fetches
           /\ next.old <= edits /\ next.mtime <= clock
           /\ files[next.dir] # None => files[next.dir].text >= next.old
    BY <1>1, <2>1, <2>2, ReadFromFinds
  <2>4. QED
    BY <1>1, <2>1, <2>3, QuietTurnKeeps
<1>5. QED
  BY <1>3, <1>4

LEMMA AnsweredKeeps == ASSUME SkillsInv, NEW s \in Sessions, Answered(s) PROVE SkillsInv'
  BY QuietTurnKeeps DEF Answered

\* A scan begins with nothing found.
LEMMA ScanBegins ==
  ASSUME SkillsInv, NEW s \in Sessions, BeginScan(s) \/ ReadRegistered(s) PROVE SkillsInv'
<1>1. edits \in Nat /\ edits <= edits
  BY DEF SkillsInv, SkillsTypeOK
<1>2. ASSUME NEW wipes \in BOOLEAN, NEW looks \in BOOLEAN,
             Turn(s, [step |-> "scan", dir |-> 1, found |-> None, since |-> edits,
                      wipes |-> wipes, looks |-> looks]),
             UNCHANGED <<files, registry, edits, clock, asOf, sameTick, cache>>
      PROVE  SkillsInv'
  <2>1. PICK next : /\ next = [step |-> "scan", dir |-> 1, found |-> None, since |-> edits,
                               wipes |-> wipes, looks |-> looks]
                    /\ Turn(s, next)
    BY <1>2
  <2>2. next \in Scans /\ next.since = edits /\ next.found = None /\ next.dir = 1
    BY <1>1, <2>1 DEF Scans, Dirs
  <2>3. QED
    BY <1>1, <1>2, <2>1, <2>2, QuietTurnKeeps
<1>3. \/ \E wipes, looks \in BOOLEAN :
           Turn(s, [step |-> "scan", dir |-> 1, found |-> None, since |-> edits,
                    wipes |-> wipes, looks |-> looks])
      \/ Turn(s, Resting)
  BY DEF BeginScan, ReadRegistered
<1>4. UNCHANGED <<files, registry, edits, clock, asOf, sameTick, cache>>
  BY DEF BeginScan, ReadRegistered
<1>5. QED
  BY <1>2, <1>3, <1>4, QuietTurnKeeps

LEMMA ScanFirstKeeps == ASSUME SkillsInv, NEW s \in Sessions, ScanFirst(s) PROVE SkillsInv'
<1>1. /\ SkillsTypeOK /\ scan[s] \in Scans /\ scan[s].dir = 1 /\ scan[s].found = None
      /\ scan[s].since <= edits
      /\ UNCHANGED <<files, registry, edits, clock, asOf, sameTick, cache>>
  BY ScanKinds DEF SkillsInv, ScanFirst, ScanInv, PastInv
<1>2. PICK next : /\ next = [scan[s] EXCEPT !.dir = 2, !.found = Found(1, None)]
                  /\ Turn(s, next)
  BY <1>1 DEF ScanFirst, Turn, Scans
<1>3. Found(1, None) \in Finds \cup {None}
  BY <1>1, FoundType DEF Dirs
<1>4. /\ next \in Scans /\ next.dir = 2 /\ next.found = Found(1, None)
      /\ next.since = scan[s].since
  <2>1. 2 \in Dirs
    BY DEF Dirs
  <2>2. next \in Scans
    BY <1>1, <1>2, <1>3, <2>1 DEF Scans
  <2>3. next.dir = 2 /\ next.found = Found(1, None) /\ next.since = scan[s].since
    BY <1>1, <1>2 DEF Scans
  <2>4. QED
    BY <2>2, <2>3
<1>5. next.since <= edits /\ ~(next.dir = 1)
  BY <1>1, <1>4
<1>6. QED
  BY <1>1, <1>2, <1>4, <1>5, QuietTurnKeeps

\* A scan that no change has come between installs what is in force.
LEMMA ScanLastKeeps == ASSUME SkillsInv, NEW s \in Sessions, ScanLast(s) PROVE SkillsInv'
<1>1. /\ SkillsTypeOK /\ PastInv /\ RegistryIsCurrent
      /\ scan[s] \in Scans /\ scan[s].dir = 2
      /\ scan[s].since = edits => scan[s].found = Found(1, None)
      /\ UNCHANGED <<files, edits, clock, sameTick>>
  BY ScanKinds DEF SkillsInv, SkillsAreCurrent, ScanLast, ScanInv
<1>2. PICK next \in {Resting, [step |-> "unlisted"]} : Turn(s, next)
  BY DEF ScanLast
<1>3. /\ registry' = [registry EXCEPT ![s] = Found(2, scan[s].found)]
      /\ asOf' = [asOf EXCEPT ![s] = IF scan[s].since = edits THEN edits ELSE None]
      /\ cache' = cache \/ cache' = [cache EXCEPT ![s] = [d \in Dirs |-> None]]
  BY DEF ScanLast
<1>4. Found(2, scan[s].found) \in Finds \cup {None}
  BY <1>1, FoundType DEF Dirs, Scans
<1>5. /\ registry' \in [Sessions -> Finds \cup {None}]
      /\ asOf' \in [Sessions -> Nat \cup {None}]
      /\ cache' \in [Sessions -> [Dirs -> FileType \cup {None}]]
  <2>1. registry' \in [Sessions -> Finds \cup {None}]
    BY <1>1, <1>3, <1>4 DEF SkillsTypeOK
  <2>2. asOf' \in [Sessions -> Nat \cup {None}]
    BY <1>1, <1>3 DEF SkillsTypeOK
  <2>3. cache' \in [Sessions -> [Dirs -> FileType \cup {None}]]
    <3>1. [d \in Dirs |-> None] \in [Dirs -> FileType \cup {None}]
      OBVIOUS
    <3>2. QED
      BY <1>1, <1>3, <3>1 DEF SkillsTypeOK
  <2>4. QED
    BY <2>1, <2>2, <2>3
<1>6. /\ registry'[s] = Found(2, scan[s].found)
      /\ asOf'[s] = IF scan[s].since = edits THEN edits ELSE None
      /\ \A t \in Sessions : t # s => registry'[t] = registry[t] /\ asOf'[t] = asOf[t]
  BY <1>1, <1>3 DEF SkillsTypeOK
<1>7. \A t \in Sessions : asOf'[t] # None => asOf'[t] <= edits
  BY <1>1, <1>6 DEF PastInv, SkillsTypeOK
<1>8. RegistryIsCurrent'
  <2>1. InForce' = InForce
    BY <1>1 DEF InForce, Found, Exists
  <2>2. asOf'[s] = edits => registry'[s] = InForce
    BY <1>1, <1>6, SkillsAssumption DEF InForce, SkillsTypeOK
  <2>3. QED
    BY <1>1, <1>6, <2>1, <2>2 DEF RegistryIsCurrent
<1>9. \A t \in Sessions, d \in Dirs : cache'[t][d] = None \/ cache'[t][d] = cache[t][d]
  BY <1>1, <1>3 DEF SkillsTypeOK
<1>10. QED
  BY <1>1, <1>2, <1>5, <1>7, <1>8, <1>9, TurnKeeps

\* A change of a file outdates every registry and every scan under way.
LEMMA FilesKeep ==
  ASSUME SkillsInv, NEW d \in Dirs, Edit(d) \/ Remove(d) PROVE SkillsInv'
<1>1. /\ SkillsTypeOK /\ PastInv /\ CacheInv /\ ScanInv /\ CatIsCurrent
      /\ UNCHANGED <<registry, cache, scan, asOf>> /\ edits' = edits + 1
      /\ edits \in Nat /\ clock \in Nat
  BY DEF SkillsInv, SkillsAreCurrent, SkillsTypeOK, Edit, Remove
<1>2. PICK new :
        /\ files' = [files EXCEPT ![d] = new]
        /\ \/ /\ new = None /\ UNCHANGED <<clock, sameTick>>
           \/ /\ new = File(edits + 1, clock')
              /\ \/ clock' = clock /\ sameTick'
                 \/ clock' = clock + 1 /\ sameTick' = sameTick
  <2>1. CASE Edit(d)
    <3>1. PICK now \in {clock, clock + 1} :
            /\ clock' = now /\ sameTick' = (sameTick \/ now = clock)
            /\ files' = [files EXCEPT ![d] = File(edits + 1, now)]
      BY <2>1 DEF Edit
    <3>2. clock + 1 # clock
      BY <1>1
    <3>3. CASE now = clock
      BY <3>1, <3>3
    <3>4. CASE now = clock + 1
      BY <1>1, <3>1, <3>2, <3>4 DEF SkillsTypeOK
    <3>5. QED
      BY <3>1, <3>3, <3>4
  <2>2. CASE Remove(d)
    BY <2>2 DEF Remove
  <2>3. QED
    BY <2>1, <2>2
<1>3. /\ files'[d] = new
      /\ \A e \in Dirs : e # d => files'[e] = files[e]
      /\ clock' \in Nat /\ clock <= clock' /\ edits' \in Nat /\ edits <= edits'
      /\ sameTick => sameTick'
  BY <1>1, <1>2 DEF SkillsTypeOK
<1>4. /\ new = None \/ new \in FileType
      /\ new # None => /\ new.text = edits + 1 /\ new.mtime = clock' /\ new \in FileType
                       /\ ~sameTick' => new.mtime = clock + 1
  BY <1>1, <1>2, <1>3 DEF File, FileType
<1>5. SkillsTypeOK'
  <2>1. sameTick' \in BOOLEAN
    BY <1>1, <1>2 DEF SkillsTypeOK, Edit, Remove
  <2>2. QED
    BY <1>1, <1>2, <1>3, <1>4, <2>1 DEF SkillsTypeOK
<1>6. PastInv'
  <2>1. \A e \in Dirs : files'[e] # None => files'[e].text <= edits' /\ files'[e].mtime <= clock'
    <3>1. SUFFICES ASSUME NEW e \in Dirs, files'[e] # None
                   PROVE  files'[e].text <= edits' /\ files'[e].mtime <= clock'
      OBVIOUS
    <3>2. CASE e = d
      BY <1>1, <1>3, <1>4, <3>1, <3>2
    <3>3. CASE e # d
      <4>1. files[e] \in FileType /\ files[e].text <= edits /\ files[e].mtime <= clock
        BY <1>1, <1>3, <3>1, <3>3 DEF PastInv, SkillsTypeOK
      <4>2. QED
        BY <1>1, <1>3, <3>3, <4>1 DEF FileType
    <3>4. QED
      BY <3>2, <3>3
  <2>2. \A s \in Sessions, e \in Dirs : cache'[s][e] # None => cache'[s][e].mtime <= clock'
    <3>1. SUFFICES ASSUME NEW s \in Sessions, NEW e \in Dirs, cache[s][e] # None
                   PROVE  cache[s][e].mtime <= clock'
      BY <1>1
    <3>2. cache[s][e].mtime \in Nat /\ cache[s][e].mtime <= clock
      BY <1>1, <3>1 DEF SkillsTypeOK, PastInv, FileType
    <3>3. QED
      BY <1>1, <1>3, <3>2
  <2>3. ASSUME NEW s \in Sessions
        PROVE  /\ Scanning(s, "fetch")' => scan'[s].old <= edits' /\ scan'[s].mtime <= clock'
               /\ Scanning(s, "scan")' => scan'[s].since <= edits'
               /\ asOf'[s] # None => asOf'[s] <= edits'
    <3>1. ASSUME Scanning(s, "fetch") PROVE scan[s].old <= edits' /\ scan[s].mtime <= clock'
      <4>1. scan[s].old \in Nat /\ scan[s].mtime \in Nat
        BY <1>1, <3>1, ScanKinds DEF Fetches
      <4>2. scan[s].old <= edits /\ scan[s].mtime <= clock
        BY <1>1, <3>1 DEF PastInv
      <4>3. QED
        BY <1>1, <1>3, <4>1, <4>2
    <3>2. ASSUME Scanning(s, "scan") PROVE scan[s].since <= edits'
      <4>1. scan[s].since \in Nat /\ scan[s].since <= edits
        BY <1>1, <3>2, ScanKinds DEF Scans, PastInv
      <4>2. QED
        BY <1>1, <1>3, <4>1
    <3>3. ASSUME asOf[s] # None PROVE asOf[s] <= edits'
      <4>1. asOf[s] \in Nat /\ asOf[s] <= edits
        BY <1>1, <3>3 DEF SkillsTypeOK, PastInv
      <4>2. QED
        BY <1>1, <1>3, <4>1
    <3>4. QED
      BY <1>1, <3>1, <3>2, <3>3 DEF Scanning
  <2>4. QED
    BY <2>1, <2>2, <2>3 DEF PastInv
<1>7. CacheInv'
  <2>1. SUFFICES ASSUME ~sameTick'
                 PROVE  /\ \A s \in Sessions, e \in Dirs :
                             cache[s][e] # None /\ files'[e] # None
                               /\ cache[s][e].mtime = files'[e].mtime =>
                               cache[s][e].text >= files'[e].text
                        /\ \A s \in Sessions :
                             Scanning(s, "fetch") /\ files'[scan[s].dir] # None =>
                               files'[scan[s].dir].text >= scan[s].old
    BY <1>1 DEF CacheInv, Scanning
  <2>2. ASSUME NEW s \in Sessions, NEW e \in Dirs, cache[s][e] # None, files'[e] # None,
               cache[s][e].mtime = files'[e].mtime
        PROVE  cache[s][e].text >= files'[e].text
    <3>1. cache[s][e].mtime \in Nat /\ cache[s][e].mtime <= clock
      BY <1>1, <2>2 DEF SkillsTypeOK, PastInv, FileType
    <3>2. e # d
      BY <1>1, <1>3, <1>4, <2>1, <2>2, <3>1
    <3>3. QED
      BY <1>1, <1>3, <2>1, <2>2, <3>2 DEF CacheInv
  <2>3. ASSUME NEW s \in Sessions, Scanning(s, "fetch"), files'[scan[s].dir] # None
        PROVE  files'[scan[s].dir].text >= scan[s].old
    <3>1. scan[s].dir \in Dirs /\ scan[s].old \in Nat /\ scan[s].old <= edits
      BY <1>1, <2>3, ScanKinds DEF Fetches, PastInv
    <3>2. CASE scan[s].dir = d
      BY <1>1, <1>3, <1>4, <2>3, <3>1, <3>2
    <3>3. CASE scan[s].dir # d
      BY <1>1, <1>3, <2>1, <2>3, <3>1, <3>3 DEF CacheInv
    <3>4. QED
      BY <3>2, <3>3
  <2>4. QED
    BY <2>2, <2>3
<1>8. ScanInv'
  <2>1. \A s \in Sessions : Scanning(s, "scan") => scan[s].since # edits'
    <3>1. SUFFICES ASSUME NEW s \in Sessions, Scanning(s, "scan") PROVE scan[s].since # edits'
      OBVIOUS
    <3>2. scan[s].since \in Nat /\ scan[s].since <= edits
      BY <1>1, <3>1, ScanKinds DEF Scans, PastInv
    <3>3. QED
      BY <1>1, <3>2
  <2>2. QED
    BY <1>1, <2>1 DEF ScanInv, Scanning
<1>9. CatIsCurrent'
  BY <1>1, <1>3 DEF CatIsCurrent, Scanning
<1>10. RegistryIsCurrent'
  <2>1. \A s \in Sessions : asOf[s] # edits'
    <3>1. SUFFICES ASSUME NEW s \in Sessions, asOf[s] = edits' PROVE FALSE
      OBVIOUS
    <3>2. asOf[s] # None
      BY <1>3, <3>1, SkillsAssumption
    <3>3. asOf[s] \in Nat /\ asOf[s] <= edits
      BY <1>1, <3>2 DEF SkillsTypeOK, PastInv
    <3>4. QED
      BY <1>1, <3>1, <3>3
  <2>2. QED
    BY <1>1, <2>1 DEF RegistryIsCurrent
<1>11. QED
  BY <1>5, <1>6, <1>7, <1>8, <1>9, <1>10 DEF SkillsInv, SkillsAreCurrent

\* A session that opens has what is in force.
LEMMA OpenKeepsSkills == ASSUME SkillsInv, NEW s \in Sessions, Open(s) PROVE SkillsInv'
<1>1. /\ registry' = [registry EXCEPT ![s] = InForce] /\ asOf' = [asOf EXCEPT ![s] = edits]
      /\ UNCHANGED <<files, cache, scan, edits, clock, sameTick>>
      /\ SkillsTypeOK /\ PastInv /\ CacheInv /\ ScanInv /\ SkillsAreCurrent
  BY DEF Open, SkillsInv
<1>2. InForce \in Finds \cup {None}
  <2>1. Found(1, None) \in Finds \cup {None}
    BY <1>1, FoundType DEF Dirs
  <2>2. QED
    BY <1>1, <2>1, FoundType DEF Dirs, InForce
<1>3. SkillsTypeOK'
  BY <1>1, <1>2 DEF SkillsTypeOK
<1>4. /\ registry'[s] = InForce /\ asOf'[s] = edits
      /\ \A t \in Sessions : t # s => registry'[t] = registry[t] /\ asOf'[t] = asOf[t]
  BY <1>1 DEF SkillsTypeOK
<1>5. PastInv'
  <2>1. \A t \in Sessions : asOf'[t] # None => asOf'[t] <= edits
    BY <1>1, <1>4 DEF PastInv, SkillsTypeOK
  <2>2. QED
    BY <1>1, <2>1 DEF PastInv, Scanning
<1>6. CacheInv' /\ ScanInv' /\ CatIsCurrent'
  BY <1>1 DEF CacheInv, ScanInv, SkillsAreCurrent, CatIsCurrent, Scanning, Found, Exists
<1>7. RegistryIsCurrent'
  <2>1. InForce' = InForce
    BY <1>1 DEF InForce, Found, Exists
  <2>2. QED
    BY <1>1, <1>4, <2>1 DEF SkillsAreCurrent, RegistryIsCurrent
<1>8. QED
  BY <1>3, <1>5, <1>6, <1>7 DEF SkillsInv, SkillsAreCurrent

\* A process that is started again knows nothing of the skills.
LEMMA RestartKeepsSkills == ASSUME SkillsInv, Restart PROVE SkillsInv'
<1>1. /\ \A s \in Sessions : /\ registry'[s] = None /\ scan'[s] = Resting /\ asOf'[s] = None
                             /\ \A d \in Dirs : cache'[s][d] = None
      /\ UNCHANGED <<files, edits, clock, sameTick>>
      /\ SkillsTypeOK /\ PastInv
  BY DEF Restart, SkillsInv
<1>2. SkillsTypeOK'
  BY <1>1 DEF Restart, SkillsTypeOK
<1>3. PastInv'
  BY <1>1 DEF PastInv, Scanning, Resting
<1>4. CacheInv' /\ ScanInv' /\ CatIsCurrent'
  BY <1>1 DEF CacheInv, ScanInv, CatIsCurrent, Scanning, Resting
<1>5. RegistryIsCurrent'
  BY <1>1, SkillsAssumption DEF RegistryIsCurrent, SkillsTypeOK
<1>6. QED
  BY <1>2, <1>3, <1>4, <1>5 DEF SkillsInv, SkillsAreCurrent

LEMMA SkillsKept == SkillsInv /\ [Next]_vars => SkillsInv'
<1>1. SUFFICES ASSUME SkillsInv, [Next]_vars PROVE SkillsInv'
  OBVIOUS
<1>2. CASE UNCHANGED skills
  <2>1. /\ InForce' = InForce /\ Found(1, None)' = Found(1, None)
        /\ UNCHANGED <<files, registry, cache, scan, edits, clock, asOf, sameTick>>
    BY <1>2 DEF skills, InForce, Found, Exists
  <2>2. SkillsTypeOK' /\ PastInv' /\ CacheInv'
    BY <1>1, <2>1 DEF SkillsInv, SkillsTypeOK, PastInv, CacheInv, Scanning
  <2>3. ScanInv' /\ SkillsAreCurrent'
    BY <1>1, <2>1 DEF SkillsInv, ScanInv, SkillsAreCurrent, CatIsCurrent, RegistryIsCurrent, Scanning
  <2>4. QED
    BY <2>2, <2>3 DEF SkillsInv
<1>3. \/ UNCHANGED skills \/ Restart
      \/ \E d \in Dirs : Edit(d) \/ Remove(d)
      \/ \E s \in Sessions :
           \/ Open(s) \/ Cat(s) \/ BeginScan(s) \/ Fetch(s) \/ Answered(s) \/ ReadRegistered(s)
           \/ ScanFirst(s) \/ ScanLast(s)
  BY <1>1 DEF Next, vars, Dispatch, Continue, Outside, SkillsBegin, SkillsGoesOn, FilesChange
<1>4. QED
  BY <1>1, <1>2, <1>3, CatKeeps, FetchKeeps, AnsweredKeeps, ScanBegins, ScanFirstKeeps,
     ScanLastKeeps, FilesKeep, OpenKeepsSkills, RestartKeepsSkills

LEMMA SkillsInitially == Init => SkillsInv
<1>1. SUFFICES ASSUME Init PROVE SkillsInv
  OBVIOUS
<1>2. /\ \A d \in Dirs : files[d] = None \/ files[d] = File(0, 0)
      /\ \A s \in Sessions : /\ scan[s] = Resting /\ asOf[s] = None
                             /\ \A d \in Dirs : cache[s][d] = None
      /\ edits = 0 /\ clock = 0
  BY <1>1 DEF Init, SkillsInit
<1>3. SkillsTypeOK
  <2>1. File(0, 0) \in FileType
    BY DEF File, FileType
  <2>2. QED
    BY <1>1, <2>1 DEF Init, SkillsInit, SkillsTypeOK
<1>4. PastInv
  BY <1>2 DEF PastInv, Scanning, Resting, File
<1>5. CacheInv /\ ScanInv /\ CatIsCurrent
  BY <1>2 DEF CacheInv, ScanInv, CatIsCurrent, Scanning, Resting
<1>6. RegistryIsCurrent
  BY <1>2, SkillsAssumption DEF RegistryIsCurrent
<1>7. QED
  BY <1>3, <1>4, <1>5, <1>6 DEF SkillsInv, SkillsAreCurrent

\* What is shown of a skill is never older than the file was when it was asked for, in
\* spite of the cache, and a registry no change has outdated lists the skill in force, for
\* any number of sessions and of edits (cache_loader.py, skill_registry.py).
THEOREM SkillsStayCurrent == Spec => []SkillsAreCurrent
<1>1. SkillsInv => SkillsAreCurrent
  BY DEF SkillsInv
<1>2. QED
  BY <1>1, SkillsInitially, SkillsKept, PTL DEF Spec
-----------------------------------------------------------------------------
(* The memory files: the invariant.                                        *)

Entries == [line : {"entry"}, id : Nat, day : Nat]
StmLines == [line : {"day"}, day : Nat] \union Entries
LtmLines == {Lessons, Summary} \union Entries

Notes == [step : {"note"}, entry : Entries, headed : SUBSET Nat]
LessonWrites == [step : {"lesson"}, entry : Entries,
                 read : Seq(LtmLines), text : Seq(LtmLines)]
Distillations == [step : {"distill"}, days : SUBSET Nat, shown : SUBSET Entries]
Removals == [step : {"remove"}, days : SUBSET Nat]
Rewrites == [step : {"rewrite"}, read : Seq(StmLines), text : Seq(StmLines)]

MemoryTypeOK ==
  /\ today \in Nat
  /\ stm \in Seq(StmLines) /\ ltm \in Seq(LtmLines)
  /\ op \in [Sessions -> {Idle} \union Notes \union LessonWrites \union Distillations
                           \union Removals \union Rewrites]
  /\ written \in [stm : SUBSET Entries, ltm : SUBSET Entries]

\* An entry that is about to be written has a number of its own.
Writing(s) == Doing(s, "note") \/ Doing(s, "lesson")
PendingInv ==
  \A s \in Sessions :
    Writing(s) =>
      /\ \A t \in Sessions \ {s} : Writing(t) => op[t].entry.id # op[s].entry.id
      /\ \A e \in written.stm \union written.ltm : e.id # op[s].entry.id

Once(file) ==
  \A i, j \in 1..Len(file) : file[i].line = "entry" /\ file[i] = file[j] => i = j

\* The days of a file ascend from header to header, and each entry is behind the header
\* of its day.
Sorted(file) ==
  /\ \A i, j \in 1..Len(file) :
       i < j => /\ file[i].day <= file[j].day
                /\ file[j].line = "day" => file[i].day < file[j].day
  /\ \A i \in 1..Len(file) :
       file[i].line = "entry" =>
         \E h \in 1..i - 1 : file[h].line = "day" /\ file[h].day = file[i].day

IsExpired(day) == day + DaysToKeep < today

\* What the removal of expired sections relies on: nothing was overwritten.
Intact == DaysToKeep > 0 /\ Without({"stale", "stm_unread", "torn"})
IntactAndDistilled == Intact /\ Without({"undistilled"})

\* What a lesson relies on: nothing was overwritten, and the lessons have one header.
LtmIntact == Without({"stale", "torn", "heading", "ltm_unread"})

StmInv ==
  /\ Once(stm) /\ EntriesIn(stm) \subseteq written.stm
  /\ \A l \in LinesOf(stm) : l.day <= today
  /\ Without({"stale"}) => Sorted(stm)
  /\ Intact => \A e \in written.stm \ EntriesIn(stm) : IsExpired(e.day) /\ e \in asked
  /\ IntactAndDistilled => written.stm \ EntriesIn(stm) \subseteq distilled

LtmInv ==
  /\ Once(ltm) /\ EntriesIn(ltm) \subseteq written.ltm
  /\ LtmIntact =>
       /\ \A i, j \in LessonHeaders(ltm) : i = j
       /\ written.ltm \subseteq EntriesIn(ltm)

\* What each operation may rely on, whatever the others do to the files meanwhile.
NoteInv(s) ==
  Doing(s, "note") =>
    /\ op[s].entry.day <= today /\ today <= op[s].entry.day + 1
    /\ \A day \in op[s].headed : day <= op[s].entry.day
LessonInv(s) ==
  Doing(s, "lesson") =>
    /\ Once(op[s].text) /\ EntriesIn(op[s].text) \subseteq written.ltm
    /\ LtmIntact => op[s].text = op[s].read
DistillInv(s) ==
  Doing(s, "distill") =>
    /\ \A day \in op[s].days : IsExpired(day)
    /\ Intact => \A e \in EntriesIn(stm) : e.day \in op[s].days => e \in op[s].shown
RemoveInv(s) ==
  Doing(s, "remove") =>
    /\ \A day \in op[s].days : IsExpired(day)
    /\ Intact => \A e \in EntriesIn(stm) : e.day \in op[s].days => e \in asked
    /\ IntactAndDistilled => \A e \in EntriesIn(stm) : e.day \in op[s].days => e \in distilled
RewriteInv(s) ==
  Doing(s, "rewrite") =>
    /\ Once(op[s].text) /\ LinesOf(op[s].text) \subseteq LinesOf(op[s].read)
    /\ EntriesIn(op[s].read) \subseteq written.stm
    /\ \A l \in LinesOf(op[s].read) : l.day <= today
    /\ Without({"stale"}) => Sorted(op[s].text)
    /\ Intact => \A e \in EntriesIn(op[s].read) \ EntriesIn(op[s].text) :
                   IsExpired(e.day) /\ e \in asked
    /\ IntactAndDistilled =>
         EntriesIn(op[s].read) \ EntriesIn(op[s].text) \subseteq distilled

OperationInv(s) ==
  NoteInv(s) /\ LessonInv(s) /\ DistillInv(s) /\ RemoveInv(s) /\ RewriteInv(s)

MemoryInv ==
  /\ MemoryTypeOK /\ PendingInv /\ StmInv /\ LtmInv
  /\ \A s \in Sessions : OperationInv(s)

-----------------------------------------------------------------------------
(* What the operations make of a file.                                     *)

\* The lines of the result are those of the file at these places, in order.
Selects(g, result, file, places) ==
  /\ g \in [1..Len(result) -> places]
  /\ \A i \in 1..Len(result) : result[i] = file[g[i]]
  /\ \A i, j \in 1..Len(result) : i < j => g[i] < g[j]
  /\ \A p \in places : \E i \in 1..Len(result) : g[i] = p

LEMMA KeepingSelects ==
  ASSUME NEW S, NEW file \in Seq(S), NEW places \in SUBSET (1..Len(file))
  PROVE  /\ Keeping(file, places) \in Seq(S)
         /\ \E g : Selects(g, Keeping(file, places), file, places)
<1> DEFINE result == Keeping(file, places)
<1>1. result \in Seq(S)
  BY KeepingFrom
<1>2. PICK g \in [1..Len(result) -> 1..Len(file)] :
        /\ \A k \in DOMAIN g : g[k] \in places /\ result[k] = file[g[k]]
        /\ \A k, l \in DOMAIN g : k < l => g[k] < g[l]
        /\ \A n \in 1..Len(file) : n \in places => \E k \in DOMAIN g : g[k] = n
  BY ONLY file \in Seq(S), KeepingPlaces
<1> HIDE DEF result
<1>3. DOMAIN g = 1..Len(result) /\ g \in [1..Len(result) -> places]
  BY <1>2
<1>4. Selects(g, result, file, places)
  BY <1>2, <1>3 DEF Selects
<1>5. QED
  BY <1>1, <1>4 DEF result

\* What a subsequence keeps of the lines of a file.
LEMMA SelectedLines ==
  ASSUME NEW S, NEW file \in Seq(S), NEW places \in SUBSET (1..Len(file))
  PROVE  LET text == Keeping(file, places) IN
           /\ LinesOf(text) \subseteq LinesOf(file)
           /\ Once(file) => Once(text)
           /\ \A i \in places : file[i] \in LinesOf(text)
<1> DEFINE text == Keeping(file, places)
<1>1. text \in Seq(S) /\ \E g : Selects(g, text, file, places)
  BY KeepingSelects
<1>2. PICK g : Selects(g, text, file, places)
  BY <1>1
<1> HIDE DEF text
<1>3. \A i \in 1..Len(text) : g[i] \in places /\ g[i] \in 1..Len(file) /\ text[i] = file[g[i]]
  BY <1>2 DEF Selects
<1>4. LinesOf(text) \subseteq LinesOf(file)
  BY <1>3 DEF LinesOf
<1>5. ASSUME Once(file), NEW i \in 1..Len(text), NEW j \in 1..Len(text),
             text[i].line = "entry", text[i] = text[j]
      PROVE  i = j
  <2>1. g[i] = g[j]
    BY <1>3, <1>5 DEF Once
  <2>2. g[i] \in Nat /\ i \in Nat /\ j \in Nat
    BY <1>1, <1>3
  <2>3. ~(i < j) /\ ~(j < i)
    <3>1. i < j => g[i] < g[j]
      BY <1>2 DEF Selects
    <3>2. j < i => g[j] < g[i]
      BY <1>2 DEF Selects
    <3>3. QED
      BY <3>1, <3>2, <2>1, <2>2
  <2>4. QED
    BY <2>2, <2>3
<1>6. ASSUME NEW p \in places PROVE file[p] \in LinesOf(text)
  <2>1. PICK i \in 1..Len(text) : g[i] = p
    BY <1>2 DEF Selects
  <2>2. file[p] = text[i]
    BY <2>1, <1>3
  <2>3. QED
    BY <2>2 DEF LinesOf
<1>7. QED
  BY <1>4, <1>5, <1>6 DEF text, Once

\* In a sorted file a line stands under the header of its day.
LEMMA HeaderOfDay ==
  ASSUME NEW file \in Seq(StmLines), Sorted(file), NEW i \in 1..Len(file)
  PROVE  /\ HeaderOf(file, i) \in Headers(file)
         /\ HeaderOf(file, i) <= i
         /\ file[HeaderOf(file, i)].day = file[i].day
         /\ file[i].line = "entry" => HeaderOf(file, i) < i
<1>1. /\ file[i] \in StmLines /\ file[i].line \in {"day", "entry"} /\ file[i].day \in Nat
      /\ i \in Nat
  BY DEF StmLines, Entries
<1>2. PICK h \in Headers(file) :
        h <= i /\ file[h].day = file[i].day /\ (file[i].line = "entry" => h < i)
  <2>1. CASE file[i].line = "day"
    BY <2>1, <1>1 DEF Headers
  <2>2. CASE file[i].line = "entry"
    <3>1. PICK h \in 1..i - 1 : file[h].line = "day" /\ file[h].day = file[i].day
      BY <2>2 DEF Sorted
    <3>2. h \in 1..Len(file) /\ h < i
      BY <1>1
    <3>3. QED
      BY <3>1, <3>2 DEF Headers
  <2>3. QED
    BY <2>1, <2>2, <1>1
<1>3. ASSUME NEW k \in Headers(file), k <= i PROVE k <= h
  <2>1. SUFFICES ASSUME h < k PROVE FALSE
    BY <1>2 DEF Headers
  <2>2. file[h].day < file[k].day
    BY <1>2, <2>1 DEF Sorted, Headers
  <2>3. file[k].day <= file[i].day
    <3>1. CASE k < i
      BY <3>1 DEF Sorted, Headers
    <3>2. CASE k = i
      BY <3>2, <1>1
    <3>3. QED
      BY <3>1, <3>2, <1>3, <1>1 DEF Headers
  <2>4. file[h].day \in Nat /\ file[k].day \in Nat
    BY <1>2 DEF Headers, StmLines, Entries
  <2>5. QED
    BY <2>2, <2>3, <2>4, <1>2, <1>1
<1>4. ASSUME NEW k \in Headers(file), k <= i, \A l \in Headers(file) : l <= i => l <= k
      PROVE  k = h
  <2>1. k <= h /\ h <= k
    BY <1>2, <1>3, <1>4
  <2>2. QED
    BY <2>1, <1>2 DEF Headers
<1>5. HeaderOf(file, i) = h
  BY <1>2, <1>3, <1>4 DEF HeaderOf
<1>6. QED
  BY <1>2, <1>5

\* Removing sections of a sorted file removes what is of these days, and nothing else.
LEMMA RemovalKeepsOrder ==
  ASSUME NEW file \in Seq(StmLines), Sorted(file), NEW days
  PROVE  /\ Sorted(WithoutSections(file, days))
         /\ \A e \in EntriesIn(file) \ EntriesIn(WithoutSections(file, days)) : e.day \in days
<1> DEFINE places == {i \in 1..Len(file) : \/ \A h \in Headers(file) : h > i
                                          \/ file[HeaderOf(file, i)].day \notin days}
           text == WithoutSections(file, days)
<1>1. ASSUME NEW i \in 1..Len(file) PROVE i \in places <=> file[i].day \notin days
  <2>1. HeaderOf(file, i) \in Headers(file) /\ ~(HeaderOf(file, i) > i)
    BY HeaderOfDay DEF Headers
  <2>2. file[HeaderOf(file, i)].day = file[i].day
    BY HeaderOfDay
  <2>3. QED
    BY <2>1, <2>2
<1>2. text = Keeping(file, places) /\ places \in SUBSET (1..Len(file))
  BY DEF WithoutSections
<1> HIDE DEF text, places
<1>3. text \in Seq(StmLines) /\ \E g : Selects(g, text, file, places)
  BY <1>2, KeepingSelects
<1>4. PICK g : Selects(g, text, file, places)
  BY <1>3
<1>5. \A i \in 1..Len(text) : g[i] \in places /\ g[i] \in 1..Len(file) /\ text[i] = file[g[i]]
  BY <1>2, <1>4 DEF Selects
<1>6. \A i, j \in 1..Len(text) : i < j => g[i] < g[j]
  BY <1>4 DEF Selects
<1>7. ASSUME NEW i \in 1..Len(text), NEW j \in 1..Len(text), i < j
      PROVE  text[i].day <= text[j].day /\ (text[j].line = "day" => text[i].day < text[j].day)
  BY <1>5, <1>6, <1>7 DEF Sorted
<1>8. ASSUME NEW i \in 1..Len(text), text[i].line = "entry"
      PROVE  \E h \in 1..i - 1 : text[h].line = "day" /\ text[h].day = text[i].day
  <2>1. PICK h \in 1..g[i] - 1 : file[h].line = "day" /\ file[h].day = file[g[i]].day
    BY <1>5, <1>8 DEF Sorted
  <2>2. h \in 1..Len(file) /\ h < g[i] /\ g[i] \in Nat
    BY <1>5
  <2>3. h \in places
    BY <1>1, <1>5, <2>1, <2>2
  <2>4. PICK k \in 1..Len(text) : g[k] = h
    BY <2>3, <1>4 DEF Selects
  <2>5. k < i
    <3>1. ~(i < k) /\ i # k
      BY <2>2, <2>4, <1>6
    <3>2. QED
      BY <3>1, <1>3
  <2>6. text[k].line = "day" /\ text[k].day = text[i].day /\ k \in 1..i - 1
    BY <2>1, <2>4, <2>5, <1>5, <1>3
  <2>7. QED
    BY <2>6
<1>9. ASSUME NEW e \in EntriesIn(file) \ EntriesIn(text) PROVE e.day \in days
  <2>1. PICK i \in 1..Len(file) : e = file[i]
    BY DEF EntriesIn, LinesOf
  <2>2. i \in places => e \in LinesOf(text)
    BY <2>1, <1>2, SelectedLines
  <2>3. i \notin places
    BY <2>2 DEF EntriesIn
  <2>4. QED
    BY <2>1, <2>3, <1>1
<1>10. QED
  BY <1>7, <1>8, <1>9 DEF Sorted, text

LEMMA RemovalKeepsLines ==
  ASSUME NEW file \in Seq(StmLines), NEW days
  PROVE  LET text == WithoutSections(file, days) IN
           /\ text \in Seq(StmLines)
           /\ LinesOf(text) \subseteq LinesOf(file)
           /\ Once(file) => Once(text)
<1> DEFINE places == {i \in 1..Len(file) : \/ \A h \in Headers(file) : h > i
                                          \/ file[HeaderOf(file, i)].day \notin days}
<1>1. places \in SUBSET (1..Len(file))
  OBVIOUS
<1> HIDE DEF places
<1>2. QED
  BY <1>1, KeepingSelects, SelectedLines DEF WithoutSections, places

\* Of a sorted file the distiller is shown all entries of the days in question.
LEMMA ShownIsAll ==
  ASSUME NEW file \in Seq(StmLines), NEW days
  PROVE  /\ Shown(file, days) \subseteq EntriesIn(file)
         /\ Sorted(file) => \A e \in EntriesIn(file) : e.day \in days => e \in Shown(file, days)
<1>1. Shown(file, days) \subseteq EntriesIn(file)
  BY DEF Shown, Section
<1>2. ASSUME Sorted(file), NEW e \in EntriesIn(file), e.day \in days
      PROVE  e \in Shown(file, days)
  <2>1. PICK i \in 1..Len(file) : e = file[i] /\ file[i].line = "entry"
    BY DEF EntriesIn, LinesOf
  <2>2. PICK h \in Headers(file) : HeaderOf(file, i) = h /\ h < i /\ file[h].day = e.day
    BY <2>1, <1>2, HeaderOfDay
  <2>3. ASSUME NEW k \in Headers(file), file[k].day = e.day PROVE k = h
    <3>1. h \in 1..Len(file) /\ k \in 1..Len(file) /\ file[k].line = "day" /\ file[h].line = "day"
      BY <2>2 DEF Headers
    <3>2. file[h].day \in Nat
      BY <3>1 DEF StmLines, Entries
    <3>3. ~(h < k) /\ ~(k < h)
      BY <3>1, <3>2, <2>2, <2>3, <1>2 DEF Sorted
    <3>4. QED
      BY <3>1, <3>3
  <2>4. h = CHOOSE l \in Headers(file) :
              /\ file[l].day = e.day
              /\ \A k \in Headers(file) : file[k].day = e.day => k <= l
    <3>1. \A k \in Headers(file) : file[k].day = e.day => k <= h
      BY <2>3 DEF Headers
    <3>2. QED
      BY <3>1, <2>2, <2>3
  <2>5. i \in h + 1..Len(file)
    BY <2>2 DEF Headers
  <2>6. e \in Under(file, h)
    BY <2>1, <2>2, <2>5 DEF Under
  <2>7. e \in Section(file, e.day)
    BY <2>4, <2>6 DEF Section
  <2>8. QED
    BY <2>7, <1>2 DEF Shown
<1>3. QED
  BY <1>1, <1>2

\* What a note makes of the file: one entry more, behind what was there.
LEMMA NotedLines ==
  ASSUME NEW file \in Seq(StmLines), NEW headed, NEW entry \in Entries
  PROVE  LET text == Noted(file, headed, entry) IN
           /\ text \in Seq(StmLines)
           /\ LinesOf(text) \subseteq LinesOf(file) \union {DayHeader(entry.day), entry}
           /\ EntriesIn(text) = EntriesIn(file) \union {entry}
           /\ Once(file) /\ entry \notin EntriesIn(file) => Once(text)
<1> DEFINE text == Noted(file, headed, entry)
           new == IF entry.day \in headed THEN <<>> ELSE <<DayHeader(entry.day)>>
           n == Len(file)
           m == Len(file) + Len(new)
<1>1. entry \in StmLines /\ entry.line = "entry" /\ entry.day \in Nat
      /\ DayHeader(entry.day) \in StmLines /\ DayHeader(entry.day).line = "day"
  BY DEF StmLines, Entries, DayHeader
<1>2. new \in Seq(StmLines) /\ (new = <<>> \/ new = <<DayHeader(entry.day)>>)
  BY <1>1
<1>3. text = file \o new \o <<entry>>
  BY DEF Noted
<1> HIDE DEF text, new
<1>4. n \in Nat /\ m \in Nat /\ (m = n \/ m = n + 1) /\ (m = n + 1 => new = <<DayHeader(entry.day)>>)
  <2>1. CASE new = <<>>
    <3>1. Len(new) = 0
      BY <2>1
    <3>2. QED
      BY <3>1
  <2>2. CASE new = <<DayHeader(entry.day)>>
    <3>1. Len(new) = 1
      BY <2>2
    <3>2. QED
      BY <2>2, <3>1
  <2>3. QED
    BY <1>2, <2>1, <2>2
<1>5. text \in Seq(StmLines) /\ Len(text) = m + 1
  BY <1>1, <1>2, <1>3
<1>6. \A i \in 1..n : text[i] = file[i]
  BY <1>1, <1>2, <1>3
<1>7. m = n + 1 => text[n + 1] = DayHeader(entry.day)
  BY <1>1, <1>2, <1>3, <1>4
<1>8. text[m + 1] = entry
  BY <1>1, <1>2, <1>3, <1>4
<1>9. ASSUME NEW i \in 1..Len(text)
      PROVE  \/ i \in 1..n /\ text[i] = file[i]
             \/ i = m + 1 /\ text[i] = entry
             \/ i = n + 1 /\ m = n + 1 /\ text[i] = DayHeader(entry.day)
  <2>1. i \in 1..n \/ i = m + 1 \/ (i = n + 1 /\ m = n + 1)
    BY <1>4, <1>5
  <2>2. QED
    BY <2>1, <1>6, <1>7, <1>8
<1>10. LinesOf(text) \subseteq LinesOf(file) \union {DayHeader(entry.day), entry}
  BY <1>9 DEF LinesOf
<1>11. LinesOf(file) \union {entry} \subseteq LinesOf(text)
  <2>1. 1..n \subseteq 1..Len(text) /\ m + 1 \in 1..Len(text)
    BY <1>4, <1>5
  <2>2. QED
    BY <2>1, <1>6, <1>8 DEF LinesOf
<1>12. EntriesIn(text) = EntriesIn(file) \union {entry}
  BY <1>1, <1>10, <1>11 DEF EntriesIn
<1>13. ASSUME Once(file), entry \notin EntriesIn(file),
              NEW i \in 1..Len(text), NEW j \in 1..Len(text),
              text[i].line = "entry", text[i] = text[j]
       PROVE  i = j
  <2>1. \A k \in 1..n : file[k] # entry
    BY <1>1, <1>13 DEF EntriesIn, LinesOf
  <2>2. \/ i \in 1..n /\ text[i] = file[i]
        \/ i = m + 1 /\ text[i] = entry
    BY <1>1, <1>9, <1>13
  <2>3. \/ j \in 1..n /\ text[j] = file[j]
        \/ j = m + 1 /\ text[j] = entry
    BY <1>1, <1>9, <1>13
  <2>4. CASE i \in 1..n /\ text[i] = file[i]
    <3>1. j \in 1..n /\ text[j] = file[j]
      BY <2>1, <2>3, <2>4, <1>13
    <3>2. QED
      BY <2>4, <3>1, <1>13 DEF Once
  <2>5. CASE i = m + 1 /\ text[i] = entry
    BY <2>1, <2>3, <2>5, <1>13
  <2>6. QED
    BY <2>2, <2>4, <2>5
<1>14. QED
  BY <1>5, <1>10, <1>12, <1>13 DEF text, Once

\* A note keeps a file sorted if it knows its headers, and no day is after its own.
LEMMA NotedKeepsOrder ==
  ASSUME NEW file \in Seq(StmLines), Sorted(file), NEW entry \in Entries,
         \A day \in Headed(file) : day <= entry.day
  PROVE  Sorted(Noted(file, Headed(file), entry))
<1> DEFINE text == Noted(file, Headed(file), entry)
           new == IF entry.day \in Headed(file) THEN <<>> ELSE <<DayHeader(entry.day)>>
           n == Len(file)
           m == Len(file) + Len(new)
<1>1. entry \in StmLines /\ entry.line = "entry" /\ entry.day \in Nat
      /\ DayHeader(entry.day) \in StmLines /\ DayHeader(entry.day).line = "day"
      /\ DayHeader(entry.day).day = entry.day
  BY DEF StmLines, Entries, DayHeader
<1>2. new \in Seq(StmLines) /\ (new = <<>> \/ new = <<DayHeader(entry.day)>>)
      /\ (new = <<>> => entry.day \in Headed(file))
      /\ (new = <<DayHeader(entry.day)>> => entry.day \notin Headed(file))
  BY <1>1
<1>3. text = file \o new \o <<entry>>
  BY DEF Noted
<1> HIDE DEF text, new
<1>4. /\ n \in Nat /\ m \in Nat
      /\ \/ m = n /\ new = <<>>
         \/ m = n + 1 /\ new = <<DayHeader(entry.day)>>
  <2>1. CASE new = <<>>
    <3>1. Len(new) = 0
      BY <2>1
    <3>2. QED
      BY <2>1, <3>1
  <2>2. CASE new = <<DayHeader(entry.day)>>
    <3>1. Len(new) = 1
      BY <2>2
    <3>2. QED
      BY <2>2, <3>1
  <2>3. QED
    BY <1>2, <2>1, <2>2
<1>5. Len(text) = m + 1
  BY <1>1, <1>2, <1>3
<1>6. \A i \in 1..n : text[i] = file[i]
  BY <1>1, <1>2, <1>3
<1>7. m = n + 1 => text[n + 1] = DayHeader(entry.day)
  BY <1>1, <1>2, <1>3, <1>4
<1>8. text[m + 1] = entry
  BY <1>1, <1>2, <1>3, <1>4
<1>9. ASSUME NEW i \in 1..Len(text)
      PROVE  \/ i \in 1..n /\ text[i] = file[i]
             \/ i = m + 1 /\ text[i] = entry
             \/ i = n + 1 /\ m = n + 1 /\ text[i] = DayHeader(entry.day)
  <2>1. i \in 1..n \/ i = m + 1 \/ (i = n + 1 /\ m = n + 1)
    BY <1>4, <1>5
  <2>2. QED
    BY <2>1, <1>6, <1>7, <1>8
<1>10. ASSUME NEW i \in 1..n
       PROVE  /\ file[i].day \in Headed(file) /\ file[i].day <= entry.day /\ file[i].day \in Nat
  <2>1. PICK h \in Headers(file) : file[h].day = file[i].day
    BY HeaderOfDay
  <2>2. file[h].day \in Headed(file)
    BY DEF Headed
  <2>3. file[i].day \in Nat
    BY DEF StmLines, Entries
  <2>4. QED
    BY <2>1, <2>2, <2>3
<1>11. ASSUME NEW i \in 1..Len(text), NEW j \in 1..Len(text), i < j
       PROVE  text[i].day <= text[j].day /\ (text[j].line = "day" => text[i].day < text[j].day)
  <2>1. CASE j \in 1..n
    <3>1. i \in 1..n
      BY <2>1, <1>11, <1>4
    <3>2. QED
      BY <2>1, <3>1, <1>6, <1>11 DEF Sorted
  <2>2. CASE j = m + 1
    <3>1. text[j] = entry
      BY <2>2, <1>8
    <3>2. text[i].day <= entry.day
      BY <1>1, <1>9, <1>10
    <3>3. QED
      BY <3>1, <3>2, <1>1
  <2>3. CASE j = n + 1 /\ m = n + 1
    <3>1. i \in 1..n /\ text[j] = DayHeader(entry.day)
      BY <2>3, <1>4, <1>7, <1>11
    <3>2. file[i].day # entry.day
      BY <2>3, <3>1, <1>2, <1>4, <1>10
    <3>3. text[i].day < entry.day
      BY <3>1, <3>2, <1>1, <1>6, <1>10
    <3>4. QED
      BY <3>1, <3>3, <1>1, <1>6, <1>10
  <2>4. QED
    BY <2>1, <2>2, <2>3, <1>9
<1>12. ASSUME NEW i \in 1..Len(text), text[i].line = "entry"
       PROVE  \E h \in 1..i - 1 : text[h].line = "day" /\ text[h].day = text[i].day
  <2>1. CASE i \in 1..n /\ text[i] = file[i]
    <3>1. PICK h \in 1..i - 1 : file[h].line = "day" /\ file[h].day = file[i].day
      BY <2>1, <1>12 DEF Sorted
    <3>2. h \in 1..n
      BY <2>1, <1>4
    <3>3. QED
      BY <2>1, <3>1, <3>2, <1>6
  <2>2. CASE i = m + 1 /\ m = n + 1
    <3>1. n + 1 \in 1..i - 1
      BY <2>2, <1>4
    <3>2. QED
      BY <2>2, <3>1, <1>1, <1>7, <1>8
  <2>3. CASE i = m + 1 /\ m = n
    <3>1. entry.day \in Headed(file)
      BY <2>3, <1>2, <1>4
    <3>2. PICK h \in Headers(file) : file[h].day = entry.day
      BY <3>1 DEF Headed
    <3>3. h \in 1..n /\ file[h].line = "day" /\ h \in 1..i - 1
      BY <2>3, <1>4 DEF Headers
    <3>4. QED
      BY <2>3, <3>2, <3>3, <1>6, <1>8
  <2>4. QED
    BY <2>1, <2>2, <2>3, <1>1, <1>4, <1>9, <1>12
<1>13. QED
  BY <1>11, <1>12 DEF Sorted, text

\* Where the lessons begin, and where the first section of them ends.
LEMMA LessonPlaces ==
  ASSUME NEW file \in Seq(LtmLines), Lessons \in LinesOf(file)
  PROVE  LET first == FirstOf(LessonHeaders(file))
             rest  == LessonHeaders(file) \ {first}
             end   == IF rest = {} THEN Len(file) ELSE FirstOf(rest) - 1
         IN  /\ first \in LessonHeaders(file) /\ end \in first..Len(file)
             /\ (\A i, j \in LessonHeaders(file) : i = j) => end = Len(file)
<1> DEFINE first == FirstOf(LessonHeaders(file))
           rest  == LessonHeaders(file) \ {first}
           end   == IF rest = {} THEN Len(file) ELSE FirstOf(rest) - 1
<1>1. ASSUME NEW places \in SUBSET (1..Len(file)), places # {}
      PROVE  FirstOf(places) \in places /\ \A k \in places : FirstOf(places) <= k
  <2>1. places \in SUBSET Nat
    OBVIOUS
  <2>2. \E i \in places : \A k \in places : i <= k
    BY <2>1, <1>1, LeastNumber
  <2>3. QED
    BY <2>2 DEF FirstOf
<1>2. LessonHeaders(file) \in SUBSET (1..Len(file)) /\ LessonHeaders(file) # {}
  BY DEF LessonHeaders, LinesOf
<1>3. first \in LessonHeaders(file) /\ \A k \in LessonHeaders(file) : first <= k
  BY <1>1, <1>2
<1>4. first \in 1..Len(file) /\ rest \in SUBSET (1..Len(file))
  BY <1>2, <1>3
<1>5. end \in first..Len(file)
  <2>1. CASE rest = {}
    BY <2>1, <1>4
  <2>2. CASE rest # {}
    <3> DEFINE next == FirstOf(rest)
    <3>1. next \in rest
      BY <2>2, <1>1, <1>4
    <3>2. next \in 1..Len(file) /\ first < next
      <4> HIDE DEF next, first
      <4>1. next \in LessonHeaders(file) /\ next # first
        BY <3>1
      <4>2. next \in 1..Len(file) /\ first <= next
        BY <4>1, <1>2, <1>3
      <4>3. QED
        BY <4>1, <4>2, <1>4
    <3>3. end = next - 1
      BY <2>2
    <3> HIDE DEF next, first, end
    <3>4. QED
      BY <3>2, <3>3, <1>4
  <2>3. QED
    BY <2>1, <2>2
<1>6. (\A i, j \in LessonHeaders(file) : i = j) => rest = {}
  BY <1>3
<1>7. QED
  BY <1>3, <1>5, <1>6

\* What a lesson makes of the file it was read from.
LEMMA LessonLines ==
  ASSUME NEW file \in Seq(LtmLines), Lessons \in LinesOf(file), NEW entry \in Entries
  PROVE  LET text == WithLesson(file, entry) IN
           /\ text \in Seq(LtmLines)
           /\ EntriesIn(text) \subseteq EntriesIn(file) \union {entry}
           /\ entry \in EntriesIn(text)
           /\ Once(file) /\ entry \notin EntriesIn(file) => Once(text)
           /\ (\A i, j \in LessonHeaders(file) : i = j) =>
                /\ EntriesIn(file) \subseteq EntriesIn(text)
                /\ \A i, j \in LessonHeaders(text) : i = j
<1> DEFINE first == FirstOf(LessonHeaders(file))
           rest  == LessonHeaders(file) \ {first}
           end   == IF rest = {} THEN Len(file) ELSE FirstOf(rest) - 1
           text  == WithLesson(file, entry)
           n     == Len(file)
<1>1. /\ first \in LessonHeaders(file) /\ end \in first..Len(file)
      /\ (\A i, j \in LessonHeaders(file) : i = j) => end = Len(file)
  BY LessonPlaces
<1>2. text = SubSeq(file, 1, first) \o <<entry>> \o SubSeq(file, first + 1, end)
  BY DEF WithLesson
<1> HIDE DEF first, rest, end, text
<1>3. /\ first \in 1..n /\ end \in first..n /\ n \in Nat /\ file[first] = Lessons
      /\ first \in Nat /\ end \in Nat
  BY <1>1 DEF LessonHeaders
<1>4. entry \in LtmLines /\ entry.line = "entry" /\ entry # Lessons
  BY DEF LtmLines, Entries, Lessons
<1>5. /\ SubSeq(file, 1, first) \in Seq(LtmLines) /\ Len(SubSeq(file, 1, first)) = first
      /\ \A i \in 1..first : SubSeq(file, 1, first)[i] = file[i]
  BY <1>3
<1>6. /\ SubSeq(file, first + 1, end) \in Seq(LtmLines)
      /\ Len(SubSeq(file, first + 1, end)) = end - first
      /\ \A i \in 1..end - first : SubSeq(file, first + 1, end)[i] = file[first + i]
  BY <1>3
<1>7. text \in Seq(LtmLines) /\ Len(text) = end + 1
  BY <1>2, <1>3, <1>4, <1>5, <1>6
<1>8. \A i \in 1..first : text[i] = file[i]
  BY <1>2, <1>3, <1>4, <1>5, <1>6
<1>9. text[first + 1] = entry
  BY <1>2, <1>3, <1>4, <1>5, <1>6
<1>10. ASSUME NEW i \in first + 2..end + 1 PROVE text[i] = file[i - 1]
  <2>1. i - (first + 1) \in 1..end - first /\ i \in Nat /\ i > first + 1
    BY <1>3
  <2>2. text[i] = SubSeq(file, first + 1, end)[i - (first + 1)]
    BY <2>1, <1>2, <1>3, <1>4, <1>5, <1>6
  <2>3. first + (i - (first + 1)) = i - 1
    BY <2>1, <1>3
  <2>4. QED
    BY <2>1, <2>2, <2>3, <1>6
<1> DEFINE from(i) == IF i <= first THEN i ELSE i - 1
<1>11. ASSUME NEW i \in 1..Len(text), i # first + 1
       PROVE  from(i) \in 1..end /\ text[i] = file[from(i)]
  <2>1. CASE i <= first
    BY <2>1, <1>3, <1>7, <1>8
  <2>2. CASE i > first
    <3>1. i \in first + 2..end + 1
      BY <2>2, <1>3, <1>7, <1>11
    <3>2. QED
      BY <2>2, <3>1, <1>3, <1>10
  <2>3. QED
    BY <2>1, <2>2, <1>3
<1>12. ASSUME NEW k \in 1..end
       PROVE  \E i \in 1..Len(text) : i # first + 1 /\ text[i] = file[k]
  <2>1. CASE k <= first
    BY <2>1, <1>3, <1>7, <1>8
  <2>2. CASE k > first
    <3>1. k + 1 \in first + 2..end + 1 /\ (k + 1) - 1 = k /\ k + 1 \in 1..Len(text)
      BY <2>2, <1>3, <1>7
    <3>2. QED
      BY <3>1, <1>3, <1>10
  <2>3. QED
    BY <2>1, <2>2, <1>3
<1>13. EntriesIn(text) \subseteq EntriesIn(file) \union {entry}
  <2>1. \A i \in 1..Len(text) : text[i] = entry \/ text[i] \in LinesOf(file)
    <3>1. ASSUME NEW i \in 1..Len(text), i # first + 1 PROVE text[i] \in LinesOf(file)
      <4>1. from(i) \in 1..n /\ text[i] = file[from(i)]
        BY <3>1, <1>3, <1>11
      <4>2. QED
        BY <4>1 DEF LinesOf
    <3>2. QED
      BY <3>1, <1>9
  <2>2. QED
    BY <2>1 DEF EntriesIn, LinesOf
<1>14. entry \in EntriesIn(text)
  <2>1. first + 1 \in 1..Len(text)
    BY <1>3, <1>7
  <2>2. QED
    BY <2>1, <1>4, <1>9 DEF EntriesIn, LinesOf
<1>15. ASSUME Once(file), entry \notin EntriesIn(file),
              NEW i \in 1..Len(text), NEW j \in 1..Len(text),
              text[i].line = "entry", text[i] = text[j]
       PROVE  i = j
  <2>1. \A k \in 1..n : file[k] # entry
    BY <1>4, <1>15 DEF EntriesIn, LinesOf
  <2>2. ASSUME NEW k \in 1..Len(text), text[k] = entry PROVE k = first + 1
    <3>1. SUFFICES ASSUME k # first + 1 PROVE FALSE
      OBVIOUS
    <3>2. from(k) \in 1..n /\ text[k] = file[from(k)]
      BY <3>1, <1>3, <1>11
    <3>3. QED
      BY <3>2, <2>1, <2>2
  <2>3. CASE i = first + 1 \/ j = first + 1
    BY <2>2, <2>3, <1>9, <1>15
  <2>4. CASE i # first + 1 /\ j # first + 1
    <3>1. from(i) \in 1..n /\ from(j) \in 1..n /\ text[i] = file[from(i)] /\ text[j] = file[from(j)]
      BY <2>4, <1>3, <1>11
    <3>2. from(i) = from(j)
      BY <3>1, <1>15 DEF Once
    <3>3. QED
      BY <3>2, <2>4, <1>3, <1>7
  <2>5. QED
    BY <2>3, <2>4
<1>16. ASSUME \A i, j \in LessonHeaders(file) : i = j
       PROVE  EntriesIn(file) \subseteq EntriesIn(text)
  <2>1. end = n
    BY <1>16, <1>1
  <2>2. LinesOf(file) \subseteq LinesOf(text)
    BY <2>1, <1>12 DEF LinesOf
  <2>3. QED
    BY <2>2 DEF EntriesIn
<1>17. ASSUME \A i, j \in LessonHeaders(file) : i = j,
              NEW i \in LessonHeaders(text), NEW j \in LessonHeaders(text)
       PROVE  i = j
  <2>1. /\ i \in 1..Len(text) /\ j \in 1..Len(text) /\ text[i] = Lessons /\ text[j] = Lessons
        /\ i # first + 1 /\ j # first + 1
    BY <1>4, <1>9 DEF LessonHeaders
  <2>2. from(i) \in LessonHeaders(file) /\ from(j) \in LessonHeaders(file)
    BY <2>1, <1>3, <1>11 DEF LessonHeaders
  <2>3. from(i) = from(j)
    BY <2>2, <1>17
  <2>4. QED
    BY <2>1, <2>3, <1>3, <1>7
<1>18. QED
  BY <1>7, <1>13, <1>14, <1>15, <1>16, <1>17 DEF text, Once

-----------------------------------------------------------------------------
(* The memory files: the steps.                                            *)

LEMMA OperationKinds ==
  ASSUME MemoryTypeOK, NEW s \in Sessions
  PROVE  /\ Doing(s, "note") => op[s] \in Notes /\ op[s].entry \in Entries
         /\ Doing(s, "lesson") => op[s] \in LessonWrites /\ op[s].entry \in Entries
         /\ Doing(s, "distill") => op[s] \in Distillations
         /\ Doing(s, "remove") => op[s] \in Removals
         /\ Doing(s, "rewrite") => op[s] \in Rewrites
BY DEF MemoryTypeOK, Doing, Idle, Notes, LessonWrites, Distillations, Removals, Rewrites

\* What others rely on survives a step that leaves their operation alone: the histories
\* only grow, and no entry of an expired day is added.
LEMMA OthersGoOn ==
  ASSUME MemoryInv, NEW t \in Sessions, op'[t] = op[t],
         today' = today \/ (today' = today + 1 /\ (Doing(t, "note") => op[t].entry.day = today)),
         written.stm \subseteq written'.stm, written.ltm \subseteq written'.ltm,
         asked \subseteq asked', distilled \subseteq distilled', spoiled \subseteq spoiled',
         Intact' => \A e \in EntriesIn(stm') \ EntriesIn(stm) : ~IsExpired(e.day)
  PROVE  OperationInv(t)'
<1>1. OperationInv(t) /\ today \in Nat /\ today' \in Nat /\ today <= today'
  BY DEF MemoryInv, MemoryTypeOK
<1>2. \A step : Doing(t, step)' <=> Doing(t, step)
  BY DEF Doing
<1>3. DaysToKeep \in Nat
  BY MemoryAssumption
<1>4. (Intact' => Intact) /\ (IntactAndDistilled' => IntactAndDistilled)
      /\ (Without({"stale"})' => Without({"stale"}))
  BY DEF Intact, IntactAndDistilled, Without
<1>5. \A day \in Nat : IsExpired(day) => IsExpired(day)'
  BY <1>1, <1>3 DEF IsExpired
<1>6. NoteInv(t)'
  <2>1. SUFFICES ASSUME Doing(t, "note") PROVE NoteInv(t)'
    BY <1>2 DEF NoteInv
  <2>2. op[t].entry.day \in Nat
    BY <2>1, OperationKinds DEF MemoryInv, Entries
  <2>3. QED
    BY <2>1, <2>2, <1>1 DEF OperationInv, NoteInv
<1>7. LessonInv(t)'
  <2>1. LtmIntact' => LtmIntact
    BY <1>1 DEF LtmIntact, Without
  <2>2. QED
    BY <2>1, <1>1, <1>2 DEF OperationInv, LessonInv
<1>8. DistillInv(t)'
  <2>1. SUFFICES ASSUME Doing(t, "distill") PROVE DistillInv(t)'
    BY <1>2 DEF DistillInv
  <2>2. op[t].days \in SUBSET Nat /\ \A day \in op[t].days : IsExpired(day)
    BY <2>1, <1>1, OperationKinds DEF MemoryInv, Distillations, OperationInv, DistillInv
  <2>3. \A day \in op[t].days : IsExpired(day)'
    BY <2>2, <1>5
  <2>4. ASSUME Intact', NEW e \in EntriesIn(stm'), e.day \in op[t].days PROVE e \in op[t].shown
    <3>1. e \in EntriesIn(stm)
      BY <2>2, <2>4
    <3>2. QED
      BY <3>1, <2>1, <2>4, <1>1, <1>4 DEF OperationInv, DistillInv
  <2>5. EntriesIn(stm)' = EntriesIn(stm')
    BY DEF EntriesIn
  <2>6. QED
    BY <2>3, <2>4, <2>5 DEF DistillInv
<1>9. RemoveInv(t)'
  <2>1. SUFFICES ASSUME Doing(t, "remove") PROVE RemoveInv(t)'
    BY <1>2 DEF RemoveInv
  <2>2. op[t].days \in SUBSET Nat /\ \A day \in op[t].days : IsExpired(day)
    BY <2>1, <1>1, OperationKinds DEF MemoryInv, Removals, OperationInv, RemoveInv
  <2>3. \A day \in op[t].days : IsExpired(day)'
    BY <2>2, <1>5
  <2>4. ASSUME Intact', NEW e \in EntriesIn(stm'), e.day \in op[t].days
        PROVE  e \in asked' /\ (IntactAndDistilled' => e \in distilled')
    <3>1. e \in EntriesIn(stm)
      BY <2>2, <2>4
    <3>2. QED
      BY <3>1, <2>1, <2>4, <1>1, <1>4 DEF OperationInv, RemoveInv
  <2>5. EntriesIn(stm)' = EntriesIn(stm') /\ (IntactAndDistilled' => Intact')
    BY DEF EntriesIn, IntactAndDistilled
  <2>6. QED
    BY <2>3, <2>4, <2>5 DEF RemoveInv
<1>10. RewriteInv(t)'
  <2>1. SUFFICES ASSUME Doing(t, "rewrite") PROVE RewriteInv(t)'
    BY <1>2 DEF RewriteInv
  <2>2. /\ Once(op[t].text) /\ LinesOf(op[t].text) \subseteq LinesOf(op[t].read)
        /\ EntriesIn(op[t].read) \subseteq written.stm
        /\ \A l \in LinesOf(op[t].read) : l.day <= today
        /\ Without({"stale"}) => Sorted(op[t].text)
        /\ Intact => \A e \in EntriesIn(op[t].read) \ EntriesIn(op[t].text) :
                       IsExpired(e.day) /\ e \in asked
        /\ IntactAndDistilled =>
             EntriesIn(op[t].read) \ EntriesIn(op[t].text) \subseteq distilled
    BY <2>1, <1>1 DEF OperationInv, RewriteInv
  <2>3. op[t].read \in Seq(StmLines)
    BY <2>1, OperationKinds DEF MemoryInv, Rewrites
  <2>4. \A l \in LinesOf(op[t].read) : l.day \in Nat
    BY <2>3 DEF LinesOf, StmLines, Entries
  <2>5. \A l \in LinesOf(op[t].read) : l.day <= today'
    BY <2>2, <2>4, <1>1
  <2>6. Intact' => \A e \in EntriesIn(op[t].read) \ EntriesIn(op[t].text) :
                     IsExpired(e.day)' /\ e \in asked'
    <3>1. \A e \in EntriesIn(op[t].read) : e.day \in Nat
      BY <2>4 DEF EntriesIn
    <3>2. QED
      BY <2>2, <3>1, <1>4, <1>5
  <2>7. QED
    BY <2>2, <2>5, <2>6, <1>4 DEF RewriteInv
<1>11. QED
  BY <1>6, <1>7, <1>8, <1>9, <1>10 DEF OperationInv

LEMMA StmGoesOn ==
  ASSUME MemoryInv, stm' = stm, written'.stm = written.stm, today' \in Nat, today <= today',
         asked \subseteq asked', distilled \subseteq distilled', spoiled \subseteq spoiled'
  PROVE  StmInv'
<1>1. StmInv /\ today \in Nat /\ DaysToKeep \in Nat /\ stm \in Seq(StmLines)
  BY MemoryAssumption DEF MemoryInv, MemoryTypeOK
<1>2. (Intact' => Intact) /\ (IntactAndDistilled' => IntactAndDistilled)
      /\ (Without({"stale"})' => Without({"stale"}))
  BY DEF Intact, IntactAndDistilled, Without
<1>3. \A l \in LinesOf(stm) : l.day \in Nat
  BY <1>1 DEF LinesOf, StmLines, Entries
<1>4. \A e \in written.stm : e.day \in Nat
  BY DEF MemoryInv, MemoryTypeOK, Entries
<1>5. \A l \in LinesOf(stm) : l.day <= today'
  BY <1>1, <1>3 DEF StmInv
<1>6. \A e \in written.stm : IsExpired(e.day) => IsExpired(e.day)'
  BY <1>1, <1>4 DEF IsExpired
<1>7. QED
  BY <1>1, <1>2, <1>5, <1>6 DEF StmInv

LEMMA LtmGoesOn ==
  ASSUME MemoryInv, ltm' = ltm, written'.ltm = written.ltm, spoiled \subseteq spoiled'
  PROVE  LtmInv'
BY DEF MemoryInv, LtmInv, LtmIntact, Without

\* A step of a session that leaves it with nothing more to write.
LEMMA PendingGoesOn ==
  ASSUME MemoryInv, NEW s \in Sessions, NEW next, op' = [op EXCEPT ![s] = next],
         next.step \notin {"note", "lesson"},
         \A e \in written'.stm \union written'.ltm :
            e \in written.stm \union written.ltm \/ (Writing(s) /\ e = op[s].entry)
  PROVE  PendingInv'
<1>1. \A t \in Sessions : op'[t] = IF t = s THEN next ELSE op[t]
  BY DEF MemoryInv, MemoryTypeOK
<1>2. ~Writing(s)' /\ \A t \in Sessions \ {s} : Writing(t)' <=> Writing(t)
  BY <1>1 DEF Writing, Doing
<1>3. ASSUME NEW t \in Sessions, Writing(t)'
      PROVE  /\ \A u \in Sessions \ {t} : Writing(u)' => op'[u].entry.id # op'[t].entry.id
             /\ \A e \in written'.stm \union written'.ltm : e.id # op'[t].entry.id
  <2>1. t # s /\ Writing(t) /\ op'[t] = op[t]
    BY <1>1, <1>2, <1>3
  <2>2. /\ \A u \in Sessions \ {t} : Writing(u) => op[u].entry.id # op[t].entry.id
        /\ \A e \in written.stm \union written.ltm : e.id # op[t].entry.id
    BY <2>1 DEF MemoryInv, PendingInv
  <2>3. \A u \in Sessions \ {t} : Writing(u)' => op'[u].entry.id # op'[t].entry.id
    BY <2>1, <2>2, <1>1, <1>2
  <2>4. \A e \in written'.stm \union written'.ltm : e.id # op'[t].entry.id
    BY <2>1, <2>2
  <2>5. QED
    BY <2>3, <2>4
<1>4. QED
  BY <1>3 DEF PendingInv

\* The other sessions, when one has taken a step.
LEMMA OtherOperations ==
  ASSUME MemoryInv, NEW s \in Sessions, NEW next, op' = [op EXCEPT ![s] = next],
         today' = today,
         written.stm \subseteq written'.stm, written.ltm \subseteq written'.ltm,
         asked \subseteq asked', distilled \subseteq distilled', spoiled \subseteq spoiled',
         Intact' => \A e \in EntriesIn(stm') \ EntriesIn(stm) : ~IsExpired(e.day),
         OperationInv(s)'
  PROVE  \A t \in Sessions : OperationInv(t)'
<1>1. ASSUME NEW t \in Sessions, t # s PROVE OperationInv(t)'
  <2>1. op'[t] = op[t]
    BY <1>1 DEF MemoryInv, MemoryTypeOK
  <2>2. QED
    BY <2>1, OthersGoOn
<1>2. QED
  BY <1>1

LEMMA FreshEntry ==
  ASSUME MemoryTypeOK, NEW entry \in NewEntries
  PROVE  /\ entry \in Entries /\ entry.day = today
         /\ \A e \in written.stm \union written.ltm : e.id # entry.id
         /\ \A t \in Sessions : Writing(t) => op[t].entry.id # entry.id
<1>1. entry \in [line : {"entry"}, id : 1..MaxEntries, day : {today}] /\ entry.id \notin Used
  BY DEF NewEntries
<1>2. entry \in Entries /\ entry.day = today
  BY <1>1, MemoryAssumption DEF Entries, MemoryTypeOK
<1>3. \A e \in written.stm \union written.ltm : e.id \in Used
  BY DEF Used
<1>4. \A t \in Sessions : Writing(t) => op[t].entry.id \in Used
  BY DEF Used, Writing, Doing
<1>5. QED
  BY <1>1, <1>2, <1>3, <1>4

\* Beginning to write an entry: it has a number nobody has.
LEMMA PendingBegins ==
  ASSUME MemoryInv, NEW s \in Sessions, NEW next, op' = [op EXCEPT ![s] = next],
         next.entry \in NewEntries, UNCHANGED written
  PROVE  PendingInv'
<1>1. \A t \in Sessions : op'[t] = IF t = s THEN next ELSE op[t]
  BY DEF MemoryInv, MemoryTypeOK
<1>2. \A t \in Sessions \ {s} : Writing(t)' <=> Writing(t)
  BY <1>1 DEF Writing, Doing
<1>3. /\ \A e \in written.stm \union written.ltm : e.id # next.entry.id
      /\ \A t \in Sessions : Writing(t) => op[t].entry.id # next.entry.id
  BY FreshEntry DEF MemoryInv
<1>4. ASSUME NEW t \in Sessions, Writing(t)'
      PROVE  /\ \A u \in Sessions \ {t} : Writing(u)' => op'[u].entry.id # op'[t].entry.id
             /\ \A e \in written'.stm \union written'.ltm : e.id # op'[t].entry.id
  <2>1. CASE t = s
    BY <2>1, <1>1, <1>2, <1>3
  <2>2. CASE t # s
    <3>1. op'[t] = op[t] /\ Writing(t)
      BY <2>2, <1>1, <1>2, <1>4
    <3>2. /\ \A u \in Sessions \ {t} : Writing(u) => op[u].entry.id # op[t].entry.id
          /\ \A e \in written.stm \union written.ltm : e.id # op[t].entry.id
      BY <3>1 DEF MemoryInv, PendingInv
    <3>3. ASSUME NEW u \in Sessions \ {t}, Writing(u)' PROVE op'[u].entry.id # op'[t].entry.id
      <4>1. CASE u = s
        BY <4>1, <3>1, <1>1, <1>3
      <4>2. CASE u # s
        BY <4>2, <3>1, <3>2, <3>3, <1>1, <1>2
      <4>3. QED
        BY <4>1, <4>2
    <3>4. QED
      BY <3>1, <3>2, <3>3
  <2>3. QED
    BY <2>1, <2>2
<1>5. QED
  BY <1>4 DEF PendingInv

LEMMA BeginNoteKeeps ==
  ASSUME MemoryInv, NEW s \in Sessions, BeginNote(s)
  PROVE  MemoryInv'
<1>1. PICK entry \in NewEntries :
        op' = [op EXCEPT ![s] = [step |-> "note", entry |-> entry, headed |-> Headed(stm)]]
  BY DEF BeginNote, Goes
<1> DEFINE next == [step |-> "note", entry |-> entry, headed |-> Headed(stm)]
<1>2. UNCHANGED <<today, stm, ltm, written, asked, distilled, spoiled>>
  BY DEF BeginNote, NoMishap
<1>3. MemoryTypeOK /\ StmInv /\ today \in Nat /\ op'[s] = next
  BY <1>1 DEF MemoryInv, MemoryTypeOK
<1>4. entry \in Entries /\ entry.day = today
  BY <1>3, FreshEntry
<1>5. \A day \in Headed(stm) : day \in Nat /\ day <= today
  <2>1. ASSUME NEW h \in Headers(stm) PROVE stm[h].day \in Nat /\ stm[h].day <= today
    <3>1. stm[h] \in LinesOf(stm)
      BY DEF Headers, LinesOf
    <3>2. stm[h] \in StmLines
      BY <1>3 DEF Headers, MemoryTypeOK
    <3>3. QED
      BY <3>1, <3>2, <1>3 DEF StmInv, StmLines, Entries
  <2>2. QED
    BY <2>1 DEF Headed
<1>6. next \in Notes
  BY <1>4, <1>5 DEF Notes
<1>7. MemoryTypeOK'
  BY <1>1, <1>2, <1>3, <1>6 DEF MemoryTypeOK
<1>8. PendingInv'
  <2>1. next.entry \in NewEntries /\ UNCHANGED written
    BY <1>2
  <2>2. QED
    BY <1>1, <2>1, PendingBegins
<1>9. StmInv' /\ LtmInv'
  BY <1>2, <1>3, StmGoesOn, LtmGoesOn
<1>10. OperationInv(s)'
  <2>1. Doing(s, "note")' /\ \A step \in {"lesson", "distill", "remove", "rewrite"} : ~Doing(s, step)'
    BY <1>3 DEF Doing
  <2>2. NoteInv(s)'
    BY <1>2, <1>3, <1>4, <1>5 DEF NoteInv
  <2>3. QED
    BY <2>1, <2>2 DEF OperationInv, LessonInv, DistillInv, RemoveInv, RewriteInv
<1>11. \A t \in Sessions : OperationInv(t)'
  BY <1>1, <1>2, <1>10, OtherOperations
<1>12. QED
  BY <1>7, <1>8, <1>9, <1>11 DEF MemoryInv

LEMMA EmptyFile == /\ <<>> \in Seq(StmLines) /\ <<>> \in Seq(LtmLines)
                   /\ LinesOf(<<>>) = {} /\ EntriesIn(<<>>) = {}
                   /\ Once(<<>>) /\ Sorted(<<>>)
                   /\ LessonHeaders(<<>>) = {}
<1>1. <<>> \in Seq(StmLines) /\ <<>> \in Seq(LtmLines) /\ Len(<<>>) = 0
  OBVIOUS
<1>2. 1..Len(<<>>) = {}
  <2>1. 1..0 = {}
    OBVIOUS
  <2>2. QED
    BY <2>1, <1>1
<1>3. QED
  BY <1>1, <1>2 DEF LinesOf, EntriesIn, Once, Sorted, LessonHeaders

LEMMA BeginLessonKeeps ==
  ASSUME MemoryInv, NEW s \in Sessions, BeginLesson(s)
  PROVE  MemoryInv'
<1>1. PICK entry \in NewEntries, text \in {ltm, <<>>} :
        /\ op' = [op EXCEPT ![s] = [step |-> "lesson", entry |-> entry,
                                     read |-> ltm, text |-> text]]
        /\ IF text = ltm THEN NoMishap ELSE Mishap("ltm_unread")
  BY DEF BeginLesson, Goes
<1> DEFINE next == [step |-> "lesson", entry |-> entry, read |-> ltm, text |-> text]
<1>2. /\ UNCHANGED <<today, stm, ltm, written, asked, distilled>>
      /\ spoiled \subseteq spoiled' /\ (text = ltm \/ "ltm_unread" \in spoiled')
  BY <1>1 DEF BeginLesson, NoMishap, Mishap
<1>3. MemoryTypeOK /\ LtmInv /\ today \in Nat /\ op'[s] = next /\ ltm \in Seq(LtmLines)
  BY <1>1 DEF MemoryInv, MemoryTypeOK
<1>4. /\ next \in LessonWrites
      /\ Once(text) /\ EntriesIn(text) \subseteq written.ltm
  <2>1. text \in Seq(LtmLines)
    BY <1>3, EmptyFile
  <2>2. Once(text) /\ EntriesIn(text) \subseteq written.ltm
    BY <1>3, EmptyFile DEF LtmInv
  <2>3. QED
    BY <1>3, <2>1, <2>2, FreshEntry DEF LessonWrites
<1>5. MemoryTypeOK'
  BY <1>1, <1>2, <1>3, <1>4 DEF MemoryTypeOK
<1>6. PendingInv'
  <2>1. next.entry \in NewEntries /\ UNCHANGED written
    BY <1>2
  <2>2. QED
    BY <1>1, <2>1, PendingBegins
<1>7. StmInv' /\ LtmInv'
  <2>1. today' \in Nat /\ today <= today' /\ asked \subseteq asked' /\ distilled \subseteq distilled'
    BY <1>2, <1>3
  <2>2. QED
    BY <1>2, <2>1, StmGoesOn, LtmGoesOn
<1>8. OperationInv(s)'
  <2>1. \A step \in {"note", "distill", "remove", "rewrite"} : ~Doing(s, step)'
    BY <1>3 DEF Doing
  <2>2. LtmIntact' => text = ltm
    BY <1>2 DEF LtmIntact, Without
  <2>3. LessonInv(s)'
    BY <1>2, <1>3, <1>4, <2>2 DEF LessonInv
  <2>4. QED
    BY <2>1, <2>3 DEF OperationInv, NoteInv, DistillInv, RemoveInv, RewriteInv
<1>9. \A t \in Sessions : OperationInv(t)'
  BY <1>1, <1>2, <1>8, OtherOperations
<1>10. QED
  BY <1>5, <1>6, <1>7, <1>9 DEF MemoryInv

LEMMA BeginManageKeeps ==
  ASSUME MemoryInv, NEW s \in Sessions, BeginManage(s)
  PROVE  MemoryInv'
<1> DEFINE next == [step |-> "distill", days |-> Expired(stm), shown |-> Shown(stm, Expired(stm))]
<1>1. op' = [op EXCEPT ![s] = next]
  BY DEF BeginManage, Goes
<1>2. UNCHANGED <<today, stm, ltm, written, asked, distilled, spoiled>>
  BY DEF BeginManage, NoMishap
<1>3. MemoryTypeOK /\ StmInv /\ today \in Nat /\ op'[s] = next /\ stm \in Seq(StmLines)
  BY <1>1 DEF MemoryInv, MemoryTypeOK
<1>4. Expired(stm) \in SUBSET Nat /\ \A day \in Expired(stm) : IsExpired(day)
  <2>1. \A h \in Headers(stm) : stm[h].day \in Nat
    BY <1>3 DEF Headers, StmLines, Entries
  <2>2. QED
    BY <2>1 DEF Expired, Headed, IsExpired
<1>5. Shown(stm, Expired(stm)) \subseteq EntriesIn(stm) /\ EntriesIn(stm) \subseteq Entries
  <2>1. EntriesIn(stm) \subseteq Entries
    BY <1>3 DEF StmInv, MemoryTypeOK
  <2>2. QED
    BY <2>1, <1>3, ShownIsAll
<1>6. next \in Distillations
  BY <1>4, <1>5 DEF Distillations
<1>7. MemoryTypeOK'
  BY <1>1, <1>2, <1>3, <1>6 DEF MemoryTypeOK
<1>8. PendingInv'
  <2>1. next.step \notin {"note", "lesson"}
    OBVIOUS
  <2>2. QED
    BY <1>1, <1>2, <2>1, PendingGoesOn
<1>9. StmInv' /\ LtmInv'
  BY <1>2, <1>3, StmGoesOn, LtmGoesOn
<1>10. OperationInv(s)'
  <2>1. \A step \in {"note", "lesson", "remove", "rewrite"} : ~Doing(s, step)'
    BY <1>3 DEF Doing
  <2>2. \A day \in op'[s].days : IsExpired(day)'
    BY <1>2, <1>3, <1>4 DEF IsExpired
  <2>3. Intact => \A e \in EntriesIn(stm) : e.day \in next.days => e \in next.shown
    BY <1>3, ShownIsAll DEF StmInv, Intact, Without
  <2>4. Intact' => Intact
    BY <1>2 DEF Intact, Without
  <2>5. DistillInv(s)'
    BY <2>2, <2>3, <2>4, <1>2, <1>3 DEF DistillInv
  <2>6. QED
    BY <2>1, <2>5 DEF OperationInv, NoteInv, LessonInv, RemoveInv, RewriteInv
<1>11. \A t \in Sessions : OperationInv(t)'
  BY <1>1, <1>2, <1>10, OtherOperations
<1>12. QED
  BY <1>7, <1>8, <1>9, <1>11 DEF MemoryInv

\* A session that has nothing under way relies on nothing.
LEMMA IdleInv ==
  ASSUME MemoryTypeOK, NEW s \in Sessions, op' = [op EXCEPT ![s] = Idle]
  PROVE  OperationInv(s)' /\ Idle.step \notin {"note", "lesson"}
<1>1. op'[s].step = "idle"
  BY DEF MemoryTypeOK, Idle
<1>2. QED
  BY <1>1 DEF OperationInv, NoteInv, LessonInv, DistillInv, RemoveInv, RewriteInv, Doing, Idle

LEMMA EndNoteKeeps ==
  ASSUME MemoryInv, NEW s \in Sessions, EndNote(s)
  PROVE  MemoryInv'
<1> DEFINE entry == op[s].entry
           headed == op[s].headed
<1>1. /\ Doing(s, "note") /\ stm' = Noted(stm, headed, entry)
      /\ written' = [written EXCEPT !.stm = @ \union {entry}]
      /\ spoiled' = IF Headed(stm) # headed THEN spoiled \union {"stale"} ELSE spoiled
      /\ op' = [op EXCEPT ![s] = Idle]
      /\ UNCHANGED <<today, ltm, asked, distilled>>
  BY DEF EndNote, Stale, Goes
<1>2. /\ MemoryTypeOK /\ StmInv /\ today \in Nat /\ stm \in Seq(StmLines) /\ DaysToKeep \in Nat
      /\ entry \in Entries /\ entry.day \in Nat /\ op[s] \in Notes
  BY <1>1, MemoryAssumption, OperationKinds DEF MemoryInv, MemoryTypeOK, Entries
<1>3. entry.day <= today /\ today <= entry.day + 1 /\ \A day \in headed : day <= entry.day
  BY <1>1 DEF MemoryInv, OperationInv, NoteInv
<1>4. \A e \in written.stm \union written.ltm : e.id # entry.id
  BY <1>1 DEF MemoryInv, PendingInv, Writing
<1>5. written'.stm = written.stm \union {entry} /\ written'.ltm = written.ltm
      /\ written' \in [stm : SUBSET Entries, ltm : SUBSET Entries]
  BY <1>1, <1>2 DEF MemoryTypeOK
<1>6. /\ stm' \in Seq(StmLines)
      /\ LinesOf(stm') \subseteq LinesOf(stm) \union {DayHeader(entry.day), entry}
      /\ EntriesIn(stm') = EntriesIn(stm) \union {entry}
      /\ Once(stm) /\ entry \notin EntriesIn(stm) => Once(stm')
  BY <1>1, <1>2, NotedLines
<1>7. MemoryTypeOK'
  BY <1>1, <1>2, <1>5, <1>6 DEF MemoryTypeOK
<1>8. PendingInv'
  BY <1>1, <1>2, <1>5, IdleInv, PendingGoesOn DEF Writing
<1>9. LtmInv'
  BY <1>1, <1>5, LtmGoesOn
<1>10. /\ Without({"stale"})' => Without({"stale"}) /\ headed = Headed(stm)
       /\ Intact' => Intact /\ Without({"stale"})'
       /\ IntactAndDistilled' => IntactAndDistilled
  BY <1>1 DEF Without, Intact, IntactAndDistilled
<1>11. StmInv'
  <2>1. Once(stm')
    BY <1>2, <1>4, <1>6 DEF StmInv
  <2>2. EntriesIn(stm') \subseteq written'.stm
    BY <1>2, <1>5, <1>6 DEF StmInv
  <2>3. \A l \in LinesOf(stm') : l.day <= today
    BY <1>2, <1>3, <1>6 DEF StmInv, DayHeader
  <2>4. Without({"stale"})' => Sorted(stm')
    BY <1>1, <1>2, <1>3, <1>10, NotedKeepsOrder DEF StmInv
  <2>5. written'.stm \ EntriesIn(stm') \subseteq written.stm \ EntriesIn(stm)
    BY <1>5, <1>6
  <2>6. Intact' => \A e \in written'.stm \ EntriesIn(stm') : IsExpired(e.day)' /\ e \in asked'
    BY <2>5, <1>1, <1>2, <1>10 DEF StmInv, IsExpired
  <2>7. IntactAndDistilled' => written'.stm \ EntriesIn(stm') \subseteq distilled'
    BY <2>5, <1>1, <1>2, <1>10 DEF StmInv
  <2>8. QED
    BY <2>1, <2>2, <2>3, <2>4, <2>6, <2>7, <1>1 DEF StmInv, EntriesIn
<1>12. Intact' => \A e \in EntriesIn(stm') \ EntriesIn(stm) : ~IsExpired(e.day)
  <2>1. Intact => ~IsExpired(entry.day)
    BY <1>2, <1>3 DEF IsExpired, Intact
  <2>2. QED
    BY <2>1, <1>6, <1>10
<1>13. \A t \in Sessions : OperationInv(t)'
  <2>1. OperationInv(s)'
    BY <1>1, <1>2, IdleInv
  <2>2. spoiled \subseteq spoiled' /\ written.stm \subseteq written'.stm
    BY <1>1, <1>5
  <2>3. QED
    BY <2>1, <2>2, <1>1, <1>5, <1>12, OtherOperations
<1>14. QED
  BY <1>7, <1>8, <1>9, <1>11, <1>13 DEF MemoryInv

\* What appending makes of a file.
LEMMA AppendedLines ==
  ASSUME NEW S, NEW file \in Seq(S), NEW more \in Seq(S)
  PROVE  LET text == file \o more IN
           /\ text \in Seq(S)
           /\ LinesOf(text) = LinesOf(file) \union LinesOf(more)
           /\ EntriesIn(text) = EntriesIn(file) \union EntriesIn(more)
           /\ Once(file) /\ Once(more) /\ EntriesIn(file) \intersect EntriesIn(more) = {}
                => Once(text)
           /\ /\ Lessons \notin LinesOf(file)
              /\ \A i, j \in LessonHeaders(more) : i = j
              => \A i, j \in LessonHeaders(text) : i = j
           /\ /\ Lessons \notin LinesOf(more)
              /\ \A i, j \in LessonHeaders(file) : i = j
              => \A i, j \in LessonHeaders(text) : i = j
<1> DEFINE text == file \o more
           n == Len(file)
           m == Len(more)
<1>1. text \in Seq(S) /\ Len(text) = n + m /\ n \in Nat /\ m \in Nat
  OBVIOUS
<1>2. \A i \in 1..n : text[i] = file[i] /\ i \in 1..Len(text)
  OBVIOUS
<1>3. \A i \in 1..m : text[n + i] = more[i] /\ n + i \in 1..Len(text)
  OBVIOUS
<1>4. ASSUME NEW i \in 1..Len(text) PROVE i \in 1..n \/ (i - n \in 1..m /\ i = n + (i - n))
  BY <1>1
<1> HIDE DEF text
<1>5. LinesOf(text) = LinesOf(file) \union LinesOf(more)
  <2>1. ASSUME NEW i \in 1..Len(text) PROVE text[i] \in LinesOf(file) \union LinesOf(more)
    <3>1. CASE i \in 1..n
      BY <3>1, <1>2 DEF LinesOf
    <3>2. CASE i - n \in 1..m /\ i = n + (i - n)
      <4>1. text[i] = more[i - n]
        BY <3>2, <1>3
      <4>2. QED
        BY <3>2, <4>1 DEF LinesOf
    <3>3. QED
      BY <3>1, <3>2, <1>4
  <2>2. \A i \in 1..n : file[i] \in LinesOf(text)
    BY <1>2 DEF LinesOf
  <2>3. \A i \in 1..m : more[i] \in LinesOf(text)
    BY <1>3 DEF LinesOf
  <2>4. QED
    BY <2>1, <2>2, <2>3 DEF LinesOf
<1>6. EntriesIn(text) = EntriesIn(file) \union EntriesIn(more)
  BY <1>5 DEF EntriesIn
\* Two equal lines are both of the file or both of what was appended.
<1>7. ASSUME NEW i \in 1..Len(text), NEW j \in 1..Len(text), text[i] = text[j],
             ~ (text[i] \in LinesOf(file) /\ text[i] \in LinesOf(more))
      PROVE  \/ i \in 1..n /\ j \in 1..n /\ file[i] = text[i] /\ file[j] = text[i]
             \/ /\ i - n \in 1..m /\ j - n \in 1..m /\ i = n + (i - n) /\ j = n + (j - n)
                /\ more[i - n] = text[i] /\ more[j - n] = text[i]
  <2>1. ASSUME NEW k \in 1..Len(text), text[k] = text[i]
        PROVE  \/ k \in 1..n /\ file[k] = text[i] /\ text[i] \in LinesOf(file)
               \/ /\ k - n \in 1..m /\ k = n + (k - n) /\ more[k - n] = text[i]
                  /\ text[i] \in LinesOf(more)
    <3>1. CASE k \in 1..n
      BY <3>1, <2>1, <1>2 DEF LinesOf
    <3>2. CASE k - n \in 1..m /\ k = n + (k - n)
      <4>1. text[k] = more[k - n]
        BY <3>2, <1>3
      <4>2. QED
        BY <3>2, <4>1, <2>1 DEF LinesOf
    <3>3. QED
      BY <3>1, <3>2, <1>4
  <2>2. QED
    BY <2>1, <1>7
<1>8. ASSUME Once(file), Once(more), EntriesIn(file) \intersect EntriesIn(more) = {}
      PROVE  Once(text)
  <2>1. SUFFICES ASSUME NEW i \in 1..Len(text), NEW j \in 1..Len(text),
                        text[i].line = "entry", text[i] = text[j]
                 PROVE  i = j
    BY DEF Once
  <2>2. ~ (text[i] \in LinesOf(file) /\ text[i] \in LinesOf(more))
    BY <2>1, <1>8 DEF EntriesIn
  <2>3. CASE i \in 1..n /\ j \in 1..n /\ file[i] = text[i] /\ file[j] = text[i]
    BY <2>1, <2>3, <1>8 DEF Once
  <2>4. CASE /\ i - n \in 1..m /\ j - n \in 1..m /\ i = n + (i - n) /\ j = n + (j - n)
             /\ more[i - n] = text[i] /\ more[j - n] = text[i]
    <3>1. i - n = j - n
      BY <2>1, <2>4, <1>8 DEF Once
    <3>2. QED
      BY <2>4, <3>1
  <2>5. QED
    BY <2>1, <2>2, <2>3, <2>4, <1>7
<1>9. ASSUME Lessons \notin LinesOf(file) \/ Lessons \notin LinesOf(more),
             \A i, j \in LessonHeaders(file) : i = j, \A i, j \in LessonHeaders(more) : i = j,
             NEW i \in LessonHeaders(text), NEW j \in LessonHeaders(text)
      PROVE  i = j
  <2>1. i \in 1..Len(text) /\ j \in 1..Len(text) /\ text[i] = Lessons /\ text[j] = Lessons
    BY DEF LessonHeaders
  <2>2. CASE i \in 1..n /\ j \in 1..n /\ file[i] = text[i] /\ file[j] = text[i]
    BY <2>1, <2>2, <1>9 DEF LessonHeaders
  <2>3. CASE /\ i - n \in 1..m /\ j - n \in 1..m /\ i = n + (i - n) /\ j = n + (j - n)
             /\ more[i - n] = text[i] /\ more[j - n] = text[i]
    <3>1. i - n \in LessonHeaders(more) /\ j - n \in LessonHeaders(more)
      BY <2>1, <2>3 DEF LessonHeaders
    <3>2. i - n = j - n
      BY <3>1, <1>9
    <3>3. QED
      BY <2>3, <3>2
  <2>4. QED
    BY <2>1, <2>2, <2>3, <1>7, <1>9
<1>10. /\ Lessons \notin LinesOf(file) => LessonHeaders(file) = {}
       /\ Lessons \notin LinesOf(more) => LessonHeaders(more) = {}
  BY DEF LessonHeaders, LinesOf
<1>11. QED
  BY <1>1, <1>5, <1>6, <1>8, <1>9, <1>10 DEF text

\* What is appended to the lessons' file.
LEMMA HeadingLines ==
  /\ <<Summary>> \in Seq(LtmLines) /\ <<Summary, Lessons>> \in Seq(LtmLines)
  /\ LinesOf(<<Summary>>) = {Summary} /\ LinesOf(<<Summary, Lessons>>) = {Summary, Lessons}
  /\ Once(<<Summary>>) /\ Once(<<Summary, Lessons>>)
  /\ \A entry \in Entries :
       /\ <<Lessons, entry>> \in Seq(LtmLines)
       /\ LinesOf(<<Lessons, entry>>) = {Lessons, entry}
       /\ Once(<<Lessons, entry>>)
       /\ \A i, j \in LessonHeaders(<<Lessons, entry>>) : i = j
<1>1. Summary \in LtmLines /\ Lessons \in LtmLines /\ Summary # Lessons
      /\ \A entry \in Entries : entry \in LtmLines /\ entry # Lessons
  BY DEF LtmLines, Entries, Summary, Lessons
<1>2. ASSUME NEW a \in LtmLines, NEW b \in LtmLines
      PROVE  /\ <<a>> \in Seq(LtmLines) /\ <<a, b>> \in Seq(LtmLines)
             /\ LinesOf(<<a>>) = {a} /\ LinesOf(<<a, b>>) = {a, b}
             /\ Once(<<a>>) /\ (a # b => Once(<<a, b>>))
             /\ (b # Lessons => \A i, j \in LessonHeaders(<<a, b>>) : i = j)
  <2>1. /\ <<a>> \in Seq(LtmLines) /\ <<a, b>> \in Seq(LtmLines)
        /\ Len(<<a>>) = 1 /\ Len(<<a, b>>) = 2 /\ <<a>>[1] = a /\ <<a, b>>[1] = a /\ <<a, b>>[2] = b
    OBVIOUS
  <2>2. 1..1 = {1} /\ 1..2 = {1, 2}
    OBVIOUS
  <2>3. LinesOf(<<a>>) = {a} /\ LinesOf(<<a, b>>) = {a, b}
    BY <2>1, <2>2 DEF LinesOf
  <2>4. Once(<<a>>) /\ (a # b => Once(<<a, b>>))
    BY <2>1, <2>2 DEF Once
  <2>5. b # Lessons => \A i, j \in LessonHeaders(<<a, b>>) : i = j
    BY <2>1, <2>2 DEF LessonHeaders
  <2>6. QED
    BY <2>1, <2>3, <2>4, <2>5
<1>3. QED
  BY <1>1, <1>2

LEMMA EndLessonKeeps ==
  ASSUME MemoryInv, NEW s \in Sessions, EndLesson(s)
  PROVE  MemoryInv'
<1> DEFINE entry == op[s].entry
           text  == op[s].text
<1>1. /\ Doing(s, "lesson")
      /\ ltm' = IF Lessons \in LinesOf(text) THEN WithLesson(text, entry)
                                             ELSE ltm \o <<Lessons, entry>>
      /\ written' = [written EXCEPT !.ltm = @ \union {entry}]
      /\ spoiled' = IF ltm # op[s].read THEN spoiled \union {"stale"} ELSE spoiled
      /\ op' = [op EXCEPT ![s] = Idle]
      /\ UNCHANGED <<today, stm, asked, distilled>>
  BY DEF EndLesson, Stale, Goes
<1>2. /\ MemoryTypeOK /\ LtmInv /\ today \in Nat /\ ltm \in Seq(LtmLines)
      /\ entry \in Entries /\ entry.line = "entry" /\ text \in Seq(LtmLines)
  BY <1>1, OperationKinds DEF MemoryInv, MemoryTypeOK, LessonWrites, Entries
<1>3. /\ Once(text) /\ EntriesIn(text) \subseteq written.ltm
      /\ LtmIntact => text = op[s].read
  BY <1>1 DEF MemoryInv, OperationInv, LessonInv
<1>4. entry \notin written.ltm
  BY <1>1 DEF MemoryInv, PendingInv, Writing
<1>5. written'.ltm = written.ltm \union {entry} /\ written'.stm = written.stm
      /\ written' \in [stm : SUBSET Entries, ltm : SUBSET Entries]
  BY <1>1, <1>2 DEF MemoryTypeOK
<1>6. /\ LtmIntact' =>
           text = ltm /\ LtmIntact
      /\ spoiled \subseteq spoiled'
  BY <1>1, <1>3 DEF LtmIntact, Without
<1>7. /\ ltm' \in Seq(LtmLines) /\ Once(ltm') /\ EntriesIn(ltm') \subseteq written'.ltm
      /\ LtmIntact' =>
           /\ \A i, j \in LessonHeaders(ltm') : i = j
           /\ written'.ltm \subseteq EntriesIn(ltm')
  <2>1. CASE Lessons \in LinesOf(text)
    <3>1. ltm' = WithLesson(text, entry)
      BY <2>1, <1>1
    <3>2. /\ ltm' \in Seq(LtmLines)
          /\ EntriesIn(ltm') \subseteq EntriesIn(text) \union {entry}
          /\ entry \in EntriesIn(ltm')
          /\ Once(text) /\ entry \notin EntriesIn(text) => Once(ltm')
          /\ (\A i, j \in LessonHeaders(text) : i = j) =>
                /\ EntriesIn(text) \subseteq EntriesIn(ltm')
                /\ \A i, j \in LessonHeaders(ltm') : i = j
      BY <2>1, <3>1, <1>2, LessonLines
    <3>3. Once(ltm') /\ EntriesIn(ltm') \subseteq written'.ltm
      BY <3>2, <1>3, <1>4, <1>5
    <3>4. ASSUME LtmIntact'
          PROVE  /\ \A i, j \in LessonHeaders(ltm') : i = j
                 /\ written'.ltm \subseteq EntriesIn(ltm')
      <4>1. /\ \A i, j \in LessonHeaders(text) : i = j
            /\ written.ltm \subseteq EntriesIn(text)
        BY <3>4, <1>2, <1>6 DEF LtmInv
      <4>2. QED
        BY <4>1, <3>2, <1>5
    <3>5. QED
      BY <3>2, <3>3, <3>4
  <2>2. CASE Lessons \notin LinesOf(text)
    <3> DEFINE more == <<Lessons, entry>>
    <3>1. ltm' = ltm \o more
      BY <2>2, <1>1
    <3>2. /\ more \in Seq(LtmLines) /\ LinesOf(more) = {Lessons, entry} /\ Once(more)
          /\ \A i, j \in LessonHeaders(more) : i = j
      BY <1>2, HeadingLines
    <3>3. EntriesIn(more) = {entry}
      BY <3>2, <1>2 DEF EntriesIn, Lessons
    <3> HIDE DEF more
    <3>4. /\ ltm' \in Seq(LtmLines) /\ EntriesIn(ltm') = EntriesIn(ltm) \union {entry}
          /\ Once(ltm) /\ EntriesIn(ltm) \intersect {entry} = {} => Once(ltm')
          /\ Lessons \notin LinesOf(ltm) => \A i, j \in LessonHeaders(ltm') : i = j
      BY <3>1, <3>2, <3>3, <1>2, AppendedLines
    <3>5. Once(ltm') /\ EntriesIn(ltm') \subseteq written'.ltm
      BY <3>4, <1>2, <1>4, <1>5 DEF LtmInv
    <3>6. ASSUME LtmIntact'
          PROVE  /\ \A i, j \in LessonHeaders(ltm') : i = j
                 /\ written'.ltm \subseteq EntriesIn(ltm')
      BY <3>4, <3>6, <2>2, <1>2, <1>5, <1>6 DEF LtmInv
    <3>7. QED
      BY <3>4, <3>5, <3>6
  <2>3. QED
    BY <2>1, <2>2
<1>8. MemoryTypeOK'
  BY <1>1, <1>2, <1>5, <1>7 DEF MemoryTypeOK
<1>9. PendingInv'
  BY <1>1, <1>2, <1>5, IdleInv, PendingGoesOn DEF Writing
<1>10. StmInv'
  BY <1>1, <1>2, <1>5, <1>6, StmGoesOn
<1>11. LtmInv'
  BY <1>7 DEF LtmInv, EntriesIn, LessonHeaders
<1>12. \A t \in Sessions : OperationInv(t)'
  <2>1. OperationInv(s)'
    BY <1>1, <1>2, IdleInv
  <2>2. QED
    BY <2>1, <1>1, <1>5, <1>6, OtherOperations
<1>13. QED
  BY <1>8, <1>9, <1>10, <1>11, <1>12 DEF MemoryInv

LEMMA DistillKeeps ==
  ASSUME MemoryInv, NEW s \in Sessions, Distill(s)
  PROVE  MemoryInv'
<1> DEFINE next == [step |-> "remove", days |-> op[s].days]
<1>1. /\ Doing(s, "distill") /\ op' = [op EXCEPT ![s] = next]
      /\ asked' = asked \union op[s].shown
      /\ UNCHANGED <<today, stm, written>>
      /\ spoiled \subseteq spoiled' /\ distilled \subseteq distilled'
      /\ distilled' = distilled \union op[s].shown \/ "undistilled" \in spoiled'
      /\ \/ ltm' = ltm
         \/ ltm' = ltm \o <<Summary>>
         \/ ltm' = ltm \o <<Summary, Lessons>> /\ "heading" \in spoiled'
  <2>1. Append(ltm, Summary) = ltm \o <<Summary>>
    BY DEF MemoryInv, MemoryTypeOK
  <2>2. QED
    BY <2>1 DEF Distill, Goes, Mishap, NoMishap
<1>2. /\ MemoryTypeOK /\ LtmInv /\ StmInv /\ today \in Nat /\ ltm \in Seq(LtmLines)
      /\ op[s] \in Distillations /\ op[s].days \in SUBSET Nat
  BY <1>1, OperationKinds DEF MemoryInv, MemoryTypeOK, Distillations
<1>3. op'[s] = next /\ next \in Removals
  BY <1>1, <1>2 DEF MemoryTypeOK, Removals
<1>4. /\ ltm' \in Seq(LtmLines) /\ Once(ltm') /\ EntriesIn(ltm') = EntriesIn(ltm)
      /\ "heading" \notin spoiled' =>
           ((\A i, j \in LessonHeaders(ltm) : i = j) => \A i, j \in LessonHeaders(ltm') : i = j)
  <2>1. CASE ltm' = ltm
    BY <2>1, <1>2 DEF LtmInv
  <2>2. CASE ltm' = ltm \o <<Summary>>
    <3> DEFINE more == <<Summary>>
    <3>1. more \in Seq(LtmLines) /\ LinesOf(more) = {Summary} /\ Once(more) /\ ltm' = ltm \o more
      BY <2>2, HeadingLines
    <3>2. EntriesIn(more) = {} /\ Lessons \notin LinesOf(more)
      BY <3>1 DEF EntriesIn, Summary, Lessons
    <3> HIDE DEF more
    <3>3. /\ ltm' \in Seq(LtmLines) /\ EntriesIn(ltm') = EntriesIn(ltm) \union EntriesIn(more)
          /\ Once(ltm) /\ Once(more) /\ EntriesIn(ltm) \intersect EntriesIn(more) = {}
               => Once(ltm')
          /\ /\ Lessons \notin LinesOf(more)
             /\ \A i, j \in LessonHeaders(ltm) : i = j
             => \A i, j \in LessonHeaders(ltm') : i = j
      BY <3>1, <1>2, AppendedLines
    <3>4. QED
      BY <3>1, <3>2, <3>3, <1>2 DEF LtmInv
  <2>3. CASE ltm' = ltm \o <<Summary, Lessons>> /\ "heading" \in spoiled'
    <3> DEFINE more == <<Summary, Lessons>>
    <3>1. more \in Seq(LtmLines) /\ LinesOf(more) = {Summary, Lessons} /\ Once(more)
          /\ ltm' = ltm \o more
      BY <2>3, HeadingLines
    <3>2. EntriesIn(more) = {}
      BY <3>1 DEF EntriesIn, Summary, Lessons
    <3> HIDE DEF more
    <3>3. /\ ltm' \in Seq(LtmLines) /\ EntriesIn(ltm') = EntriesIn(ltm) \union EntriesIn(more)
          /\ Once(ltm) /\ Once(more) /\ EntriesIn(ltm) \intersect EntriesIn(more) = {}
               => Once(ltm')
      BY <3>1, <1>2, AppendedLines
    <3>4. QED
      BY <2>3, <3>1, <3>2, <3>3, <1>2 DEF LtmInv
  <2>4. QED
    BY <2>1, <2>2, <2>3, <1>1
<1>5. MemoryTypeOK'
  BY <1>1, <1>2, <1>3, <1>4 DEF MemoryTypeOK
<1>6. PendingInv'
  <2>1. next.step \notin {"note", "lesson"}
    OBVIOUS
  <2>2. QED
    BY <1>1, <2>1, PendingGoesOn
<1>7. StmInv'
  <2>1. asked \subseteq asked' /\ today' \in Nat /\ today <= today'
    BY <1>1, <1>2
  <2>2. QED
    BY <1>1, <2>1, StmGoesOn
<1>8. LtmInv'
  <2>1. LtmIntact' =>
          LtmIntact /\ "heading" \notin spoiled'
    BY <1>1 DEF LtmIntact, Without
  <2>2. QED
    BY <1>1, <1>2, <1>4, <2>1 DEF LtmInv, EntriesIn, LessonHeaders
<1>9. OperationInv(s)'
  <2>1. \A step \in {"note", "lesson", "distill", "rewrite"} : ~Doing(s, step)'
    BY <1>3 DEF Doing
  <2>2. /\ \A day \in op[s].days : IsExpired(day)
        /\ Intact => \A e \in EntriesIn(stm) : e.day \in op[s].days => e \in op[s].shown
    BY <1>1 DEF MemoryInv, OperationInv, DistillInv
  <2>3. (Intact' => Intact) /\ (IntactAndDistilled' => Intact /\ distilled' = distilled \union op[s].shown)
    BY <1>1 DEF Intact, IntactAndDistilled, Without
  <2>4. \A day \in next.days : IsExpired(day)'
    BY <1>1, <2>2 DEF IsExpired
  <2>5. Intact' => \A e \in EntriesIn(stm) : e.day \in next.days => e \in asked'
    BY <1>1, <2>2, <2>3
  <2>6. IntactAndDistilled' => \A e \in EntriesIn(stm) : e.day \in next.days => e \in distilled'
    BY <2>2, <2>3
  <2>7. RemoveInv(s)'
    BY <1>1, <1>3, <2>4, <2>5, <2>6 DEF RemoveInv
  <2>8. QED
    BY <2>1, <2>7 DEF OperationInv, NoteInv, LessonInv, DistillInv, RewriteInv
<1>10. \A t \in Sessions : OperationInv(t)'
  <2>1. asked \subseteq asked'
    BY <1>1
  <2>2. QED
    BY <1>1, <1>9, <2>1, OtherOperations
<1>11. QED
  BY <1>5, <1>6, <1>7, <1>8, <1>10 DEF MemoryInv

LEMMA BeginRemoveKeeps ==
  ASSUME MemoryInv, NEW s \in Sessions, BeginRemove(s)
  PROVE  MemoryInv'
<1>1. PICK text :
        /\ Doing(s, "remove")
        /\ op' = [op EXCEPT ![s] = [step |-> "rewrite", read |-> stm, text |-> text]]
        /\ UNCHANGED <<today, stm, ltm, written, asked, distilled>>
        /\ spoiled \subseteq spoiled'
        /\ text = WithoutSections(stm, op[s].days) \/ (text = <<>> /\ "stm_unread" \in spoiled')
  BY DEF BeginRemove, Goes, Mishap, NoMishap
<1> DEFINE next == [step |-> "rewrite", read |-> stm, text |-> text]
<1>2. /\ MemoryTypeOK /\ StmInv /\ today \in Nat /\ stm \in Seq(StmLines) /\ op'[s] = next
  BY <1>1 DEF MemoryInv, MemoryTypeOK
<1>3. text \in Seq(StmLines) /\ LinesOf(text) \subseteq LinesOf(stm) /\ Once(text)
  <2>1. CASE text = WithoutSections(stm, op[s].days)
    BY <2>1, <1>2, RemovalKeepsLines DEF StmInv
  <2>2. CASE text = <<>>
    BY <2>2, EmptyFile
  <2>3. QED
    BY <2>1, <2>2, <1>1
<1>4. MemoryTypeOK'
  <2>1. next \in Rewrites
    BY <1>2, <1>3 DEF Rewrites
  <2>2. QED
    BY <1>1, <1>2, <2>1 DEF MemoryTypeOK
<1>5. PendingInv'
  <2>1. next.step \notin {"note", "lesson"}
    OBVIOUS
  <2>2. QED
    BY <1>1, <2>1, PendingGoesOn
<1>6. StmInv' /\ LtmInv'
  BY <1>1, <1>2, StmGoesOn, LtmGoesOn
<1>7. OperationInv(s)'
  <2>1. \A step \in {"note", "lesson", "distill", "remove"} : ~Doing(s, step)'
    BY <1>2 DEF Doing
  <2>2. /\ \A day \in op[s].days : IsExpired(day)
        /\ Intact => \A e \in EntriesIn(stm) : e.day \in op[s].days => e \in asked
        /\ IntactAndDistilled => \A e \in EntriesIn(stm) : e.day \in op[s].days => e \in distilled
    BY <1>1 DEF MemoryInv, OperationInv, RemoveInv
  <2>3. /\ Without({"stale"})' => Without({"stale"})
        /\ Intact' => Intact /\ Without({"stale"}) /\ "stm_unread" \notin spoiled'
        /\ IntactAndDistilled' => IntactAndDistilled /\ Intact'
    BY <1>1 DEF Intact, IntactAndDistilled, Without
  <2>4. Without({"stale"})' => Sorted(text)
    <3>1. CASE text = WithoutSections(stm, op[s].days)
      BY <3>1, <2>3, <1>2, RemovalKeepsOrder DEF StmInv
    <3>2. CASE text = <<>>
      BY <3>2, EmptyFile
    <3>3. QED
      BY <3>1, <3>2, <1>1
  <2>5. Intact' => \A e \in EntriesIn(stm) \ EntriesIn(text) : e.day \in op[s].days
    <3>1. ASSUME Intact' PROVE \A e \in EntriesIn(stm) \ EntriesIn(text) : e.day \in op[s].days
      <4>1. text = WithoutSections(stm, op[s].days) /\ Sorted(stm)
        BY <3>1, <2>3, <1>1, <1>2 DEF StmInv
      <4>2. QED
        BY <4>1, <1>2, RemovalKeepsOrder
    <3>2. QED
      BY <3>1
  <2>6. Intact' => \A e \in EntriesIn(stm) \ EntriesIn(text) : IsExpired(e.day)' /\ e \in asked'
    BY <1>1, <2>2, <2>3, <2>5 DEF IsExpired
  <2>7. IntactAndDistilled' => EntriesIn(stm) \ EntriesIn(text) \subseteq distilled'
    BY <1>1, <2>2, <2>3, <2>5
  <2>8. EntriesIn(stm) \subseteq written'.stm /\ \A l \in LinesOf(stm) : l.day <= today'
    BY <1>1, <1>2 DEF StmInv
  <2>9. RewriteInv(s)'
    BY <1>2, <1>3, <2>4, <2>6, <2>7, <2>8 DEF RewriteInv
  <2>10. QED
    BY <2>1, <2>9 DEF OperationInv, NoteInv, LessonInv, DistillInv, RemoveInv
<1>8. \A t \in Sessions : OperationInv(t)'
  BY <1>1, <1>7, OtherOperations
<1>9. QED
  BY <1>4, <1>5, <1>6, <1>8 DEF MemoryInv

LEMMA EndRemoveKeeps ==
  ASSUME MemoryInv, NEW s \in Sessions, EndRemove(s)
  PROVE  MemoryInv'
<1> DEFINE text == op[s].text
           read == op[s].read
<1>1. /\ Doing(s, "rewrite") /\ stm' = text
      /\ spoiled' = IF stm # read THEN spoiled \union {"stale"} ELSE spoiled
      /\ op' = [op EXCEPT ![s] = Idle]
      /\ UNCHANGED <<today, ltm, written, asked, distilled>>
  BY DEF EndRemove, Stale, Goes
<1>2. /\ MemoryTypeOK /\ StmInv /\ today \in Nat
      /\ read \in Seq(StmLines) /\ text \in Seq(StmLines)
  BY <1>1, OperationKinds DEF MemoryInv, MemoryTypeOK, Rewrites
<1>3. /\ Once(text) /\ LinesOf(text) \subseteq LinesOf(read)
      /\ EntriesIn(read) \subseteq written.stm
      /\ \A l \in LinesOf(read) : l.day <= today
      /\ Without({"stale"}) => Sorted(text)
      /\ Intact => \A e \in EntriesIn(read) \ EntriesIn(text) : IsExpired(e.day) /\ e \in asked
      /\ IntactAndDistilled => EntriesIn(read) \ EntriesIn(text) \subseteq distilled
  BY <1>1 DEF MemoryInv, OperationInv, RewriteInv
<1>4. EntriesIn(text) \subseteq EntriesIn(read)
  BY <1>3 DEF EntriesIn
<1>5. /\ Without({"stale"})' => Without({"stale"}) /\ stm = read
      /\ Intact' => Intact /\ stm = read
      /\ IntactAndDistilled' => IntactAndDistilled /\ stm = read
      /\ spoiled \subseteq spoiled'
  BY <1>1 DEF Intact, IntactAndDistilled, Without
<1>6. MemoryTypeOK'
  BY <1>1, <1>2 DEF MemoryTypeOK
<1>7. PendingInv'
  BY <1>1, <1>2, IdleInv, PendingGoesOn
<1>8. LtmInv'
  BY <1>1, <1>5, LtmGoesOn
<1>9. StmInv'
  <2>1. Once(text) /\ EntriesIn(text) \subseteq written.stm /\ \A l \in LinesOf(text) : l.day <= today
    BY <1>3, <1>4
  <2>2. Without({"stale"})' => Sorted(text)
    BY <1>3, <1>5
  <2>3. Intact' => \A e \in written.stm \ EntriesIn(text) : IsExpired(e.day) /\ e \in asked
    BY <1>2, <1>3, <1>5 DEF StmInv
  <2>4. IntactAndDistilled' => written.stm \ EntriesIn(text) \subseteq distilled
    BY <1>2, <1>3, <1>5 DEF StmInv
  <2> HIDE DEF text
  <2>5. QED
    BY <1>1, <2>1, <2>2, <2>3, <2>4 DEF StmInv, EntriesIn, IsExpired
<1>10. Intact' => \A e \in EntriesIn(stm') \ EntriesIn(stm) : ~IsExpired(e.day)
  BY <1>1, <1>4, <1>5
<1>11. \A t \in Sessions : OperationInv(t)'
  <2>1. OperationInv(s)'
    BY <1>1, <1>2, IdleInv
  <2>2. QED
    BY <2>1, <1>1, <1>5, <1>10, OtherOperations
<1>12. QED
  BY <1>6, <1>7, <1>8, <1>9, <1>11 DEF MemoryInv

LEMMA CrashKeeps == ASSUME MemoryInv, Crash PROVE MemoryInv'
<1>1. /\ op' = [s \in Sessions |-> Idle] /\ UNCHANGED <<today, written, asked, distilled>>
      /\ "torn" \in spoiled' /\ spoiled \subseteq spoiled'
      /\ stm' \in {stm, <<>>} /\ ltm' \in {ltm, <<>>}
  BY DEF Crash, Mishap
<1>2. MemoryTypeOK /\ StmInv /\ LtmInv
  BY DEF MemoryInv
<1>3. \A s \in Sessions : op'[s].step = "idle"
  BY <1>1 DEF Idle
<1>4. /\ ~Intact' /\ ~IntactAndDistilled' /\ ~LtmIntact'
      /\ Without({"stale"})' => Without({"stale"})
  BY <1>1 DEF Intact, IntactAndDistilled, LtmIntact, Without
<1>5. /\ stm' \in Seq(StmLines) /\ Once(stm') /\ EntriesIn(stm') \subseteq written.stm
      /\ \A l \in LinesOf(stm') : l.day <= today
      /\ Without({"stale"}) => Sorted(stm')
  BY <1>1, <1>2, EmptyFile DEF MemoryTypeOK, StmInv
<1>6. ltm' \in Seq(LtmLines) /\ Once(ltm') /\ EntriesIn(ltm') \subseteq written.ltm
  BY <1>1, <1>2, EmptyFile DEF MemoryTypeOK, LtmInv
<1>7. MemoryTypeOK'
  BY <1>1, <1>2, <1>5, <1>6 DEF MemoryTypeOK
<1>8. PendingInv'
  BY <1>3 DEF PendingInv, Writing, Doing
<1>9. StmInv'
  BY <1>1, <1>4, <1>5 DEF StmInv, EntriesIn
<1>10. LtmInv'
  BY <1>1, <1>4, <1>6 DEF LtmInv, EntriesIn
<1>11. \A s \in Sessions : OperationInv(s)'
  BY <1>3 DEF OperationInv, NoteInv, LessonInv, DistillInv, RemoveInv, RewriteInv, Doing
<1>12. QED
  BY <1>7, <1>8, <1>9, <1>10, <1>11 DEF MemoryInv

LEMMA NewDayKeeps == ASSUME MemoryInv, NewDay PROVE MemoryInv'
<1>1. /\ today' = today + 1 /\ \A s \in Sessions : Doing(s, "note") => op[s].entry.day = today
      /\ UNCHANGED <<stm, ltm, op, written, asked, distilled, spoiled>>
  BY DEF NewDay
<1>2. MemoryTypeOK /\ PendingInv /\ today \in Nat
  BY DEF MemoryInv, MemoryTypeOK
<1>3. MemoryTypeOK' /\ today' \in Nat /\ today <= today'
  BY <1>1, <1>2 DEF MemoryTypeOK
<1>4. PendingInv'
  BY <1>1, <1>2 DEF PendingInv, Writing, Doing
<1>5. StmInv' /\ LtmInv'
  BY <1>1, <1>3, StmGoesOn, LtmGoesOn
<1>6. ASSUME NEW s \in Sessions PROVE OperationInv(s)'
  <2>1. EntriesIn(stm') \ EntriesIn(stm) = {} /\ op'[s] = op[s]
    BY <1>1
  <2>2. QED
    BY <1>1, <2>1, OthersGoOn
<1>7. QED
  BY <1>3, <1>4, <1>5, <1>6 DEF MemoryInv

LEMMA MemoryKept == MemoryInv /\ [Next]_vars => MemoryInv'
<1>1. SUFFICES ASSUME MemoryInv, [Next]_vars PROVE MemoryInv'
  OBVIOUS
<1>2. CASE UNCHANGED memory
  <2>1. UNCHANGED <<today, stm, ltm, op, written, asked, distilled, spoiled, mishaps>>
    BY <1>2 DEF memory
  <2>2. MemoryTypeOK /\ PendingInv /\ today \in Nat
    BY <1>1 DEF MemoryInv, MemoryTypeOK
  <2>3. MemoryTypeOK' /\ PendingInv'
    BY <2>1, <2>2 DEF MemoryTypeOK, PendingInv, Writing, Doing
  <2>4. StmInv' /\ LtmInv'
    BY <1>1, <2>1, <2>2, StmGoesOn, LtmGoesOn
  <2>5. ASSUME NEW s \in Sessions PROVE OperationInv(s)'
    <3>1. EntriesIn(stm') \ EntriesIn(stm) = {} /\ op'[s] = op[s]
      BY <2>1
    <3>2. QED
      BY <1>1, <2>1, <3>1, OthersGoOn
  <2>6. QED
    BY <2>3, <2>4, <2>5 DEF MemoryInv
<1>3. \/ UNCHANGED memory \/ Crash \/ NewDay
      \/ \E s \in Sessions :
           \/ BeginNote(s) \/ BeginLesson(s) \/ BeginManage(s)
           \/ EndNote(s) \/ EndLesson(s) \/ Distill(s) \/ BeginRemove(s) \/ EndRemove(s)
  BY <1>1 DEF Next, vars, Dispatch, Continue, Open, Restart, Outside, MemoryBegin, MemoryGoesOn
<1>4. QED
  BY <1>1, <1>2, <1>3, CrashKeeps, NewDayKeeps, BeginNoteKeeps, BeginLessonKeeps,
     BeginManageKeeps, EndNoteKeeps, EndLessonKeeps, DistillKeeps, BeginRemoveKeeps, EndRemoveKeeps

LEMMA MemoryInitially == Init => MemoryInv
<1>1. SUFFICES ASSUME Init PROVE MemoryInv
  OBVIOUS
<1>2. /\ today = 0 /\ stm = <<>> /\ ltm = <<>> /\ op = [s \in Sessions |-> Idle]
      /\ written = [stm |-> {}, ltm |-> {}]
  BY <1>1 DEF Init, MemoryInit
<1>3. \A s \in Sessions : op[s].step = "idle"
  BY <1>2 DEF Idle
<1>4. MemoryTypeOK
  BY <1>2, EmptyFile DEF MemoryTypeOK
<1>5. PendingInv
  BY <1>3 DEF PendingInv, Writing, Doing
<1>6. StmInv /\ LtmInv
  BY <1>2, EmptyFile DEF StmInv, LtmInv
<1>7. \A s \in Sessions : OperationInv(s)
  BY <1>3 DEF OperationInv, NoteInv, LessonInv, DistillInv, RemoveInv, RewriteInv, Doing
<1>8. QED
  BY <1>4, <1>5, <1>6, <1>7 DEF MemoryInv

\* In spite of all overlaps, sessions that use the memory files keep them well formed, and
\* what an operation has read before others wrote, it still may rely on
\* (memory_manager.py, stm_store.py, ltm_store.py).
THEOREM MemoryHolds == Spec => []MemoryInv
BY MemoryInitially, MemoryKept, PTL DEF Spec

\* The invariant gives what the memory promises.
LEMMA KeptByInvariant == MemoryInv => MemoryIsKept
<1>1. SUFFICES ASSUME MemoryInv PROVE MemoryIsKept
  OBVIOUS
<1>2. MemoryTypeOK /\ StmInv /\ LtmInv /\ stm \in Seq(StmLines)
  BY <1>1 DEF MemoryInv, MemoryTypeOK
<1>3. EntriesAreKept
  BY <1>2 DEF EntriesAreKept, StmInv, Intact, IsExpired
<1>4. RemovedEntriesAreDistilled
  <2>1. DaysToKeep > 0 /\ Without({"stale", "stm_unread", "torn", "undistilled"}) => IntactAndDistilled
    BY DEF IntactAndDistilled, Intact, Without
  <2>2. QED
    BY <2>1, <1>2 DEF RemovedEntriesAreDistilled, StmInv
<1>5. EntriesAreFiledByDay
  <2>1. SUFFICES ASSUME Without({"stale"}), NEW i \in 1..Len(stm)
                 PROVE  stm[HeaderOf(stm, i)].day = stm[i].day
    BY DEF EntriesAreFiledByDay
  <2>2. Sorted(stm)
    BY <2>1, <1>2 DEF StmInv
  <2>3. QED
    BY <2>2, <1>2, HeaderOfDay
<1>6. LessonsAreKept
  BY <1>2 DEF LessonsAreKept, LtmInv, LtmIntact
<1>7. NothingTwice
  BY <1>2 DEF NothingTwice, StmInv, LtmInv, Once
<1>8. QED
  BY <1>3, <1>4, <1>5, <1>6, <1>7 DEF MemoryIsKept

\* What the agent was told to remember stays in the memory files, once and under its day:
\* a note until it has expired and the distiller was asked about it, a lesson for good,
\* whatever the sessions do at the same time - but for what a rewrite from a stale or
\* failed read, a crash, or a failed distillation destroys (memory_manager.py,
\* stm_store.py, ltm_store.py).
THEOREM MemoryStaysKept == Spec => []MemoryIsKept
BY MemoryHolds, KeptByInvariant, PTL
=============================================================================
