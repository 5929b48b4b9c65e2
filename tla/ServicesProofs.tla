---------------------------- MODULE ServicesProofs ----------------------------
(***************************************************************************)
(* Proofs about eight services that share no state: the replay buffer of a *)
(* session, the sessions of a gateway server over its life and the next,   *)
(* the requests of an agent's turn, the event bus, the structured log, the *)
(* working memory, the review of a command and the deprecated bridge       *)
(* server.  For any numbers of frames, sessions, connections, messages,    *)
(* publishers, subscriptions, records, rounds, rules, lines and responses, *)
(* and any limits.                                                         *)
(***************************************************************************)
EXTENDS ReplayBuffer, SessionRegistry, RequestContext, EventBus, LogFiles, WorkingRounds,
        CommandReview, BridgeServer, LoopsProofs, FiniteSetTheorems

-----------------------------------------------------------------------------
(* The replay buffer, for every limit and every history.                   *)

\* The limit in force is a positive number, whatever was configured.
LEMMA LimitIsPositive == Limit \in Nat /\ Limit >= 1
  BY ReplayAssumption DEF Limit

\* What a bounded deque keeps of a longer sequence: its last Limit elements.
LEMMA RetainedFacts ==
  ASSUME NEW all \in Seq(Nat)
  PROVE  /\ Retained(all) \in Seq(Nat)
         /\ Len(Retained(all)) = IF Len(all) > Limit THEN Limit ELSE Len(all)
         /\ \A k \in 1..Len(Retained(all)) :
              Retained(all)[k] = all[Len(all) - Len(Retained(all)) + k]
<1>1. CASE Len(all) > Limit
  <2>1. Len(all) - Limit + 1 \in 1..Len(all)
    BY <1>1, LimitIsPositive
  <2>2. Retained(all) = SubSeq(all, Len(all) - Limit + 1, Len(all))
    BY <1>1 DEF Retained
  <2>3. QED
    BY <1>1, <2>1, <2>2, LimitIsPositive, SMTT(30)
<1>2. CASE ~(Len(all) > Limit)
  BY <1>2, LimitIsPositive DEF Retained
<1>3. QED
  BY <1>1, <1>2

\* One append keeps the window invariant: the new index is the next number.
LEMMA StoreKeepsWindow ==
  ASSUME log \in Seq([kind : FrameKinds]), frames \in Seq(Nat), WindowIsSuffix,
         NEW kind \in FrameKinds, Store(<<[kind |-> kind]>>)
  PROVE  TypeOK' /\ WindowIsSuffix'
<1> DEFINE new == <<[kind |-> kind]>>
           all == frames \o [k \in 1..Len(new) |-> Len(log) + k]
<1>1. /\ log' \in Seq([kind : FrameKinds])
      /\ Len(log') = Len(log) + 1
  BY DEF Store
<1>2. /\ all \in Seq(Nat)
      /\ Len(all) = Len(frames) + 1
      /\ \A k \in 1..Len(frames) : all[k] = frames[k]
      /\ all[Len(frames) + 1] = Len(log) + 1
  OBVIOUS
<1>3. frames' = Retained(all)
  BY DEF Store
<1>4. /\ frames' \in Seq(Nat)
      /\ Len(frames') = IF Len(all) > Limit THEN Limit ELSE Len(all)
      /\ \A k \in 1..Len(frames') : frames'[k] = all[Len(all) - Len(frames') + k]
  BY <1>2, <1>3, RetainedFacts
<1> HIDE DEF all, new
<1>10. Len(log) \in Nat /\ Len(frames) \in Nat
  OBVIOUS
<1>5. ASSUME NEW k \in 1..Len(all)
      PROVE  all[k] = Len(log') - Len(all) + k
  <2>1. CASE k \in 1..Len(frames)
    <3>1. all[k] = Len(log) - Len(frames) + k
      BY <1>2, <2>1 DEF WindowIsSuffix
    <3>2. QED
      BY <1>10, <1>1, <1>2, <3>1
  <2>2. CASE k = Len(frames) + 1
    BY <1>10, <1>1, <1>2, <2>2
  <2>3. QED
    BY <1>10, <1>2, <2>1, <2>2
<1>6. Len(frames') = IF Len(log') < Limit THEN Len(log') ELSE Limit
  BY <1>1, <1>2, <1>4, LimitIsPositive DEF WindowIsSuffix
<1>7. ASSUME NEW k \in 1..Len(frames')
      PROVE  frames'[k] = Len(log') - Len(frames') + k
  <2>1. Len(frames') \in Nat /\ Len(frames') <= Len(all)
    BY <1>10, <1>2, <1>4, LimitIsPositive
  <2>2. Len(all) - Len(frames') + k \in 1..Len(all)
    BY <1>10, <1>2, <2>1
  <2>3. frames'[k] = all[Len(all) - Len(frames') + k]
    BY <1>4
  <2>4. all[Len(all) - Len(frames') + k] = Len(log') - Len(all) + (Len(all) - Len(frames') + k)
    BY <1>5, <2>2
  <2>5. Len(log') \in Nat /\ Len(all) \in Nat
    BY <1>10, <1>1, <1>2
  <2>6. QED
    BY <2>1, <2>3, <2>4, <2>5
<1>8. Len(frames') <= Limit
  BY <1>1, <1>4, LimitIsPositive, <1>2
<1>9. QED
  BY <1>1, <1>4, <1>6, <1>7, <1>8 DEF TypeOK, WindowIsSuffix, Limit

\* The deque always holds exactly the newest Limit events, in order and without
\* a hole (replay.py append).
THEOREM WindowIsAlwaysSuffix == Spec => [](TypeOK /\ WindowIsSuffix)
<1>1. Init => TypeOK /\ WindowIsSuffix
  BY LimitIsPositive DEF Init, TypeOK, WindowIsSuffix
<1>2. TypeOK /\ WindowIsSuffix /\ [Next]_replayVars => (TypeOK /\ WindowIsSuffix)'
  <2> SUFFICES ASSUME TypeOK, WindowIsSuffix, [Next]_replayVars
               PROVE  (TypeOK /\ WindowIsSuffix)'
    OBVIOUS
  <2>1. CASE Next
    BY <2>1, StoreKeepsWindow DEF Next, StoreNext, TypeOK
  <2>2. CASE UNCHANGED replayVars
    BY <2>2 DEF replayVars, TypeOK, WindowIsSuffix, Limit
  <2>3. QED
    BY <2>1, <2>2
<1>3. QED
  BY <1>1, <1>2, PTL DEF Spec

\* In a window without holes the retained indices are an interval.
LEMMA RetainedInterval ==
  ASSUME TypeOK, WindowIsSuffix
  PROVE  RetainedIndices = (Len(log) - Len(frames) + 1)..Len(log)
<1>1. /\ Len(log) \in Nat /\ Len(frames) \in Nat /\ Len(frames) <= Len(log)
  BY LimitIsPositive DEF TypeOK, WindowIsSuffix
<1>2. ASSUME NEW i \in (Len(log) - Len(frames) + 1)..Len(log)
      PROVE  i \in RetainedIndices
  <2>1. i - (Len(log) - Len(frames)) \in 1..Len(frames)
    BY <1>1, <1>2
  <2>2. frames[i - (Len(log) - Len(frames))] = i
    BY <1>1, <2>1 DEF WindowIsSuffix
  <2>3. QED
    BY <2>1, <2>2 DEF RetainedIndices
<1>3. ASSUME NEW i \in RetainedIndices
      PROVE  i \in (Len(log) - Len(frames) + 1)..Len(log)
  BY <1>1, <1>3 DEF RetainedIndices, WindowIsSuffix
<1>4. QED
  BY <1>2, <1>3

\* A client resuming from any index it has seen, and told of no gap, is sent
\* exactly the events after that index; and it is told of a gap exactly when
\* one of those events has been evicted (replay.py replay_from).
THEOREM ResumeIsComplete == Spec => [](ResumeWithoutGapIsComplete /\ GapExactlyWhenEvicted)
<1>1. TypeOK /\ WindowIsSuffix => ResumeWithoutGapIsComplete /\ GapExactlyWhenEvicted
  <2> SUFFICES ASSUME TypeOK, WindowIsSuffix, NEW resume \in 0..Len(log)
               PROVE  /\ ~ReplayGap(resume) => ReplayFrom(resume) = (resume + 1)..Len(log)
                      /\ ReplayGap(resume) <=>
                           \E i \in (resume + 1)..Len(log) : i \notin RetainedIndices
    BY DEF ResumeWithoutGapIsComplete, GapExactlyWhenEvicted
  <2>1. /\ Len(log) \in Nat /\ Len(frames) \in Nat /\ Len(frames) <= Len(log)
        /\ resume \in Nat /\ resume # NoResume
        /\ frames = <<>> <=> Len(frames) = 0
        /\ Len(frames) = 0 => Len(log) = 0
    BY LimitIsPositive DEF TypeOK, WindowIsSuffix, NoResume
  <2>2. RetainedIndices = (Len(log) - Len(frames) + 1)..Len(log)
    BY RetainedInterval
  <2>3. frames # <<>> => frames[1] = Len(log) - Len(frames) + 1
    BY <2>1 DEF WindowIsSuffix
  <2>4. ReplayGap(resume) <=> frames # <<>> /\ resume < Len(log) - Len(frames)
    BY <2>1, <2>3 DEF ReplayGap, TooOld
  <2>5. ~ReplayGap(resume) => ReplayFrom(resume) = (resume + 1)..Len(log)
    <3> SUFFICES ASSUME ~ReplayGap(resume)
                 PROVE  ReplayFrom(resume) = (resume + 1)..Len(log)
      OBVIOUS
    <3>1. ReplayFrom(resume) = {i \in RetainedIndices : i > resume}
      BY <2>1 DEF ReplayFrom, ReplayGap
    <3>2. resume >= Len(log) - Len(frames)
      BY <2>1, <2>4
    <3>3. QED
      BY <2>1, <2>2, <3>1, <3>2
  <2>6. ASSUME ReplayGap(resume)
        PROVE  \E i \in (resume + 1)..Len(log) : i \notin RetainedIndices
    <3>1. resume + 1 \in (resume + 1)..Len(log) /\ resume + 1 \notin RetainedIndices
      BY <2>1, <2>2, <2>4, <2>6
    <3>2. QED
      BY <3>1
  <2>7. ASSUME NEW i \in (resume + 1)..Len(log), i \notin RetainedIndices
        PROVE  ReplayGap(resume)
    BY <2>1, <2>2, <2>4, <2>7
  <2>8. QED
    BY <2>5, <2>6, <2>7
<1>2. QED
  BY <1>1, WindowIsAlwaysSuffix, PTL

-----------------------------------------------------------------------------
(* Recovery.                                                               *)

\* A non-empty set of event indices has a newest one.
LEMMA LatestExists ==
  ASSUME NEW n \in Nat, NEW S, S \subseteq 1..n, S # {}
  PROVE  \E i \in S : LatestOf(S) = {i} /\ \A j \in S : j <= i
<1> DEFINE ages == {n - i : i \in S}
<1>1. ages \subseteq Nat /\ ages # {}
  <2>1. \A i \in S : i \in 1..n
    OBVIOUS
  <2>2. \A i \in 1..n : n - i \in Nat
    OBVIOUS
  <2>3. QED
    BY <2>1, <2>2
<1>2. PICK a \in ages : \A b \in ages : ~(<<b, a>> \in OpToRel(<, Nat))
  <2> HIDE DEF ages
  <2> QED  BY <1>1, NatLessThanWellFounded, WFMin
<1>3. PICK i \in S : a = n - i
  BY <1>2
<1>4. ASSUME NEW j \in S PROVE j <= i
  <2>1. n - j \in ages /\ n - j \in Nat /\ n - i \in Nat
    BY <1>3
  <2>2. ~(n - j < n - i)
    BY <1>2, <1>3, <2>1 DEF OpToRel
  <2>3. QED
    BY <2>2
<1>5. LatestOf(S) = {i}
  <2>1. \A j \in S : j \in 1..n
    OBVIOUS
  <2>2. \A j \in S : i <= j => j = i
    BY <1>4, <2>1
  <2>3. i \in LatestOf(S)
    BY <1>4 DEF LatestOf
  <2>4. \A j \in LatestOf(S) : j = i
    BY <2>2 DEF LatestOf
  <2>5. QED
    BY <2>3, <2>4
<1>6. QED
  BY <1>4, <1>5

\* Recovery sends one retained frame: the newest runtime event if one is retained.
LEMMA RecoveryFacts ==
  ASSUME TypeOK, WindowIsSuffix, frames # <<>>
  PROVE  \E i \in RetainedIndices :
           /\ RecoveryFrames = {i}
           /\ \A j \in RetainedIndices : IsRuntimeEvent(j) => j <= i
<1> DEFINE events == {i \in RetainedIndices : IsRuntimeEvent(i)}
           chosen == IF SnapshotIndices # {} THEN SnapshotIndices ELSE RetainedIndices
<1>1. /\ Len(log) \in Nat /\ Len(frames) \in Nat /\ Len(frames) <= Len(log)
      /\ Len(frames) # 0
  BY LimitIsPositive DEF TypeOK, WindowIsSuffix
<1>2. RetainedIndices = (Len(log) - Len(frames) + 1)..Len(log)
  BY RetainedInterval
<1>3. RetainedIndices # {} /\ RetainedIndices \subseteq 1..Len(log)
  BY <1>1, <1>2
<1>4. /\ chosen \subseteq RetainedIndices /\ chosen # {}
      /\ events # {} => chosen = events
  BY <1>3 DEF SnapshotIndices
<1>5. RecoveryFrames = LatestOf(chosen)
  BY DEF RecoveryFrames
<1> HIDE DEF chosen
<1>6. PICK i \in chosen : LatestOf(chosen) = {i} /\ \A j \in chosen : j <= i
  BY <1>1, <1>3, <1>4, LatestExists
<1>7. ASSUME NEW j \in RetainedIndices, IsRuntimeEvent(j) PROVE j <= i
  BY <1>4, <1>6, <1>7
<1>8. QED
  BY <1>4, <1>5, <1>6, <1>7

\* A client too far behind is sent one retained frame, newer than what it has
\* seen, and no runtime event is newer than that frame (replay.py
\* recovery_frames): the recovery shows the newest output there is to show.
THEOREM RecoveryIsAlwaysFresh == Spec => []RecoveryIsFresh
<1>1. TypeOK /\ WindowIsSuffix => RecoveryIsFresh
  <2> SUFFICES ASSUME TypeOK, WindowIsSuffix, NEW resume \in 0..Len(log), ReplayGap(resume)
               PROVE  \E i \in RetainedIndices :
                        /\ ReplayFrom(resume) = {i}
                        /\ i > resume
                        /\ \A j \in (i + 1)..Len(log) : ~IsRuntimeEvent(j)
    BY DEF RecoveryIsFresh
  <2>1. /\ Len(log) \in Nat /\ Len(frames) \in Nat /\ Len(frames) <= Len(log)
        /\ resume \in Nat /\ resume # NoResume
        /\ frames # <<>> => Len(frames) # 0
    BY LimitIsPositive DEF TypeOK, WindowIsSuffix, NoResume
  <2>2. frames # <<>> /\ resume < frames[1] - 1
    BY DEF ReplayGap, TooOld
  <2>3. RetainedIndices = (Len(log) - Len(frames) + 1)..Len(log)
    BY RetainedInterval
  <2>4. frames[1] = Len(log) - Len(frames) + 1
    BY <2>1, <2>2 DEF WindowIsSuffix
  <2>5. PICK i \in RetainedIndices :
          /\ RecoveryFrames = {i}
          /\ \A j \in RetainedIndices : IsRuntimeEvent(j) => j <= i
    BY <2>2, RecoveryFacts
  <2>6. ReplayFrom(resume) = {i}
    BY <2>1, <2>2, <2>5 DEF ReplayFrom, TooOld
  <2>7. i \in Int /\ i > resume
    BY <2>1, <2>2, <2>3, <2>4
  <2>8. ASSUME NEW j \in (i + 1)..Len(log) PROVE ~IsRuntimeEvent(j)
    <3>1. j \in RetainedIndices /\ ~(j <= i)
      BY <2>1, <2>3, <2>7
    <3>2. QED
      BY <2>5, <3>1
  <2>9. QED
    BY <2>6, <2>7, <2>8
<1>2. QED
  BY <1>1, WindowIsAlwaysSuffix, PTL

-----------------------------------------------------------------------------
(* The sessions of a gateway server: the inductive invariant.              *)

RuntimeType == [session : SessionIds, stored : Nat, running : BOOLEAN, recent : BOOLEAN]
HandlerType ==
  [bound : BOOLEAN, session : SessionIds \union {NoHandler.session}, writes : Nat]
ClientType ==
  [runtime : Nat, received : SUBSET Nat, gap : BOOLEAN, seen : Nat, seenIn : Nat, base : Nat]

RegistryTypeOK ==
  /\ sessions \in [SessionIds -> 0..Len(runtimes)]
  /\ runtimes \in Seq(RuntimeType)
  /\ handlers \in [Connections -> HandlerType]
  /\ \A c \in Connections : handlers[c].bound => handlers[c].session \in SessionIds
  /\ clients \in [SessionIds -> ClientType]

\* A session's client has bound the runtime the session has, if it has one, last, and its
\* index is of that runtime or of an earlier one.
OwnersInv ==
  /\ \A s \in SessionIds :
       /\ sessions[s] # 0 => clients[s].runtime = sessions[s]
       /\ clients[s].seenIn <= Len(runtimes)
       /\ clients[s].seenIn <= clients[s].runtime
       /\ clients[s].runtime <= Len(runtimes)
       /\ clients[s].runtime # 0 => runtimes[clients[s].runtime].session = s
  /\ \A c \in Connections :
       handlers[c].writes # 0 =>
         /\ handlers[c].bound /\ handlers[c].writes <= Len(runtimes)
         /\ runtimes[handlers[c].writes].session = handlers[c].session

\* What a client need not ask for: it was told of a gap, has received it or cannot expect it.
Covered(client, n) == client.gap \/ \A i \in 1..n : i \in client.received \/ i <= client.base

\* A client that is not written any more misses nothing up to the index it would give.
SeenInv ==
  \A s \in SessionIds :
    clients[s].runtime # 0 /\ clients[s].seenIn = clients[s].runtime =>
      Covered(clients[s], clients[s].seen)

RegistryInv == RegistryTypeOK /\ OwnersInv /\ SeenInv /\ SilentLossIsStale

-----------------------------------------------------------------------------
(* What a client is given.                                                 *)

\* The replay window after n frames: where it begins.
Before(n) == IF n > ReplayWindow THEN n - ReplayWindow ELSE 0

LEMMA WindowIsEnd ==
  ASSUME NEW n \in Nat
  PROVE  /\ Before(n) \in Nat /\ Before(n) <= n /\ (n # 0 => Before(n) < n)
         /\ RetainedOf(n) = Before(n) + 1..n /\ Cardinality(RetainedOf(n)) = n - Before(n)
<1>1. Before(n) \in Nat /\ Before(n) <= n /\ (n # 0 => Before(n) < n)
  BY RegistryAssumption DEF Before
<1>2. RetainedOf(n) = Before(n) + 1..n
  BY RegistryAssumption DEF RetainedOf, Before
<1>3. Cardinality(Before(n) + 1..n) = n - Before(n)
  BY <1>1, FS_Interval
<1>4. QED
  BY <1>1, <1>2, <1>3

LEMMA Replayed ==
  ASSUME NEW n \in Nat, NEW resume \in Int
  PROVE  /\ Gap(n, resume) <=> resume # NoIndex /\ n # 0 /\ resume < Before(n)
         /\ Replay(n)!ReplayFrom(resume) =
              IF resume = NoIndex THEN RetainedOf(n)
              ELSE IF Gap(n, resume) THEN {n} ELSE {i \in RetainedOf(n) : i > resume}
<1> DEFINE k == Cardinality(RetainedOf(n))
           window == [i \in 1..k |-> n - k + i]
<1>1. /\ RetainedOf(n) = Before(n) + 1..n /\ k = n - Before(n) /\ n - k = Before(n)
      /\ Before(n) \in Nat /\ Before(n) <= n /\ (n # 0 => Before(n) < n)
  BY WindowIsEnd
<1>2. /\ window \in Seq(Int) /\ Len(window) = k /\ \A i \in 1..k : window[i] = Before(n) + i
      /\ (window = <<>> <=> n = 0)
  BY <1>1
<1>3. Replay(n)!RetainedIndices = RetainedOf(n)
  <2>1. Replay(n)!RetainedIndices = {window[j] : j \in 1..Len(window)}
    BY DEF Replay!RetainedIndices
  <2> HIDE DEF window
  <2>2. {window[j] : j \in 1..Len(window)} = {Before(n) + j : j \in 1..n - Before(n)}
    BY <1>1, <1>2
  <2>3. {Before(n) + j : j \in 1..n - Before(n)} = Before(n) + 1..n
    <3>1. ASSUME NEW i \in Before(n) + 1..n PROVE i - Before(n) \in 1..n - Before(n)
                                             /\ i = Before(n) + (i - Before(n))
      BY <1>1
    <3>2. ASSUME NEW j \in 1..n - Before(n) PROVE Before(n) + j \in Before(n) + 1..n
      BY <1>1
    <3>3. QED
      BY <3>1, <3>2
  <2>4. QED
    BY <2>1, <2>2, <2>3, <1>1
<1>4. Replay(n)!TooOld(resume) <=> n # 0 /\ resume < Before(n)
  <2>1. Replay(n)!TooOld(resume) <=> window # <<>> /\ resume < window[1] - 1
    BY DEF Replay!TooOld
  <2> HIDE DEF window
  <2>2. n # 0 => window[1] = Before(n) + 1
    BY <1>1, <1>2
  <2>3. QED
    BY <2>1, <2>2, <1>1, <1>2
<1>5. Gap(n, resume) <=> resume # NoIndex /\ n # 0 /\ resume < Before(n)
  BY <1>4 DEF Gap, Replay!ReplayGap, Replay!NoResume, NoIndex
<1>6. n # 0 => Replay(n)!RecoveryFrames = {n}
  <2>1. ASSUME NEW i \in RetainedOf(n) PROVE Replay(n)!IsRuntimeEvent(i)
    <3>1. i \in 1..n
      BY <1>1
    <3>2. QED
      BY <3>1 DEF Replay!IsRuntimeEvent
  <2>2. n # 0 => Replay(n)!SnapshotIndices = RetainedOf(n) /\ RetainedOf(n) # {}
    <3>1. {i \in RetainedOf(n) : Replay(n)!IsRuntimeEvent(i)} = RetainedOf(n)
      BY <2>1
    <3>2. n # 0 => n \in RetainedOf(n)
      BY <1>1
    <3>3. QED
      BY <3>1, <3>2, <1>3 DEF Replay!SnapshotIndices
  <2>3. n # 0 => Replay(n)!LatestOf(RetainedOf(n)) = {n}
    <3>1. Replay(n)!LatestOf(RetainedOf(n)) = {i \in RetainedOf(n) : \A j \in RetainedOf(n) : j <= i}
      BY DEF Replay!LatestOf
    <3>2. ASSUME n # 0, NEW i \in RetainedOf(n)
          PROVE  (\A j \in RetainedOf(n) : j <= i) <=> i = n
      BY <3>2, <1>1
    <3>3. n # 0 => n \in RetainedOf(n)
      BY <1>1
    <3>4. QED
      BY <3>1, <3>2, <3>3
  <2>4. QED
    BY <2>2, <2>3 DEF Replay!RecoveryFrames
<1>7. Replay(n)!ReplayFrom(resume) =
        IF resume = NoIndex THEN RetainedOf(n)
        ELSE IF Replay(n)!TooOld(resume) THEN Replay(n)!RecoveryFrames
        ELSE {i \in RetainedOf(n) : i > resume}
  BY <1>3 DEF Replay!ReplayFrom, Replay!NoResume, NoIndex
<1>8. QED
  BY <1>4, <1>5, <1>6, <1>7

LEMMA HighestIs ==
  ASSUME NEW S \in SUBSET Int, NEW n \in S, \A i \in S : i <= n
  PROVE  Highest(S) = n
<1>1. \A i \in S : (\A j \in S : j <= i) <=> i = n
  OBVIOUS
<1>2. QED
  BY <1>1 DEF Highest

\* A client that binds has been given or told of everything up to now, if what it gave is
\* an index it is covered to, or one of another runtime.
LEMMA BindCovers ==
  ASSUME NEW client \in ClientType, NEW r \in Nat \ {0}, NEW n \in Nat,
         NEW resume \in {NoIndex, client.seen},
         client.seenIn = r => client.runtime = r /\ Covered(client, client.seen)
  PROVE  LET after == BoundClient(client, r, n, resume) IN
           /\ after \in ClientType /\ after.runtime = r
           /\ after.seenIn \in {client.seenIn, r}
           /\ Covered(after, n)
           /\ after.seenIn = r => Covered(after, after.seen)
<1> DEFINE old  == IF client.runtime = r THEN client
                   ELSE [client EXCEPT !.runtime = r, !.received = {}, !.gap = FALSE, !.base = 0]
           from == CASE resume = NoIndex          -> n - Cardinality(RetainedOf(n))
                     [] resume # NoIndex /\ client.seenIn # r -> resume
                     [] OTHER                      -> 0
           told == [old EXCEPT !.gap = @ \/ Gap(n, resume),
                               !.base = IF from > @ THEN from ELSE @]
           given == Replay(n)!ReplayFrom(resume)
           after == Receives(told, r, given)
<1>1. BoundClient(client, r, n, resume) = after
  BY DEF BoundClient
<1>2. /\ client.seen \in Nat /\ client.seen # NoIndex /\ resume \in Int
      /\ resume # NoIndex => resume = client.seen
  BY DEF ClientType, NoIndex
<1>3. /\ RetainedOf(n) = Before(n) + 1..n /\ n - Cardinality(RetainedOf(n)) = Before(n)
      /\ Before(n) \in Nat /\ Before(n) <= n /\ (n # 0 => Before(n) < n)
  <2>1. /\ Cardinality(RetainedOf(n)) = n - Before(n) /\ Before(n) \in Nat
        /\ RetainedOf(n) = Before(n) + 1..n /\ Before(n) <= n /\ (n # 0 => Before(n) < n)
    BY WindowIsEnd
  <2>2. n - Cardinality(RetainedOf(n)) = Before(n)
    BY <2>1
  <2>3. QED
    BY <2>1, <2>2
<1>4. /\ Gap(n, resume) \in BOOLEAN
      /\ Gap(n, resume) <=> resume # NoIndex /\ n # 0 /\ resume < Before(n)
      /\ given = IF resume = NoIndex THEN RetainedOf(n)
                 ELSE IF Gap(n, resume) THEN {n} ELSE {i \in RetainedOf(n) : i > resume}
  BY <1>2, Replayed DEF Gap, Replay!ReplayGap
<1> HIDE DEF given
<1>5. given \in SUBSET Nat /\ (given # {} => Highest(given) = n /\ n \in Nat)
  <2>1. given \in SUBSET Nat /\ given \in SUBSET Int /\ \A i \in given : i <= n
    BY <1>2, <1>3, <1>4
  <2>2. given # {} => n \in given
    BY <1>2, <1>3, <1>4
  <2>3. QED
    BY <2>1, <2>2, HighestIs
<1>6. from \in Nat
  BY <1>2, <1>3
<1>7. /\ old \in ClientType /\ old.runtime = r /\ old.seen = client.seen
      /\ old.seenIn = client.seenIn
      /\ client.seenIn = r => old = client
  BY DEF ClientType
<1> HIDE DEF old, from
<1>8. /\ told \in ClientType /\ told.runtime = r /\ told.seen = old.seen
      /\ told.seenIn = old.seenIn /\ told.received = old.received
      /\ told.gap = (old.gap \/ Gap(n, resume))
      /\ from <= told.base /\ old.base <= told.base
  <2> DEFINE gap == old.gap \/ Gap(n, resume)
             higher == IF from > old.base THEN from ELSE old.base
  <2>1. gap \in BOOLEAN /\ higher \in Nat /\ from <= higher /\ old.base <= higher
    BY <1>4, <1>6, <1>7 DEF ClientType
  <2>2. told = [old EXCEPT !.gap = gap, !.base = higher]
    OBVIOUS
  <2> HIDE DEF gap, higher, told
  <2>3. /\ told \in ClientType /\ told.runtime = r /\ told.seen = old.seen
        /\ told.seenIn = old.seenIn /\ told.received = old.received
        /\ told.gap = gap /\ told.base = higher
    BY <2>1, <2>2, <1>7 DEF ClientType
  <2>4. QED
    BY <2>1, <2>3 DEF gap
<1> HIDE DEF told
<1>9. /\ after \in ClientType /\ after.runtime = r /\ after.gap = told.gap
      /\ after.base = told.base /\ after.received = told.received \union given
      /\ IF given = {} THEN after.seen = told.seen /\ after.seenIn = told.seenIn
         ELSE after.seen = n /\ after.seenIn = r
  BY <1>5, <1>8 DEF ClientType, Receives
<1> HIDE DEF after
<1>10. Covered(after, n)
  <2>1. SUFFICES ASSUME ~after.gap, NEW i \in 1..n, i \notin after.received
                 PROVE  i <= after.base
    BY DEF Covered
  <2>2. ~Gap(n, resume) /\ ~old.gap /\ after.base = told.base /\ told.base \in Nat
    BY <2>1, <1>8, <1>9 DEF ClientType
  <2>3. CASE resume = NoIndex
    <3>1. from = Before(n)
      BY <2>3, <1>3 DEF from
    <3>2. i <= Before(n)
      BY <2>1, <2>3, <1>3, <1>4, <1>9
    <3>3. QED
      BY <3>1, <3>2, <2>2, <1>3, <1>8
  <2>4. CASE resume # NoIndex
    <3>1. resume = client.seen /\ Before(n) <= resume
      BY <2>2, <2>4, <1>2, <1>3, <1>4
    <3>2. i <= resume
      BY <2>1, <2>2, <2>4, <3>1, <1>2, <1>3, <1>4, <1>9
    <3>3. CASE client.seenIn # r
      <4>1. from = resume
        BY <2>4, <3>3 DEF from
      <4>2. QED
        BY <4>1, <3>1, <3>2, <2>2, <1>2, <1>8
    <3>4. CASE client.seenIn = r
      <4>1. old = client /\ Covered(client, client.seen)
        BY <3>4, <1>7
      <4>2. i \in 1..client.seen /\ i \notin old.received
        BY <2>1, <3>1, <3>2, <1>2, <1>8, <1>9
      <4>3. i <= old.base /\ old.base \in Nat
        BY <4>1, <4>2, <2>2, <1>7 DEF Covered, ClientType
      <4>4. QED
        BY <4>3, <2>2, <1>8
    <3>5. QED
      BY <3>3, <3>4
  <2>5. QED
    BY <2>3, <2>4
<1>11. ASSUME after.seenIn = r PROVE Covered(after, after.seen)
  <2>1. CASE given # {}
    BY <2>1, <1>9, <1>10
  <2>2. CASE given = {}
    <3>1. after.seen = client.seen /\ old = client /\ Covered(client, client.seen)
      BY <2>2, <1>7, <1>8, <1>9, <1>11
    <3>2. /\ client.gap => after.gap
          /\ \A i \in client.received : i \in after.received
          /\ client.base \in Nat /\ after.base \in Nat /\ client.base <= after.base
      BY <3>1, <1>7, <1>8, <1>9 DEF ClientType
    <3>3. QED
      BY <3>1, <3>2, <1>2 DEF Covered
  <2>3. QED
    BY <2>1, <2>2
<1>12. after.seenIn \in {client.seenIn, r}
  BY <1>7, <1>8, <1>9
<1>13. QED
  BY <1>1, <1>9, <1>10, <1>11, <1>12

-----------------------------------------------------------------------------
(* The sessions: every step keeps the invariant.                           *)

\* A frame that is stored: the client that is written gets it, and is covered to it as it
\* was covered before.
LEMMA StoredKeeps ==
  ASSUME RegistryInv, NEW r \in DOMAIN runtimes,
         NEW busy \in BOOLEAN, NEW recent \in BOOLEAN, Stored(r, busy, recent)
  PROVE  RegistryInv'
<1> DEFINE s == runtimes[r].session
           n == runtimes[r].stored
           given == Receives(clients[s], r, {n + 1})
<1>1. /\ runtimes' = [runtimes EXCEPT ![r].stored = @ + 1, ![r].running = busy,
                                      ![r].recent = recent]
      /\ clients' = IF clients[s].runtime = r /\ \E c \in Connections : handlers[c].writes = r
                    THEN [clients EXCEPT ![s] = given] ELSE clients
      /\ UNCHANGED <<sessions, handlers>>
  BY DEF Stored
<1>2. /\ RegistryTypeOK /\ OwnersInv /\ SeenInv /\ SilentLossIsStale
      /\ r \in 1..Len(runtimes) /\ s \in SessionIds /\ n \in Nat /\ r # 0
      /\ runtimes[r] \in RuntimeType /\ clients[s] \in ClientType
  <2>1. /\ RegistryTypeOK /\ OwnersInv /\ SeenInv /\ SilentLossIsStale
        /\ runtimes \in Seq(RuntimeType) /\ clients \in [SessionIds -> ClientType]
    BY DEF RegistryInv, RegistryTypeOK
  <2>2. r \in 1..Len(runtimes) /\ r # 0 /\ runtimes[r] \in RuntimeType
    BY <2>1
  <2>3. s \in SessionIds /\ n \in Nat
    BY <2>2 DEF RuntimeType
  <2>4. QED
    BY <2>1, <2>2, <2>3
<1>3. /\ runtimes' \in Seq(RuntimeType) /\ Len(runtimes') = Len(runtimes)
      /\ \A q \in 1..Len(runtimes) :
           /\ runtimes'[q].session = runtimes[q].session
           /\ runtimes'[q].stored = IF q = r THEN n + 1 ELSE runtimes[q].stored
  <2>1. PICK old \in RuntimeType : old = runtimes[r]
    BY <1>2
  <2> DEFINE changed == [old EXCEPT !.stored = n + 1, !.running = busy, !.recent = recent]
  <2>2. runtimes' = [runtimes EXCEPT ![r] = changed]
    BY <2>1, <1>1, <1>2 DEF RegistryTypeOK
  <2>3. old.session = s /\ n + 1 \in Nat
    BY <2>1, <1>2
  <2> HIDE DEF s, n
  <2>4. changed \in RuntimeType /\ changed.session = s /\ changed.stored = n + 1
    BY <2>3 DEF RuntimeType
  <2> HIDE DEF changed
  <2>5. QED
    BY <2>2, <2>4, <1>2 DEF RegistryTypeOK, s, n
<1>4. /\ given \in ClientType /\ given.runtime = clients[s].runtime
      /\ given.received = clients[s].received \union {n + 1} /\ given.seen = n + 1
      /\ given.seenIn = r /\ given.gap = clients[s].gap /\ given.base = clients[s].base
  <2>1. Highest({n + 1}) = n + 1
    <3>1. {n + 1} \in SUBSET Int /\ n + 1 \in {n + 1} /\ \A i \in {n + 1} : i <= n + 1
      BY <1>2
    <3> HIDE DEF n
    <3>2. QED
      BY <3>1, HighestIs
  <2>2. given = [clients[s] EXCEPT !.received = @ \union {n + 1}, !.seen = n + 1, !.seenIn = r]
    BY <2>1 DEF Receives
  <2>3. clients[s] \in ClientType /\ n + 1 \in Nat /\ r \in Nat
    BY <1>2
  <2> HIDE DEF n, given, s
  <2>4. QED
    BY <2>2, <2>3 DEF ClientType
<1> HIDE DEF given
<1>5. CASE clients[s].runtime = r /\ \E c \in Connections : handlers[c].writes = r
  <2>1. clients' = [clients EXCEPT ![s] = given]
    BY <1>1, <1>5
  <2>2. \A t \in SessionIds : clients'[t] = IF t = s THEN given ELSE clients[t]
    BY <2>1 DEF RegistryInv, RegistryTypeOK
  <2>3. PICK c \in Connections : handlers[c].writes = r
    BY <1>5
  <2>4. handlers[c].bound /\ handlers[c].session = s
    BY <2>3, <1>2 DEF OwnersInv
  <2>5. clients[s].gap \/ \A i \in 1..n : i \in clients[s].received \/ i <= clients[s].base
    BY <2>3, <2>4, <1>2, <1>5 DEF SilentLossIsStale
  <2>6. given.gap \/ \A i \in 1..n + 1 : i \in given.received \/ i <= given.base
    BY <2>5, <1>2, <1>4
  <2>7. RegistryTypeOK'
    BY <2>1, <1>1, <1>2, <1>3, <1>4 DEF RegistryTypeOK
  <2>8. OwnersInv'
    <3>1. \A t \in SessionIds : /\ clients'[t].runtime = clients[t].runtime
                                /\ clients'[t].seenIn \in {clients[t].seenIn, clients[t].runtime}
                                /\ clients[t].runtime \in Nat /\ clients[t].seenIn \in Nat
      BY <2>2, <1>2, <1>4, <1>5 DEF RegistryTypeOK, ClientType
    <3>2. \A d \in Connections : handlers[d].writes \in Nat
      BY <1>2 DEF RegistryTypeOK, HandlerType
    <3>3. QED
      BY <3>1, <3>2, <1>1, <1>2, <1>3 DEF OwnersInv
  <2>9. SeenInv'
    BY <2>2, <2>6, <1>2, <1>4 DEF SeenInv, Covered
  <2>10. SilentLossIsStale'
    <3>1. SUFFICES ASSUME NEW t \in SessionIds, NEW d \in Connections,
                          handlers[d].bound, handlers[d].session = t, handlers[d].writes # 0,
                          handlers[d].writes = clients'[t].runtime
                   PROVE  \/ clients'[t].gap
                          \/ \A i \in 1..runtimes'[handlers[d].writes].stored :
                               i \in clients'[t].received \/ i <= clients'[t].base
      BY <1>1 DEF SilentLossIsStale
    <3>2. CASE t = s
      BY <3>1, <3>2, <2>2, <2>6, <1>2, <1>3, <1>4, <1>5
    <3>3. CASE t # s
      <4>1. /\ clients'[t] = clients[t] /\ handlers[d].writes \in 1..Len(runtimes)
            /\ handlers[d].writes # r
        BY <3>1, <3>3, <2>2, <1>2 DEF OwnersInv, RegistryTypeOK, HandlerType
      <4>2. runtimes'[handlers[d].writes].stored = runtimes[handlers[d].writes].stored
        BY <4>1, <1>3
      <4>3. QED
        BY <3>1, <4>1, <4>2, <1>2 DEF SilentLossIsStale
    <3>4. QED
      BY <3>2, <3>3
  <2>11. QED
    BY <2>7, <2>8, <2>9, <2>10 DEF RegistryInv
<1>6. CASE ~ (clients[s].runtime = r /\ \E c \in Connections : handlers[c].writes = r)
  <2>1. clients' = clients
    BY <1>1, <1>6
  <2>2. RegistryTypeOK' /\ OwnersInv' /\ SeenInv'
    <3>1. RegistryTypeOK'
      BY <2>1, <1>1, <1>2, <1>3 DEF RegistryTypeOK
    <3>2. /\ \A t \in SessionIds : clients[t].runtime \in Nat
          /\ \A d \in Connections : handlers[d].writes \in Nat
      BY <1>2 DEF RegistryTypeOK, ClientType, HandlerType
    <3>3. OwnersInv'
      BY <2>1, <3>2, <1>1, <1>2, <1>3 DEF OwnersInv
    <3>4. SeenInv'
      BY <2>1, <1>2 DEF SeenInv
    <3>5. QED
      BY <3>1, <3>3, <3>4
  <2>3. SilentLossIsStale'
    <3>1. SUFFICES ASSUME NEW t \in SessionIds, NEW d \in Connections,
                          handlers[d].bound, handlers[d].session = t, handlers[d].writes # 0,
                          handlers[d].writes = clients[t].runtime
                   PROVE  \/ clients[t].gap
                          \/ \A i \in 1..runtimes'[handlers[d].writes].stored :
                               i \in clients[t].received \/ i <= clients[t].base
      BY <2>1, <1>1 DEF SilentLossIsStale
    <3>2. /\ handlers[d].writes \in 1..Len(runtimes)
          /\ runtimes[handlers[d].writes].session = t
      BY <3>1, <1>2 DEF OwnersInv, RegistryTypeOK, HandlerType
    <3>3. handlers[d].writes # r
      BY <3>1, <3>2, <1>6
    <3>4. runtimes'[handlers[d].writes].stored = runtimes[handlers[d].writes].stored
      BY <3>2, <3>3, <1>3
    <3>5. QED
      BY <3>1, <3>4, <1>2 DEF SilentLossIsStale
  <2>4. QED
    BY <2>2, <2>3 DEF RegistryInv
<1>7. QED
  BY <1>5, <1>6

LEMMA BindKeeps ==
  ASSUME RegistryInv, NEW c \in Connections, NEW s \in SessionIds,
         NEW resume \in {NoIndex, clients[s].seen}, Bind(c, s, resume)
  PROVE  RegistryInv'
<1> DEFINE r == IF sessions[s] # 0 THEN sessions[s] ELSE Len(runtimes) + 1
           knew == IF sessions[s] # 0 THEN runtimes ELSE Append(runtimes, Runtime(s))
           n == knew[r].stored
           after == BoundClient(clients[s], r, n, resume)
           new == [bound |-> TRUE, session |-> s, writes |-> r]
<1>1. /\ sessions' = [sessions EXCEPT ![s] = r]
      /\ runtimes' = [knew EXCEPT ![r].recent = TRUE]
      /\ handlers' =
           [d \in Connections |->
              CASE d = c                              -> new
                [] d # c /\ handlers[d].writes = r    -> [handlers[d] EXCEPT !.writes = 0]
                [] OTHER                              -> handlers[d]]
      /\ clients' = [clients EXCEPT ![s] = after]
  BY DEF Bind
<1>2. /\ RegistryTypeOK /\ OwnersInv /\ SeenInv /\ SilentLossIsStale
      /\ clients[s] \in ClientType /\ sessions[s] \in 0..Len(runtimes)
      /\ runtimes \in Seq(RuntimeType) /\ Len(runtimes) \in Nat
  BY DEF RegistryInv, RegistryTypeOK
\* The runtime is an old one of this session, or one that nobody has an index of.
<1>3. /\ knew \in Seq(RuntimeType) /\ r \in 1..Len(knew) /\ Len(runtimes) <= Len(knew)
      /\ Len(knew) \in Nat /\ knew[r].session = s /\ n \in Nat /\ r \in Nat \ {0}
      /\ \A q \in 1..Len(runtimes) : knew[q] = runtimes[q]
      /\ clients[s].seenIn = r => clients[s].runtime = r
      /\ clients[s].seenIn <= r /\ clients[s].runtime <= r
  <2>1. CASE sessions[s] # 0
    <3>1. /\ r = sessions[s] /\ knew = runtimes /\ clients[s].runtime = r
          /\ clients[s].seenIn <= clients[s].runtime
          /\ runtimes[clients[s].runtime].session = s
      BY <2>1, <1>2 DEF OwnersInv
    <3> HIDE DEF knew, r
    <3>2. r \in 1..Len(runtimes) /\ runtimes[r] \in RuntimeType
      BY <3>1, <2>1, <1>2
    <3>3. runtimes[r].stored \in Nat
      BY <3>2 DEF RuntimeType
    <3>4. QED
      BY <3>1, <3>2, <3>3, <1>2
  <2>2. CASE sessions[s] = 0
    <3>1. Runtime(s) \in RuntimeType /\ Runtime(s).session = s /\ Runtime(s).stored = 0
      BY DEF Runtime, RuntimeType
    <3>2. /\ r = Len(runtimes) + 1 /\ knew = Append(runtimes, Runtime(s))
          /\ clients[s].seenIn <= Len(runtimes) /\ clients[s].runtime <= Len(runtimes)
          /\ clients[s].seenIn \in Nat /\ clients[s].runtime \in Nat
      BY <2>2, <1>2 DEF OwnersInv, ClientType
    <3> HIDE DEF knew, r
    <3>3. /\ knew \in Seq(RuntimeType) /\ Len(knew) = Len(runtimes) + 1
          /\ knew[Len(runtimes) + 1] = Runtime(s)
          /\ \A q \in 1..Len(runtimes) : knew[q] = runtimes[q]
      BY <3>1, <3>2, <1>2
    <3>4. QED
      BY <3>1, <3>2, <3>3, <1>2
  <2>3. QED
    BY <2>1, <2>2
<1> HIDE DEF knew, r
<1>4. clients[s].seenIn = r => clients[s].runtime = r /\ Covered(clients[s], clients[s].seen)
  BY <1>2, <1>3 DEF SeenInv
<1>5. /\ after \in ClientType /\ after.runtime = r /\ after.seenIn \in {clients[s].seenIn, r}
      /\ Covered(after, n)
      /\ after.seenIn = r => Covered(after, after.seen)
  <2>1. n \in Nat /\ r \in Nat \ {0} /\ clients[s] \in ClientType
    BY <1>2, <1>3
  <2> HIDE DEF n
  <2>2. QED
    BY <2>1, <1>4, BindCovers
<1> HIDE DEF after
<1>6. \A t \in SessionIds : /\ clients'[t] = IF t = s THEN after ELSE clients[t]
                            /\ sessions'[t] = IF t = s THEN r ELSE sessions[t]
  BY <1>1, <1>2 DEF RegistryTypeOK
<1>7. /\ runtimes' \in Seq(RuntimeType) /\ Len(runtimes') = Len(knew)
      /\ \A q \in 1..Len(knew) : /\ runtimes'[q].session = knew[q].session
                                  /\ runtimes'[q].stored = knew[q].stored
  <2> DEFINE changed == [knew[r] EXCEPT !.recent = TRUE]
  <2>1. runtimes' = [knew EXCEPT ![r] = changed] /\ knew[r] \in RuntimeType
    BY <1>1, <1>3
  <2>2. changed \in RuntimeType /\ changed.session = s /\ changed.stored = n
    BY <2>1, <1>3 DEF RuntimeType
  <2> HIDE DEF changed
  <2>3. QED
    BY <2>1, <2>2, <1>3
<1>8. ASSUME NEW d \in Connections
      PROVE  /\ handlers'[d] \in HandlerType
             /\ d = c => handlers'[d] = new
             /\ d # c => /\ handlers'[d].bound = handlers[d].bound
                         /\ handlers'[d].session = handlers[d].session
                         /\ handlers'[d].writes \in {0, handlers[d].writes} \ {r}
  <2>1. handlers[d] \in HandlerType
    BY <1>2 DEF RegistryTypeOK
  <2>2. CASE d = c
    BY <2>2, <1>1, <1>3 DEF HandlerType
  <2>3. CASE d # c /\ handlers[d].writes = r
    BY <2>1, <2>3, <1>1, <1>3 DEF HandlerType
  <2>4. CASE d # c /\ handlers[d].writes # r
    BY <2>1, <2>4, <1>1 DEF HandlerType
  <2>5. QED
    BY <2>2, <2>3, <2>4
<1>9. RegistryTypeOK'
  <2>1. sessions' \in [SessionIds -> 0..Len(runtimes')]
    BY <1>1, <1>2, <1>3, <1>7 DEF RegistryTypeOK
  <2>2. /\ handlers' \in [Connections -> HandlerType]
        /\ \A d \in Connections : handlers'[d].bound => handlers'[d].session \in SessionIds
    BY <1>1, <1>2, <1>8 DEF RegistryTypeOK
  <2>3. clients' \in [SessionIds -> ClientType]
    BY <1>1, <1>2, <1>5 DEF RegistryTypeOK
  <2>4. QED
    BY <2>1, <2>2, <2>3, <1>7 DEF RegistryTypeOK
<1>10. ASSUME NEW t \in SessionIds
       PROVE  /\ sessions'[t] # 0 => clients'[t].runtime = sessions'[t]
              /\ clients'[t].seenIn <= Len(runtimes') /\ clients'[t].seenIn <= clients'[t].runtime
              /\ clients'[t].runtime <= Len(runtimes')
              /\ clients'[t].runtime # 0 => runtimes'[clients'[t].runtime].session = t
              /\ clients'[t].runtime # 0 /\ clients'[t].seenIn = clients'[t].runtime
                   => Covered(clients'[t], clients'[t].seen)
  <2>1. CASE t = s
    <3>1. clients'[t] = after /\ sessions'[t] = r
      BY <2>1, <1>6
    <3>2. after.seenIn <= r /\ r <= Len(runtimes') /\ runtimes'[r].session = s /\ r # 0
      BY <1>3, <1>5, <1>7
    <3>3. after.seenIn \in Nat /\ r \in Nat /\ Len(runtimes') \in Nat
      BY <1>3, <1>5, <1>7 DEF ClientType
    <3>4. QED
      BY <2>1, <3>1, <3>2, <3>3, <1>5
  <2>2. CASE t # s
    <3>1. clients'[t] = clients[t] /\ sessions'[t] = sessions[t] /\ clients[t] \in ClientType
      BY <2>2, <1>2, <1>6 DEF RegistryTypeOK
    <3>2. /\ sessions[t] # 0 => clients[t].runtime = sessions[t]
          /\ clients[t].seenIn <= Len(runtimes) /\ clients[t].seenIn <= clients[t].runtime
          /\ clients[t].runtime <= Len(runtimes)
          /\ clients[t].runtime # 0 => runtimes[clients[t].runtime].session = t
          /\ clients[t].runtime # 0 /\ clients[t].seenIn = clients[t].runtime
               => Covered(clients[t], clients[t].seen)
      BY <1>2 DEF OwnersInv, SeenInv
    <3>3. clients[t].seenIn \in Nat /\ clients[t].runtime \in Nat
      BY <3>1 DEF ClientType
    <3>4. clients[t].runtime # 0 =>
            runtimes'[clients[t].runtime].session = runtimes[clients[t].runtime].session
      BY <3>2, <3>3, <1>2, <1>3, <1>7
    <3>5. clients[t].seenIn <= Len(runtimes') /\ clients[t].runtime <= Len(runtimes')
      BY <3>2, <3>3, <1>2, <1>3, <1>7
    <3>6. QED
      BY <3>1, <3>2, <3>4, <3>5
  <2>3. QED
    BY <2>1, <2>2
<1>11. ASSUME NEW d \in Connections, handlers'[d].writes # 0
       PROVE  /\ handlers'[d].bound /\ handlers'[d].writes <= Len(runtimes')
              /\ runtimes'[handlers'[d].writes].session = handlers'[d].session
  <2>1. CASE d = c
    BY <2>1, <1>3, <1>7, <1>8
  <2>2. CASE d # c
    <3>1. /\ handlers'[d].writes = handlers[d].writes /\ handlers'[d].bound = handlers[d].bound
          /\ handlers'[d].session = handlers[d].session
      BY <2>2, <1>8, <1>11
    <3>2. /\ handlers[d].bound /\ handlers[d].writes <= Len(runtimes)
          /\ runtimes[handlers[d].writes].session = handlers[d].session
          /\ handlers[d].writes \in Nat \ {0}
      BY <3>1, <1>2, <1>11 DEF OwnersInv, RegistryTypeOK, HandlerType
    <3>3. QED
      BY <3>1, <3>2, <1>2, <1>3, <1>7
  <2>3. QED
    BY <2>1, <2>2
<1>12. SilentLossIsStale'
  <2>1. SUFFICES ASSUME NEW t \in SessionIds, NEW d \in Connections,
                        handlers'[d].session = t, handlers'[d].writes # 0,
                        handlers'[d].writes = clients'[t].runtime
                 PROVE  Covered(clients'[t], runtimes'[handlers'[d].writes].stored)
    BY DEF SilentLossIsStale, Covered
  <2>2. CASE t = s
    <3>1. clients'[t] = after /\ runtimes'[r].stored = n
      BY <2>2, <1>3, <1>6, <1>7
    <3>2. QED
      BY <3>1, <2>1, <1>5
  <2>3. CASE t # s
    <3>1. d # c
      BY <2>1, <2>3, <1>8
    <3>2. /\ handlers'[d].writes = handlers[d].writes /\ handlers[d].session = t
          /\ clients'[t] = clients[t]
      BY <3>1, <2>1, <2>3, <1>6, <1>8
    <3>3. /\ handlers[d].bound /\ handlers[d].writes <= Len(runtimes)
          /\ handlers[d].writes \in Nat \ {0}
      BY <3>2, <2>1, <1>2 DEF OwnersInv, RegistryTypeOK, HandlerType
    <3>4. Covered(clients[t], runtimes[handlers[d].writes].stored)
      BY <2>1, <3>2, <3>3, <1>2 DEF SilentLossIsStale, Covered
    <3>5. runtimes'[handlers[d].writes].stored = runtimes[handlers[d].writes].stored
      BY <3>3, <1>2, <1>3, <1>7
    <3>6. QED
      BY <3>2, <3>4, <3>5
  <2>4. QED
    BY <2>2, <2>3
<1>13. OwnersInv'
  BY <1>10, <1>11 DEF OwnersInv
<1>14. SeenInv'
  BY <1>10 DEF SeenInv, Covered
<1>15. QED
  BY <1>9, <1>12, <1>13, <1>14 DEF RegistryInv

LEMMA RegistryKept == RegistryInv /\ [RegistryNext]_registryVars => RegistryInv'
<1>1. SUFFICES ASSUME RegistryInv, [RegistryNext]_registryVars PROVE RegistryInv'
  OBVIOUS
<1>2. RegistryTypeOK /\ OwnersInv /\ SeenInv /\ SilentLossIsStale
  BY <1>1 DEF RegistryInv
<1>3. CASE UNCHANGED registryVars
  BY <1>2, <1>3 DEF registryVars, RegistryInv, RegistryTypeOK, OwnersInv, SeenInv,
     SilentLossIsStale
\* Connections that end write nothing any more, and a session may lose its runtime: what
\* clients have stays as it is.
<1>4. ASSUME UNCHANGED clients, Len(runtimes') = Len(runtimes), runtimes' \in Seq(RuntimeType),
             \A q \in 1..Len(runtimes) : /\ runtimes'[q].session = runtimes[q].session
                                         /\ runtimes'[q].stored = runtimes[q].stored,
             handlers' \in [Connections -> {NoHandler} \union HandlerType],
             \A c \in Connections : handlers'[c] \in {NoHandler, handlers[c]},
             sessions' \in [SessionIds -> Nat],
             \A s \in SessionIds : sessions'[s] \in {0, sessions[s]}
      PROVE  RegistryInv'
  <2>1. NoHandler \in HandlerType /\ NoHandler.writes = 0 /\ ~NoHandler.bound
    BY DEF NoHandler, HandlerType
  <2>2. RegistryTypeOK'
    <3>1. /\ handlers' \in [Connections -> HandlerType]
          /\ \A c \in Connections : handlers'[c].bound => handlers'[c].session \in SessionIds
      BY <1>2, <1>4, <2>1 DEF RegistryTypeOK
    <3>2. ASSUME NEW s \in SessionIds PROVE sessions'[s] \in 0..Len(runtimes')
      <4>1. sessions[s] \in 0..Len(runtimes) /\ 0 \in 0..Len(runtimes)
        BY <1>2 DEF RegistryTypeOK
      <4>2. sessions'[s] \in {0, sessions[s]} /\ Len(runtimes') = Len(runtimes)
        BY <1>4
      <4>3. QED
        BY <4>1, <4>2
    <3>3. QED
      BY <3>1, <3>2, <1>2, <1>4 DEF RegistryTypeOK
  <2>3. OwnersInv'
    <3>1. ASSUME NEW c \in Connections, handlers'[c].writes # 0
          PROVE  /\ handlers'[c].bound /\ handlers'[c].writes <= Len(runtimes')
                 /\ runtimes'[handlers'[c].writes].session = handlers'[c].session
      <4>1. handlers'[c] = handlers[c] /\ handlers[c].writes \in Nat \ {0}
        BY <3>1, <2>1, <1>2, <1>4 DEF RegistryTypeOK, HandlerType
      <4>2. QED
        BY <4>1, <1>2, <1>4 DEF OwnersInv
    <3>2. ASSUME NEW s \in SessionIds
          PROVE  /\ sessions'[s] # 0 => clients[s].runtime = sessions'[s]
                 /\ clients[s].seenIn <= Len(runtimes') /\ clients[s].seenIn <= clients[s].runtime
                 /\ clients[s].runtime <= Len(runtimes')
                 /\ clients[s].runtime # 0 => runtimes'[clients[s].runtime].session = s
      <4>1. clients[s].runtime \in Nat
        BY <1>2 DEF RegistryTypeOK, ClientType
      <4>2. QED
        BY <4>1, <1>2, <1>4 DEF OwnersInv
    <3>3. QED
      BY <3>1, <3>2, <1>4 DEF OwnersInv
  <2>4. SeenInv'
    BY <1>2, <1>4 DEF SeenInv
  <2>5. SilentLossIsStale'
    <3>1. SUFFICES ASSUME NEW t \in SessionIds, NEW d \in Connections,
                          handlers'[d].bound, handlers'[d].session = t, handlers'[d].writes # 0,
                          handlers'[d].writes = clients[t].runtime
                   PROVE  Covered(clients[t], runtimes'[handlers'[d].writes].stored)
      BY <1>4 DEF SilentLossIsStale, Covered
    <3>2. handlers'[d] = handlers[d] /\ handlers[d].writes \in 1..Len(runtimes)
      BY <3>1, <2>1, <1>2, <1>4 DEF RegistryTypeOK, HandlerType, OwnersInv
    <3>3. Covered(clients[t], runtimes[handlers[d].writes].stored)
      BY <3>1, <3>2, <1>2 DEF SilentLossIsStale, Covered
    <3>4. QED
      BY <3>2, <3>3, <1>4
  <2>6. QED
    BY <2>2, <2>3, <2>4, <2>5 DEF RegistryInv
<1>5. ASSUME NEW c \in Connections, Disconnect(c) PROVE RegistryInv'
  <2>1. handlers' = [handlers EXCEPT ![c] = NoHandler] /\ UNCHANGED <<sessions, runtimes, clients>>
    BY <1>5 DEF Disconnect
  <2>2. QED
    BY <2>1, <1>2, <1>4 DEF RegistryTypeOK
<1>6. ASSUME NEW c \in Connections, StartRequest(c) PROVE RegistryInv'
  <2> DEFINE r == sessions[handlers[c].session]
  <2>1. r # 0 /\ Stored(r, TRUE, TRUE)
    BY <1>6 DEF StartRequest
  <2>2. PICK q \in DOMAIN runtimes : q = r
    <3>1. handlers[c].session \in SessionIds /\ runtimes \in Seq(RuntimeType)
      BY <1>2, <1>6 DEF RegistryTypeOK, StartRequest
    <3>2. r \in 0..Len(runtimes)
      BY <3>1, <1>2 DEF RegistryTypeOK
    <3>3. r \in DOMAIN runtimes
      BY <2>1, <3>1, <3>2
    <3>4. QED
      BY <3>3
  <2>3. QED
    BY <2>1, <2>2, <1>1, StoredKeeps
<1>7. ASSUME NEW r \in DOMAIN runtimes, RequestGoesOn(r) PROVE RegistryInv'
  <2>1. runtimes[r] \in RuntimeType
    BY <1>2 DEF RegistryTypeOK
  <2>2. runtimes[r].recent \in BOOLEAN
    BY <2>1 DEF RuntimeType
  <2>3. QED
    BY <2>2, <1>1, <1>7, StoredKeeps DEF RequestGoesOn
<1>8. ASSUME NEW r \in DOMAIN runtimes, Ages(r) PROVE RegistryInv'
  <2>1. /\ runtimes' = [runtimes EXCEPT ![r].recent = FALSE]
        /\ UNCHANGED <<sessions, handlers, clients>>
    BY <1>8 DEF Ages
  <2>2. /\ Len(runtimes') = Len(runtimes) /\ runtimes' \in Seq(RuntimeType)
        /\ \A q \in 1..Len(runtimes) : /\ runtimes'[q].session = runtimes[q].session
                                       /\ runtimes'[q].stored = runtimes[q].stored
    <3> DEFINE changed == [runtimes[r] EXCEPT !.recent = FALSE]
    <3>1. runtimes' = [runtimes EXCEPT ![r] = changed] /\ runtimes[r] \in RuntimeType
          /\ r \in 1..Len(runtimes)
      BY <2>1, <1>2 DEF RegistryTypeOK
    <3>2. /\ changed \in RuntimeType /\ changed.session = runtimes[r].session
          /\ changed.stored = runtimes[r].stored
      BY <3>1 DEF RuntimeType
    <3> HIDE DEF changed
    <3>3. QED
      BY <3>1, <3>2, <1>2 DEF RegistryTypeOK
  <2>3. QED
    BY <2>1, <2>2, <1>2, <1>4 DEF RegistryTypeOK
<1>9. ASSUME EvictExpired PROVE RegistryInv'
  <2>1. /\ sessions' = [s \in SessionIds |->
                    IF sessions[s] # 0 /\ ~runtimes[sessions[s]].recent THEN 0 ELSE sessions[s]]
        /\ UNCHANGED <<runtimes, handlers, clients>>
    BY <1>9 DEF EvictExpired
  <2>2. sessions' \in [SessionIds -> Nat] /\ \A s \in SessionIds : sessions'[s] \in {0, sessions[s]}
    BY <2>1, <1>2 DEF RegistryTypeOK
  <2>3. QED
    BY <2>1, <2>2, <1>2, <1>4 DEF RegistryTypeOK
<1>10. ASSUME RestartGateway PROVE RegistryInv'
  <2>1. /\ sessions' = [s \in SessionIds |-> 0]
        /\ runtimes' = [r \in DOMAIN runtimes |-> [runtimes[r] EXCEPT !.running = FALSE]]
        /\ handlers' = [c \in Connections |-> NoHandler]
        /\ UNCHANGED clients
    BY <1>10 DEF RestartGateway
  <2>2. runtimes \in Seq(RuntimeType) /\ DOMAIN runtimes = 1..Len(runtimes) /\ Len(runtimes) \in Nat
    BY <1>2 DEF RegistryTypeOK
  <2>3. \A r \in 1..Len(runtimes) :
          /\ runtimes'[r] \in RuntimeType
          /\ runtimes'[r].session = runtimes[r].session /\ runtimes'[r].stored = runtimes[r].stored
    <3>1. ASSUME NEW r \in 1..Len(runtimes)
          PROVE  /\ runtimes'[r] \in RuntimeType
                 /\ runtimes'[r].session = runtimes[r].session
                 /\ runtimes'[r].stored = runtimes[r].stored
      <4>1. runtimes[r] \in RuntimeType /\ runtimes'[r] = [runtimes[r] EXCEPT !.running = FALSE]
        BY <2>1, <2>2
      <4>2. QED
        BY <4>1 DEF RuntimeType
    <3>2. QED
      BY <3>1
  <2>4. runtimes' \in Seq(RuntimeType) /\ Len(runtimes') = Len(runtimes)
    BY <2>1, <2>2, <2>3
  <2>5. QED
    BY <2>1, <2>3, <2>4, <1>4
<1>11. QED
  BY <1>1, <1>3, <1>5, <1>6, <1>7, <1>8, <1>9, <1>10, BindKeeps DEF RegistryNext

LEMMA RegistryInitially == RegistryInit => RegistryInv
<1>1. SUFFICES ASSUME RegistryInit PROVE RegistryInv
  OBVIOUS
<1>2. /\ NewClient \in ClientType /\ NewClient.runtime = 0 /\ NewClient.seenIn = 0
      /\ NoHandler \in HandlerType /\ NoHandler.writes = 0 /\ ~NoHandler.bound
  BY DEF NewClient, ClientType, NoHandler, HandlerType
<1>3. /\ runtimes = <<>> /\ Len(runtimes) = 0 /\ runtimes \in Seq(RuntimeType)
      /\ \A s \in SessionIds : sessions[s] = 0 /\ clients[s] = NewClient
      /\ \A c \in Connections : handlers[c] = NoHandler
  BY <1>1 DEF RegistryInit
<1>4. RegistryTypeOK
  BY <1>1, <1>2, <1>3 DEF RegistryInit, RegistryTypeOK
<1>5. OwnersInv /\ SeenInv /\ SilentLossIsStale
  BY <1>2, <1>3 DEF OwnersInv, SeenInv, SilentLossIsStale
<1>6. QED
  BY <1>4, <1>5 DEF RegistryInv

\* A client that is written misses nothing without being told, but for what lies before an
\* index that it gave and that was of another runtime, for any window and any course of
\* binds, lost connections, evictions and restarts (server.py evict_expired, replay.py).
THEOREM StaleLossOnly == RegistrySpec => []SilentLossIsStale
<1>1. RegistryInv => SilentLossIsStale
  BY DEF RegistryInv
<1>2. QED
  BY <1>1, RegistryInitially, RegistryKept, PTL DEF RegistrySpec

-----------------------------------------------------------------------------
(* Histories and requests: at most one system message, at the head.        *)

SystemMessages == [role : {"system"}, prompt : Nat, blocks : SUBSET (Sources \X Nat)]
OtherMessages == [role : {"user", "assistant", "tool"}, text : Nat]
Messages == SystemMessages \union OtherMessages

Tidy(list) == \A i \in 2..Len(list) : ~IsSystem(list[i])
Body(list) == IF HasSystem(list) THEN Tail(list) ELSE list

LEMMA MessageKinds ==
  ASSUME NEW m \in Messages
  PROVE  /\ IsSystem(m) <=> m \in SystemMessages
         /\ ~IsSystem(m) <=> m \in OtherMessages
BY DEF Messages, SystemMessages, OtherMessages, IsSystem

LEMMA ElementsType ==
  ASSUME NEW S, NEW T, NEW list \in Seq(T), \A i \in 1..Len(list) : list[i] \in S
  PROVE  list \in Seq(S)
OBVIOUS

LEMMA BodyType ==
  ASSUME NEW list \in Seq(Messages), Tidy(list)
  PROVE  Body(list) \in Seq(OtherMessages)
<1>1. Len(list) \in Nat /\ \A i \in 1..Len(list) : list[i] \in Messages
  OBVIOUS
<1>2. CASE HasSystem(list)
  <2>1. Len(list) # 0 /\ Tail(list) \in Seq(Messages) /\ Len(Tail(list)) = Len(list) - 1
    BY <1>2 DEF HasSystem
  <2>2. ASSUME NEW i \in 1..Len(Tail(list)) PROVE Tail(list)[i] \in OtherMessages
    <3>1. Tail(list)[i] = list[i + 1] /\ i + 1 \in 2..Len(list) /\ i + 1 \in 1..Len(list)
      BY <2>1, <1>1
    <3>2. QED
      BY <3>1, <1>1, MessageKinds DEF Tidy
  <2>3. Tail(list) \in Seq(OtherMessages)
    BY <2>1, <2>2, ElementsType
  <2>4. QED
    BY <1>2, <2>3 DEF Body
<1>3. CASE ~HasSystem(list)
  <2>1. ASSUME NEW i \in 1..Len(list) PROVE list[i] \in OtherMessages
    <3>1. CASE i = 1
      <4>1. list # <<>> /\ Head(list) = list[1]
        BY <3>1, <1>1
      <4>2. QED
        BY <3>1, <4>1, <1>1, <1>3, MessageKinds DEF HasSystem
    <3>2. CASE i # 1
      <4>1. i \in 2..Len(list)
        BY <3>2, <1>1
      <4>2. QED
        BY <4>1, <1>1, MessageKinds DEF Tidy
    <3>3. QED
      BY <3>1, <3>2
  <2>2. QED
    BY <2>1, <1>1, <1>3 DEF Body
<1>4. QED
  BY <1>2, <1>3

\* What the two selections find in such a list.
LEMMA TidySelections ==
  ASSUME NEW list \in Seq(Messages), Tidy(list)
  PROVE  /\ NonSystem(list) = Body(list)
         /\ Systems(list) = IF HasSystem(list) THEN <<Head(list)>> ELSE <<>>
<1> DEFINE N == Len(list)
           others == {i \in 1..Len(list) : ~IsSystem(list[i])}
           systems == {i \in 1..Len(list) : IsSystem(list[i])}
<1>1. N \in Nat
  OBVIOUS
<1>2. CASE HasSystem(list)
  <2>1. N >= 1 /\ Head(list) = list[1] /\ IsSystem(list[1])
    BY <1>1, <1>2 DEF HasSystem
  <2>2. others = 2..N /\ systems = 1..1
    BY <1>1, <2>1 DEF Tidy
  <2>3. 2 \in 1..N + 1 /\ 1 \in 1..N + 1 /\ N \in 0..N /\ 1 \in 0..N
    BY <1>1, <2>1
  <2>4. NonSystem(list) = SubSeq(list, 2, N)
    BY <2>2, <2>3, KeepingInterval DEF NonSystem
  <2>5. Systems(list) = SubSeq(list, 1, 1)
    BY <2>2, <2>3, KeepingInterval DEF Systems
  <2>6. SubSeq(list, 2, N) = Tail(list)
    BY <2>1, <1>1
  <2>8. SubSeq(list, 1, 1) = <<Head(list)>>
    <3>1. SubSeq(list, 1, 1) = Append(SubSeq(list, 1, 0), list[1])
      BY <2>1, <1>1
    <3>2. SubSeq(list, 1, 0) = <<>>
      BY <1>1
    <3>3. Append(<<>>, list[1]) = <<list[1]>>
      OBVIOUS
    <3>4. QED
      BY <2>1, <3>1, <3>2, <3>3
  <2>7. QED
    BY <1>2, <2>4, <2>5, <2>6, <2>8 DEF Body
<1>3. CASE ~HasSystem(list)
  <2>1. N >= 1 => ~IsSystem(list[1])
    BY <1>1, <1>3 DEF HasSystem
  <2>2. others = 1..N /\ systems = 1..0
    BY <1>1, <2>1 DEF Tidy
  <2>3. 1 \in 1..N + 1 /\ N \in 0..N /\ 0 \in 0..N
    BY <1>1
  <2>4. NonSystem(list) = SubSeq(list, 1, N)
    BY <2>2, <2>3, KeepingInterval DEF NonSystem
  <2>5. Systems(list) = SubSeq(list, 1, 0)
    BY <2>2, <2>3, KeepingInterval DEF Systems
  <2>6. SubSeq(list, 1, N) = list /\ SubSeq(list, 1, 0) = <<>>
    BY <1>1
  <2>7. QED
    BY <1>3, <2>4, <2>5, <2>6 DEF Body
<1>4. QED
  BY <1>2, <1>3

\* A system message, or none, before others.
LEMMA Joined ==
  ASSUME NEW head \in Seq(SystemMessages), Len(head) <= 1, NEW body \in Seq(OtherMessages)
  PROVE  /\ head \o body \in Seq(Messages) /\ Tidy(head \o body)
         /\ Body(head \o body) = body
         /\ HasSystem(head \o body) <=> head # <<>>
         /\ head # <<>> => head = <<Head(head \o body)>>
<1> DEFINE list == head \o body
<1>1. /\ Len(head) \in Nat /\ Len(body) \in Nat /\ Len(list) = Len(head) + Len(body)
      /\ \A i \in 1..Len(list) :
           list[i] = IF i <= Len(head) THEN head[i] ELSE body[i - Len(head)]
  OBVIOUS
<1>2. \A i \in 1..Len(body) : body[i] \in OtherMessages
  OBVIOUS
<1>3. \A i \in 1..Len(list) : i > Len(head) => list[i] \in OtherMessages
  BY <1>1, <1>2
<1>4. list \in Seq(Messages)
  BY DEF Messages
<1>5. Tidy(list)
  <2>1. ASSUME NEW i \in 2..Len(list) PROVE ~IsSystem(list[i])
    <3>1. list[i] \in OtherMessages
      BY <1>1, <1>3
    <3>2. QED
      BY <3>1 DEF OtherMessages, IsSystem
  <2>2. QED
    BY <2>1 DEF Tidy
<1>6. CASE head = <<>>
  <2>1. list = body
    BY <1>6
  <2>2. ~HasSystem(list)
    <3>1. CASE body # <<>>
      <4>1. Head(list) \in OtherMessages
        BY <2>1, <3>1
      <4>2. QED
        BY <4>1 DEF HasSystem, OtherMessages, IsSystem
    <3>2. QED
      BY <2>1, <3>1 DEF HasSystem
  <2>3. QED
    BY <1>4, <1>5, <1>6, <2>1, <2>2 DEF Body
<1>7. CASE head # <<>>
  <2>6. Len(head) = 1
    <3>1. Len(head) \in Nat \ {0}
      BY <1>7, EmptySeq
    <3>2. \A n \in Nat \ {0} : n <= 1 => n = 1
      OBVIOUS
    <3>3. QED
      BY ONLY <3>1, <3>2, Len(head) <= 1
  <2>1. Len(head) = 1 /\ head[1] \in SystemMessages /\ list # <<>>
    <3>1. head[1] \in SystemMessages
      BY <2>6
    <3>2. Len(list) # 0
      BY <1>1, <2>6
    <3>3. QED
      BY <2>6, <3>1, <3>2
  <2>2. Head(list) = head[1] /\ head = <<head[1]>>
    BY <2>1, <1>1
  <2>3. HasSystem(list)
    BY <2>1, <2>2 DEF HasSystem, SystemMessages, IsSystem
  <2>4. Tail(list) = body
    BY <2>1, <1>1
  <2>5. QED
    BY <1>4, <1>5, <1>7, <2>2, <2>3, <2>4 DEF Body
<1>8. QED
  BY <1>6, <1>7

\* And so is every such list.
LEMMA Parted ==
  ASSUME NEW list \in Seq(Messages), Tidy(list)
  PROVE  \E head \in Seq(SystemMessages) :
           /\ Len(head) <= 1 /\ list = head \o Body(list)
           /\ head = IF HasSystem(list) THEN <<Head(list)>> ELSE <<>>
<1>1. CASE HasSystem(list)
  <2>1. list # <<>> /\ Head(list) \in Messages
    BY <1>1 DEF HasSystem
  <2>2. Head(list) \in SystemMessages
    BY <1>1, <2>1, MessageKinds DEF HasSystem
  <2>3. <<Head(list)>> \in Seq(SystemMessages) /\ Len(<<Head(list)>>) = 1
    BY <2>2
  <2>4. list = <<Head(list)>> \o Tail(list)
    BY <2>1
  <2>5. Body(list) = Tail(list)
    BY <1>1 DEF Body
  <2> DEFINE head == <<Head(list)>>
  <2>6. head \in Seq(SystemMessages) /\ Len(head) <= 1 /\ list = head \o Body(list)
    BY <2>3, <2>4, <2>5
  <2>7. QED
    BY <1>1, <2>6
<1>2. CASE ~HasSystem(list)
  <2> DEFINE head == <<>>
  <2>1. head \in Seq(SystemMessages) /\ Len(head) <= 1 /\ list = head \o list
    OBVIOUS
  <2>2. Body(list) = list
    BY <1>2 DEF Body
  <2>3. QED
    BY <1>2, <2>1, <2>2
<1>3. QED
  BY <1>1, <1>2

LEMMA ComposedType ==
  ASSUME NEW prompt \in Nat, NEW context \in [Sources -> Nat]
  PROVE  Composed(prompt, context) \in Seq(SystemMessages) /\ Len(Composed(prompt, context)) <= 1
<1>1. Blocks(context) \in SUBSET (Sources \X Nat)
  BY DEF Blocks
<1>2. [role |-> "system", prompt |-> prompt, blocks |-> Blocks(context)] \in SystemMessages
  BY <1>1 DEF SystemMessages
<1>3. QED
  BY <1>2 DEF Composed

-----------------------------------------------------------------------------
(* Requests: the inductive invariant.                                      *)

TurnType ==
  [number : Nat, kind : {"none"} \union TurnKinds, prompt : Nat,
   context : [Sources -> Nat], rounds : Nat]

RequestTypeOK ==
  /\ base \in Nat /\ known \in [Sources -> Nat] /\ installed \in [Sources -> Nat]
  /\ messages \in Seq(Messages) /\ turn \in TurnType /\ request \in Seq(Messages)

\* The system message of the history is of the prompt and the context there are.
PromptInv ==
  /\ Tidy(messages)
  /\ HasSystem(messages) => Composed(base, installed) = <<Head(messages)>>

SentInv ==
  /\ turn.kind = "none" => request = <<>> /\ sent = {}
  /\ turn.kind = "agent" => sent \subseteq {Composed(turn.prompt, turn.context)}
  /\ request # <<>> => Tidy(request) /\ Body(request) = Body(messages)

\* The questions in a history are numbered, and the last one is there once at most.
Questions(body, n) ==
  /\ \A i \in 1..Len(body) : body[i].role = "user" => body[i].text <= n
  /\ \A i, j \in 1..Len(body) : body[i] = User(n) /\ body[j] = User(n) => i = j

\* The n-th question is followed by so many messages.
Asked(body, n, behind) == behind < Len(body) /\ body[Len(body) - behind] = User(n)

QuestionInv ==
  /\ Questions(Body(messages), turn.number)
  /\ turn.kind # "none" /\ 2 * turn.rounds < MaxHistory =>
       Asked(Body(messages), turn.number, 2 * turn.rounds)

RequestContextInv == RequestTypeOK /\ PromptInv /\ SentInv /\ QuestionInv

-----------------------------------------------------------------------------
(* What the operations make of the history.                                *)

LEMMA Part ==
  ASSUME NEW S, NEW list \in Seq(S), NEW a \in 1..Len(list) + 1, NEW b \in a - 1..Len(list)
  PROVE  /\ SubSeq(list, a, b) \in Seq(S) /\ Len(SubSeq(list, a, b)) = b - a + 1
         /\ \A i \in 1..b - a + 1 : SubSeq(list, a, b)[i] = list[a + i - 1]
<1>1. Len(list) \in Nat /\ a \in Int /\ b \in Int /\ \A i \in a..b : list[i] \in S
  BY SMT
<1>2. QED
  BY <1>1, SubSeqProperties

\* Some of the oldest messages may go.
Follows(body, old, m) ==
  \E d \in 0..Len(old) :
    /\ body = SubSeq(Append(old, m), d + 1, Len(old) + 1)
    /\ d = 0 \/ Len(old) + 1 - d = MaxHistory

LEMMA AddedFacts ==
  ASSUME RequestAssumption, NEW list \in Seq(Messages), Tidy(list), NEW m \in OtherMessages
  PROVE  LET new == Added(list, m) IN
         /\ new \in Seq(Messages) /\ Tidy(new)
         /\ HasSystem(new) <=> HasSystem(list)
         /\ HasSystem(list) => Head(new) = Head(list)
         /\ Follows(Body(new), Body(list), m)
<1> DEFINE new == Added(list, m)
           body == Body(list)
           longer == Append(list, m)
           N == Len(body)
<1>1. PICK head \in Seq(SystemMessages) :
        /\ Len(head) <= 1 /\ list = head \o body
        /\ head = IF HasSystem(list) THEN <<Head(list)>> ELSE <<>>
  BY Parted
<1>2. body \in Seq(OtherMessages) /\ N \in Nat /\ MaxHistory \in Nat /\ MaxHistory >= 1
  BY BodyType, RequestAssumption DEF RequestAssumption
<1>3. /\ Append(body, m) \in Seq(OtherMessages) /\ Len(Append(body, m)) = N + 1
      /\ longer = head \o Append(body, m) /\ Len(longer) = Len(head) + N + 1
  BY <1>1, <1>2
<1>4. HasSystem(longer) <=> HasSystem(list)
  BY <1>1, <1>2, <1>3, Joined
<1>5. HasSystem(list) => <<Head(longer)>> = head
  BY <1>1, <1>2, <1>3, Joined
<1>6. \E d \in 0..N :
        /\ new = head \o SubSeq(Append(body, m), d + 1, N + 1)
        /\ d = 0 \/ N + 1 - d = MaxHistory
  <2>1. CASE Len(longer) <= MaxHistory
    <3>1. new = longer
      BY <2>1 DEF Added
    <3>2. SubSeq(Append(body, m), 0 + 1, N + 1) = Append(body, m)
      BY <1>2, <1>3
    <3>3. 0 \in 0..N
      BY <1>2
    <3>4. QED
      BY <3>1, <3>2, <3>3, <1>3
  <2>2. CASE Len(longer) > MaxHistory
    <3> DEFINE last == SubSeq(longer, Len(longer) - MaxHistory + 1, Len(longer))
               gone == N + 1 - MaxHistory
    <3>1. new = (IF HasSystem(longer) THEN <<Head(longer)>> ELSE <<>>) \o last
      <4>1. ~(Len(longer) <= MaxHistory)
        BY <2>2, <1>2, <1>3
      <4>2. QED
        BY <4>1 DEF Added
    <3>2. new = head \o last
      BY <3>1, <1>1, <1>4, <1>5
    <3>3. Len(head) \in 0..1
      BY <1>1
    <3>4. gone \in 0..N
      BY <2>2, <1>2, <1>3, <3>3
    <3>5. last = SubSeq(Append(body, m), gone + 1, N + 1)
      <4>1. CASE Len(head) = 0
        <5>1. head = <<>>
          BY <4>1, EmptySeq
        <5>2. longer = Append(body, m)
          BY <5>1, <1>3
        <5>3. Len(longer) - MaxHistory + 1 = gone + 1 /\ Len(longer) = N + 1
          BY <4>1, <1>2, <1>3
        <5>4. QED
          BY <5>2, <5>3
      <4>2. CASE Len(head) = 1
        <5>1. \A i \in 1..N + 1 : longer[i + 1] = Append(body, m)[i]
          BY <4>2, <1>2, <1>3
        <5> DEFINE part == SubSeq(Append(body, m), gone + 1, N + 1)
                   from == Len(longer) - MaxHistory + 1
        <5>2. /\ longer \in Seq(Messages) /\ Len(longer) = N + 2 /\ from = gone + 2
              /\ from \in 1..Len(longer) + 1 /\ Len(longer) \in from - 1..Len(longer)
              /\ Len(longer) - from + 1 = MaxHistory
          BY <4>2, <1>2, <1>3, <3>4 DEF Messages
        <5>3. /\ last \in Seq(Messages) /\ Len(last) = MaxHistory
              /\ \A i \in 1..MaxHistory : last[i] = longer[from + i - 1]
          <6> HIDE DEF from, longer
          <6>1. last = SubSeq(longer, from, Len(longer))
            BY DEF from
          <6>2. /\ SubSeq(longer, from, Len(longer)) \in Seq(Messages)
                /\ Len(SubSeq(longer, from, Len(longer))) = Len(longer) - from + 1
                /\ \A i \in 1..Len(longer) - from + 1 :
                     SubSeq(longer, from, Len(longer))[i] = longer[from + i - 1]
            BY <5>2, Part
          <6>3. QED
            BY <5>2, <6>1, <6>2
        <5>4. /\ gone + 1 \in 1..N + 2 /\ N + 1 \in gone + 1 - 1..N + 1
              /\ N + 1 - (gone + 1) + 1 = MaxHistory
          BY <1>2, <3>4
        <5>5. /\ part \in Seq(OtherMessages) /\ Len(part) = MaxHistory
              /\ \A i \in 1..MaxHistory : part[i] = Append(body, m)[gone + 1 + i - 1]
          <6> DEFINE asked == Append(body, m)
          <6>1. asked \in Seq(OtherMessages) /\ Len(asked) = N + 1
            BY <1>3
          <6> HIDE DEF asked
          <6>2. /\ SubSeq(asked, gone + 1, N + 1) \in Seq(OtherMessages)
                /\ Len(SubSeq(asked, gone + 1, N + 1)) = N + 1 - (gone + 1) + 1
                /\ \A i \in 1..N + 1 - (gone + 1) + 1 :
                     SubSeq(asked, gone + 1, N + 1)[i] = asked[gone + 1 + i - 1]
            BY <5>4, <6>1, Part
          <6>3. QED
            BY <5>4, <6>2 DEF asked
        <5>6. part \in Seq(Messages)
          BY <5>5, SeqMonotonic DEF Messages
        <5>7. ASSUME NEW i \in 1..MaxHistory PROVE last[i] = part[i]
          <6>1. /\ gone + i \in 1..N + 1 /\ gone + 1 + i - 1 = gone + i
                /\ from + i - 1 = gone + i + 1
            BY <1>2, <3>4, <5>2
          <6>2. QED
            BY <6>1, <5>1, <5>3, <5>5
        <5>8. last = part
          <6> HIDE DEF part, last
          <6>1. Len(last) = Len(part) /\ \A i \in 1..Len(last) : last[i] = part[i]
            BY <5>3, <5>5, <5>7
          <6>2. QED
            BY <5>3, <5>6, <6>1, SeqEqual
        <5>9. QED
          BY <5>8
      <4>3. Len(head) = 0 \/ Len(head) = 1
        BY <3>3
      <4>4. QED
        <5> HIDE DEF last, gone, N, body
        <5>1. QED
          BY <4>1, <4>2, <4>3
    <3>6. N + 1 - gone = MaxHistory
      BY <1>2
    <3>7. new = head \o SubSeq(Append(body, m), gone + 1, N + 1)
      BY <3>2, <3>5
    <3>8. QED
      <4> HIDE DEF new, gone, N, body
      <4>1. QED
        BY <3>4, <3>6, <3>7
  <2>3. Len(longer) <= MaxHistory \/ Len(longer) > MaxHistory
    <3>1. Len(longer) \in Nat
      BY <1>1, <1>2, <1>3
    <3>2. QED
      BY <3>1, <1>2
  <2>4. QED
    <3> HIDE DEF new, longer, N, body
    <3>1. QED
      BY <2>1, <2>2, <2>3
<1>7. PICK d \in 0..N :
        /\ new = head \o SubSeq(Append(body, m), d + 1, N + 1)
        /\ d = 0 \/ N + 1 - d = MaxHistory
  BY <1>6
<1> DEFINE rest == SubSeq(Append(body, m), d + 1, N + 1)
<1>8. rest \in Seq(OtherMessages)
  BY <1>2, <1>3
<1>9. /\ new \in Seq(Messages) /\ Tidy(new) /\ Body(new) = rest
      /\ HasSystem(new) <=> head # <<>>
      /\ head # <<>> => head = <<Head(new)>>
  BY <1>1, <1>7, <1>8, Joined
<1>10. HasSystem(list) <=> head # <<>>
  BY <1>1
<1>11. HasSystem(list) => Head(new) = Head(list)
  BY <1>1, <1>9, <1>10
<1>12. Follows(Body(new), Body(list), m)
  BY <1>7, <1>9 DEF Follows
<1>13. QED
  BY <1>9, <1>10, <1>11, <1>12

\* What does not ask leaves the last question alone, and as long as it fits, where it is.
LEMMA FollowingKeeps ==
  ASSUME NEW old \in Seq(OtherMessages), NEW body \in Seq(OtherMessages),
         NEW m \in OtherMessages, Follows(body, old, m), NEW n \in Nat, Questions(old, n)
  PROVE  /\ m.role # "user" => Questions(body, n)
         /\ m = User(n + 1) => Questions(body, n + 1) /\ Asked(body, n + 1, 0)
         /\ \A behind \in Nat :
              Asked(old, n, behind) /\ behind + 1 < MaxHistory => Asked(body, n, behind + 1)
<1>1. PICK d \in 0..Len(old) :
        /\ body = SubSeq(Append(old, m), d + 1, Len(old) + 1)
        /\ d = 0 \/ Len(old) + 1 - d = MaxHistory
  BY DEF Follows
<1>2. /\ Len(old) \in Nat /\ d \in Nat /\ Append(old, m) \in Seq(OtherMessages)
      /\ Len(Append(old, m)) = Len(old) + 1
  OBVIOUS
<1>3. Len(body) = Len(old) + 1 - d
  BY <1>1, <1>2
<1>4. ASSUME NEW i \in 1..Len(body)
      PROVE  /\ d + i \in 1..Len(old) + 1
             /\ body[i] = IF d + i = Len(old) + 1 THEN m ELSE old[d + i]
  <2>1. d + i \in 1..Len(old) + 1
    BY <1>2, <1>3
  <2>2. body[i] = Append(old, m)[d + i]
    <3> DEFINE all == Append(old, m)
    <3>1. SubSeq(all, d + 1, Len(all))[i] = all[(d + 1) + i - 1]
      <4>1. all \in Seq(OtherMessages) /\ d + 1 \in Nat /\ Len(all) \in Nat
            /\ i \in 1..Len(all) - (d + 1) + 1
        BY <1>2, <1>3
      <4> HIDE DEF all
      <4>2. QED
        BY <4>1
    <3>2. (d + 1) + i - 1 = d + i
      BY <1>2, <1>3
    <3>3. QED
      BY <1>1, <1>2, <3>1, <3>2
  <2>3. QED
    BY <2>1, <2>2, <1>2
<1>5. ASSUME m.role # "user" PROVE Questions(body, n)
  <2>1. m # User(n)
    BY <1>5 DEF User
  <2>2. ASSUME NEW i \in 1..Len(body), body[i].role = "user" PROVE body[i].text <= n
    <3>1. d + i # Len(old) + 1 /\ d + i \in 1..Len(old)
      BY <1>2, <1>4, <1>5, <2>2
    <3>2. QED
      BY <3>1, <1>4, <2>2 DEF Questions
  <2>3. ASSUME NEW i \in 1..Len(body), NEW j \in 1..Len(body),
               body[i] = User(n), body[j] = User(n)
        PROVE  i = j
    <3>1. d + i # Len(old) + 1 /\ d + j # Len(old) + 1
      BY <1>4, <2>1, <2>3
    <3>6. d + i \in 1..Len(old) + 1 /\ d + j \in 1..Len(old) + 1
      BY <1>4
    <3>4. d + i \in 1..Len(old) /\ d + j \in 1..Len(old)
      BY <3>1, <3>6, <1>2
    <3>5. old[d + i] = User(n) /\ old[d + j] = User(n)
      BY <3>1, <1>4, <2>3
    <3>2. d + i = d + j
      BY <3>4, <3>5 DEF Questions
    <3>3. QED
      BY <3>2, <1>2
  <2>4. QED
    BY <2>2, <2>3 DEF Questions
<1>6. ASSUME m = User(n + 1) PROVE Questions(body, n + 1) /\ Asked(body, n + 1, 0)
  <2>1. m.text = n + 1
    BY <1>6 DEF User
  <2>2. ASSUME NEW i \in 1..Len(body), body[i].role = "user"
        PROVE  /\ body[i].text <= n + 1
               /\ d + i # Len(old) + 1 => body[i].text <= n
    <3>1. CASE d + i = Len(old) + 1
      BY <3>1, <1>4, <2>1
    <3>2. CASE d + i # Len(old) + 1
      <4>1. d + i \in 1..Len(old) /\ body[i] = old[d + i]
        BY <3>2, <1>2, <1>4
      <4>4. old[d + i] \in OtherMessages
        BY <4>1
      <4>5. old[d + i].text \in Nat
        BY <4>4 DEF OtherMessages
      <4>2. old[d + i].text <= n /\ old[d + i].text \in Nat
        BY <4>1, <4>5, <2>2 DEF Questions
      <4>3. QED
        BY <4>1, <4>2
    <3>3. QED
      BY <3>1, <3>2
  <2>3. ASSUME NEW i \in 1..Len(body), body[i] = User(n + 1) PROVE d + i = Len(old) + 1
    <3>1. body[i].role = "user" /\ body[i].text = n + 1
      BY <2>3 DEF User
    <3>2. QED
      BY <2>2, <3>1
  <2>4. Questions(body, n + 1)
    <3>1. \A i, j \in 1..Len(body) :
            body[i] = User(n + 1) /\ body[j] = User(n + 1) => i = j
      BY <2>3, <1>2
    <3>2. QED
      BY <2>2, <3>1 DEF Questions
  <2>5. Len(body) >= 1 /\ Len(body) \in 1..Len(body) /\ d + Len(body) = Len(old) + 1
    BY <1>2, <1>3
  <2>6. body[Len(body)] = m
    BY <2>5, <1>4
  <2>7. Asked(body, n + 1, 0)
    BY <2>5, <2>6, <1>6 DEF Asked
  <2>8. QED
    BY <2>4, <2>7
<1>7. ASSUME NEW behind \in Nat, Asked(old, n, behind), behind + 1 < MaxHistory
      PROVE  Asked(body, n, behind + 1)
  <2>1. behind < Len(old) /\ old[Len(old) - behind] = User(n)
    BY <1>7 DEF Asked
  <2>2. behind + 1 < Len(body)
    BY <1>1, <1>2, <1>3, <1>7, <2>1
  <2>3. Len(body) - (behind + 1) \in 1..Len(body)
    BY <1>2, <1>3, <2>2
  <2>4. d + (Len(body) - (behind + 1)) = Len(old) - behind
    BY <1>2, <1>3
  <2>5. body[Len(body) - (behind + 1)] = old[Len(old) - behind]
    BY <1>2, <1>4, <2>1, <2>3, <2>4
  <2>6. QED
    BY <2>1, <2>2, <2>5 DEF Asked
<1>8. QED
  BY <1>5, <1>6, <1>7

\* Synced changes nothing but the system message.
LEMMA SyncedFacts ==
  ASSUME NEW list \in Seq(Messages), Tidy(list),
         NEW prompt \in Nat, NEW context \in [Sources -> Nat]
  PROVE  LET new == Synced(list, prompt, context) IN
         /\ new \in Seq(Messages) /\ Tidy(new) /\ Body(new) = Body(list)
         /\ HasSystem(new) => Composed(prompt, context) = <<Head(new)>>
<1>1. Synced(list, prompt, context) = Composed(prompt, context) \o Body(list)
  BY DEF Synced, Body
<1>2. Body(list) \in Seq(OtherMessages)
  BY BodyType
<1>3. /\ Composed(prompt, context) \in Seq(SystemMessages)
      /\ Len(Composed(prompt, context)) <= 1
  BY ComposedType
<1>4. QED
  BY <1>1, <1>2, <1>3, Joined

\* A request is a system message, or none, before the messages of the history.
LEMMA RequestFacts ==
  ASSUME RequestTypeOK, PromptInv
  PROVE  /\ BuildRequestMessages \in Seq(Messages) /\ Tidy(BuildRequestMessages)
         /\ Body(BuildRequestMessages) = Body(messages)
         /\ turn.kind = "agent" =>
              Systems(BuildRequestMessages) = Composed(turn.prompt, turn.context)
<1>1. /\ messages \in Seq(Messages) /\ Tidy(messages) /\ base \in Nat
      /\ turn.prompt \in Nat /\ turn.context \in [Sources -> Nat]
  BY DEF RequestTypeOK, PromptInv, TurnType
<1>2. NonSystem(messages) = Body(messages) /\ Body(messages) \in Seq(OtherMessages)
  BY <1>1, TidySelections, BodyType
<1>3. ASSUME NEW prompt \in Nat
      PROVE  LET new == Composed(prompt, turn.context) \o NonSystem(messages) IN
             /\ new \in Seq(Messages) /\ Tidy(new) /\ Body(new) = Body(messages)
             /\ Systems(new) = Composed(prompt, turn.context)
  <2> DEFINE head == Composed(prompt, turn.context)
             new == head \o NonSystem(messages)
  <2>1. head \in Seq(SystemMessages) /\ Len(head) <= 1
    BY <1>1, ComposedType
  <2> HIDE DEF head
  <2>2. /\ new \in Seq(Messages) /\ Tidy(new) /\ Body(new) = Body(messages)
        /\ HasSystem(new) <=> head # <<>>
        /\ head # <<>> => head = <<Head(new)>>
    BY <2>1, <1>2, Joined
  <2>3. Systems(new) = IF HasSystem(new) THEN <<Head(new)>> ELSE <<>>
    BY <2>2, TidySelections
  <2>4. Systems(new) = head
    BY <2>2, <2>3
  <2>5. QED
    BY <2>2, <2>4 DEF head
<1>4. CASE turn.kind = "agent"
  BY <1>1, <1>3, <1>4 DEF BuildRequestMessages, FromEnvelope
<1>5. CASE turn.kind = "workflow"
  BY <1>1, <1>3, <1>5 DEF BuildRequestMessages, FromContext
<1>6. CASE turn.kind \notin {"agent", "workflow"}
  <2>1. BuildRequestMessages = messages
    BY <1>6 DEF BuildRequestMessages
  <2>2. QED
    BY <2>1, <1>1, <1>6
<1>7. QED
  BY <1>4, <1>5, <1>6

-----------------------------------------------------------------------------
(* Requests: every step keeps the invariant.                               *)

LEMMA InitialContext == RequestAssumption /\ RequestInit => RequestContextInv
<1> SUFFICES ASSUME RequestAssumption, RequestInit PROVE RequestContextInv
  OBVIOUS
<1>1. Nothing \in [Sources -> Nat] /\ base \in Nat
  BY DEF RequestInit, Nothing
<1>2. <<>> \in Seq(Messages) /\ Tidy(<<>>) /\ Body(<<>>) = <<>>
  BY DEF Tidy, Body, HasSystem
<1>3. messages = Synced(<<>>, base, Nothing)
  BY DEF RequestInit
<1>4. /\ messages \in Seq(Messages) /\ Tidy(messages) /\ Body(messages) = <<>>
      /\ HasSystem(messages) => Composed(base, Nothing) = <<Head(messages)>>
  BY <1>1, <1>2, <1>3, SyncedFacts
<1>5. Idle \in TurnType
  BY <1>1 DEF Idle, TurnType
<1>6. RequestTypeOK /\ PromptInv
  BY <1>1, <1>4, <1>5 DEF RequestInit, RequestTypeOK, PromptInv
<1>7. SentInv
  BY DEF RequestInit, Idle, SentInv
<1>8. QuestionInv
  BY <1>4 DEF RequestInit, Idle, QuestionInv, Questions
<1>9. QED
  BY <1>6, <1>7, <1>8 DEF RequestContextInv

LEMMA AskKeeps ==
  ASSUME RequestAssumption, RequestContextInv,
         NEW kind \in TurnKinds, Ask(kind)
  PROVE  RequestContextInv'
<1>1. /\ RequestTypeOK /\ PromptInv /\ SentInv /\ QuestionInv
      /\ turn.number \in Nat /\ messages \in Seq(Messages)
  BY DEF RequestContextInv, RequestTypeOK, TurnType
<1>2. User(turn.number + 1) \in OtherMessages
  BY <1>1 DEF User, OtherMessages
<1>3. /\ messages' \in Seq(Messages) /\ Tidy(messages')
      /\ HasSystem(messages') <=> HasSystem(messages)
      /\ HasSystem(messages) => Head(messages') = Head(messages)
      /\ Follows(Body(messages'), Body(messages), User(turn.number + 1))
  BY <1>1, <1>2, AddedFacts DEF Ask, PromptInv
<1>4. /\ turn' = [number |-> turn.number + 1, kind |-> kind, prompt |-> base,
                  context |-> known, rounds |-> 0]
      /\ UNCHANGED <<base, known, installed, request, sent>>
      /\ request = <<>> /\ sent = {}
  BY <1>1 DEF Ask, SentInv
<1>5. RequestTypeOK'
  BY <1>1, <1>3, <1>4 DEF RequestTypeOK, TurnType
<1>6. PromptInv'
  BY <1>1, <1>3, <1>4 DEF PromptInv
<1>7. SentInv'
  BY <1>4 DEF SentInv
<1>8. Body(messages) \in Seq(OtherMessages) /\ Body(messages') \in Seq(OtherMessages)
  BY <1>1, <1>3, BodyType DEF PromptInv
<1>9. /\ Questions(Body(messages'), turn.number + 1)
      /\ Asked(Body(messages'), turn.number + 1, 0)
  BY <1>1, <1>2, <1>3, <1>8, FollowingKeeps DEF QuestionInv
<1>10. turn'.number = turn.number + 1 /\ 2 * turn'.rounds = 0
  BY <1>4
<1>11. QuestionInv'
  BY <1>9, <1>10 DEF QuestionInv
<1>12. QED
  BY <1>5, <1>6, <1>7, <1>11 DEF RequestContextInv

LEMMA SendRequestKeeps ==
  ASSUME RequestContextInv, SendRequest
  PROVE  RequestContextInv'
<1>1. RequestTypeOK /\ PromptInv /\ SentInv /\ QuestionInv
  BY DEF RequestContextInv
<1>2. /\ request' = BuildRequestMessages
      /\ sent' = sent \union {Systems(BuildRequestMessages)}
      /\ UNCHANGED <<base, known, installed, messages, turn>>
      /\ turn.kind # "none"
  BY DEF SendRequest
<1>3. /\ request' \in Seq(Messages) /\ Tidy(request') /\ Body(request') = Body(messages)
      /\ turn.kind = "agent" =>
           Systems(BuildRequestMessages) = Composed(turn.prompt, turn.context)
  BY <1>1, <1>2, RequestFacts
<1>4. RequestTypeOK' /\ PromptInv' /\ QuestionInv'
  BY <1>1, <1>2, <1>3 DEF RequestTypeOK, PromptInv, QuestionInv
<1>5. SentInv'
  BY <1>1, <1>2, <1>3 DEF SentInv
<1>6. QED
  BY <1>4, <1>5 DEF RequestContextInv

LEMMA ToolRoundKeeps ==
  ASSUME RequestAssumption, RequestContextInv, ToolRound
  PROVE  RequestContextInv'
<1> DEFINE half == Added(messages, Assistant)
<1>1. /\ RequestTypeOK /\ PromptInv /\ SentInv /\ QuestionInv
      /\ turn.number \in Nat /\ turn.rounds \in Nat
      /\ turn.kind \in {"none"} \union TurnKinds
      /\ messages \in Seq(Messages)
  BY DEF RequestContextInv, RequestTypeOK, TurnType
<1>2. /\ Assistant \in OtherMessages /\ Assistant.role # "user"
      /\ ToolResult \in OtherMessages /\ ToolResult.role # "user"
  BY DEF Assistant, ToolResult, OtherMessages
<1>3. /\ half \in Seq(Messages) /\ Tidy(half)
      /\ HasSystem(half) <=> HasSystem(messages)
      /\ HasSystem(messages) => Head(half) = Head(messages)
      /\ Follows(Body(half), Body(messages), Assistant)
  BY <1>1, <1>2, AddedFacts DEF PromptInv
<1> HIDE DEF half
<1>4. messages' = Added(half, ToolResult)
  BY DEF ToolRound, half
<1>5. /\ messages' \in Seq(Messages) /\ Tidy(messages')
      /\ HasSystem(messages') <=> HasSystem(half)
      /\ HasSystem(half) => Head(messages') = Head(half)
      /\ Follows(Body(messages'), Body(half), ToolResult)
  BY <1>2, <1>3, <1>4, AddedFacts
<1>6. /\ turn' = [turn EXCEPT !.rounds = @ + 1] /\ request' = <<>>
      /\ UNCHANGED <<base, known, installed, sent>>
      /\ turn.kind # "none"
  BY <1>1 DEF ToolRound, SentInv
<1>7. /\ turn'.number = turn.number /\ turn'.kind = turn.kind
      /\ turn'.rounds = turn.rounds + 1 /\ turn' \in TurnType
      /\ turn'.prompt = turn.prompt /\ turn'.context = turn.context
  <2>1. turn \in TurnType
    BY <1>1 DEF RequestTypeOK
  <2>2. turn.rounds + 1 \in Nat
    BY <1>1
  <2>3. turn' \in TurnType
    BY <2>1, <2>2, <1>6 DEF TurnType
  <2>4. QED
    BY <2>1, <2>3, <1>6 DEF TurnType
<1>8. RequestTypeOK' /\ PromptInv'
  BY <1>1, <1>3, <1>5, <1>6, <1>7 DEF RequestTypeOK, PromptInv
<1>9. SentInv'
  BY <1>1, <1>6, <1>7 DEF SentInv
<1>10. /\ Body(messages) \in Seq(OtherMessages) /\ Body(half) \in Seq(OtherMessages)
       /\ Body(messages') \in Seq(OtherMessages)
  BY <1>1, <1>3, <1>5, BodyType DEF PromptInv
<1>11. /\ Questions(Body(half), turn.number)
       /\ \A behind \in Nat :
            Asked(Body(messages), turn.number, behind) /\ behind + 1 < MaxHistory =>
              Asked(Body(half), turn.number, behind + 1)
  BY <1>1, <1>2, <1>3, <1>10, FollowingKeeps DEF QuestionInv
<1>12. /\ Questions(Body(messages'), turn.number)
       /\ \A behind \in Nat :
            Asked(Body(half), turn.number, behind) /\ behind + 1 < MaxHistory =>
              Asked(Body(messages'), turn.number, behind + 1)
  BY <1>1, <1>2, <1>5, <1>10, <1>11, FollowingKeeps
<1>13. ASSUME 2 * turn'.rounds < MaxHistory
       PROVE  Asked(Body(messages'), turn.number, 2 * turn'.rounds)
  <2> DEFINE k == 2 * turn.rounds
  <2>1. /\ k \in Nat /\ k + 1 \in Nat /\ k < MaxHistory /\ k + 1 < MaxHistory
        /\ k + 1 + 1 < MaxHistory /\ 2 * turn'.rounds = k + 1 + 1
    BY <1>1, <1>7, <1>13, RequestAssumption DEF RequestAssumption
  <2>2. Asked(Body(messages), turn.number, k)
    BY <2>1, <1>1, <1>6 DEF QuestionInv
  <2> HIDE DEF k
  <2>3. Asked(Body(half), turn.number, k + 1)
    BY <2>1, <2>2, <1>11
  <2>4. Asked(Body(messages'), turn.number, k + 1 + 1)
    BY <2>1, <2>3, <1>12
  <2>5. QED
    BY <2>1, <2>4
<1>14. QuestionInv'
  BY <1>7, <1>12, <1>13 DEF QuestionInv
<1>15. QED
  BY <1>8, <1>9, <1>14 DEF RequestContextInv

LEMMA FinishTurnKeeps ==
  ASSUME RequestAssumption, RequestContextInv, FinishTurn
  PROVE  RequestContextInv'
<1>1. /\ RequestTypeOK /\ PromptInv /\ SentInv /\ QuestionInv
      /\ turn.number \in Nat /\ messages \in Seq(Messages)
  BY DEF RequestContextInv, RequestTypeOK, TurnType
<1>2. Assistant \in OtherMessages /\ Assistant.role # "user"
  BY DEF Assistant, OtherMessages
<1>3. /\ Added(messages, Assistant) \in Seq(Messages) /\ Tidy(Added(messages, Assistant))
      /\ HasSystem(Added(messages, Assistant)) <=> HasSystem(messages)
      /\ HasSystem(messages) => Head(Added(messages, Assistant)) = Head(messages)
      /\ Follows(Body(Added(messages, Assistant)), Body(messages), Assistant)
  BY <1>1, <1>2, AddedFacts DEF PromptInv
<1>4. Questions(Body(Added(messages, Assistant)), turn.number)
  <2>1. /\ Body(messages) \in Seq(OtherMessages)
        /\ Body(Added(messages, Assistant)) \in Seq(OtherMessages)
    BY <1>1, <1>3, BodyType DEF PromptInv
  <2>2. QED
    BY <2>1, <1>1, <1>2, <1>3, FollowingKeeps DEF QuestionInv
<1>5. /\ messages' \in Seq(Messages) /\ Tidy(messages')
      /\ HasSystem(messages') <=> HasSystem(messages)
      /\ HasSystem(messages) => Head(messages') = Head(messages)
      /\ Questions(Body(messages'), turn.number)
  BY <1>1, <1>3, <1>4 DEF FinishTurn, PromptInv, QuestionInv
<1>6. /\ turn' = [Idle EXCEPT !.number = turn.number] /\ request' = <<>> /\ sent' = {}
      /\ UNCHANGED <<base, known, installed>>
  BY DEF FinishTurn
<1>7. turn' \in TurnType /\ turn'.number = turn.number /\ turn'.kind = "none"
  BY <1>1, <1>6 DEF Idle, TurnType, Nothing
<1>8. RequestTypeOK' /\ PromptInv'
  BY <1>1, <1>5, <1>6, <1>7 DEF RequestTypeOK, PromptInv
<1>9. SentInv' /\ QuestionInv'
  BY <1>5, <1>6, <1>7 DEF SentInv, QuestionInv
<1>10. QED
  BY <1>8, <1>9 DEF RequestContextInv

\* What sets the prompt or the context.
LEMMA SyncingKeeps ==
  ASSUME RequestContextInv, base' \in Nat, installed' \in [Sources -> Nat],
         messages' = Synced(messages, base', installed'),
         UNCHANGED <<known, turn, request, sent>>
  PROVE  RequestContextInv'
<1>1. RequestTypeOK /\ PromptInv /\ SentInv /\ QuestionInv
  BY DEF RequestContextInv
<1>2. /\ messages' \in Seq(Messages) /\ Tidy(messages') /\ Body(messages') = Body(messages)
      /\ HasSystem(messages') => Composed(base', installed') = <<Head(messages')>>
  BY <1>1, SyncedFacts DEF RequestTypeOK, PromptInv
<1>3. RequestTypeOK' /\ PromptInv'
  BY <1>1, <1>2 DEF RequestTypeOK, PromptInv
<1>4. SentInv' /\ QuestionInv'
  BY <1>1, <1>2 DEF SentInv, QuestionInv
<1>5. QED
  BY <1>3, <1>4 DEF RequestContextInv

LEMMA ClearHistoryKeeps ==
  ASSUME RequestContextInv, NEW keepSystem \in BOOLEAN, ClearHistory(keepSystem)
  PROVE  RequestContextInv'
<1>1. RequestTypeOK /\ PromptInv /\ SentInv /\ QuestionInv
  BY DEF RequestContextInv
<1>2. /\ turn.kind = "none" /\ request = <<>>
      /\ UNCHANGED <<base, known, installed, turn, request, sent>>
  BY <1>1 DEF ClearHistory, SentInv
<1>3. /\ messages' \in Seq(Messages) /\ Tidy(messages') /\ Body(messages') = <<>>
      /\ HasSystem(messages') => Composed(base, installed) = <<Head(messages')>>
  <2>1. CASE ~keepSystem
    BY <2>1 DEF ClearHistory, Tidy, Body, HasSystem
  <2>2. CASE keepSystem
    <3>1. messages' = Composed(base, installed) \o <<>>
      BY <2>2, <1>1, ComposedType DEF ClearHistory, RequestTypeOK
    <3>2. /\ Composed(base, installed) \in Seq(SystemMessages)
          /\ Len(Composed(base, installed)) <= 1
      BY <1>1, ComposedType DEF RequestTypeOK
    <3>4. <<>> \in Seq(OtherMessages)
      OBVIOUS
    <3>3. QED
      BY <3>1, <3>2, <3>4, Joined
  <2>3. QED
    BY <2>1, <2>2
<1>4. RequestTypeOK' /\ PromptInv'
  BY <1>1, <1>2, <1>3 DEF RequestTypeOK, PromptInv
<1>5. SentInv' /\ QuestionInv'
  BY <1>1, <1>2, <1>3 DEF SentInv, QuestionInv, Questions
<1>6. QED
  BY <1>4, <1>5 DEF RequestContextInv

LEMMA ContextStep ==
  RequestAssumption /\ RequestContextInv /\ [RequestNext]_requestVars => RequestContextInv'
<1> SUFFICES ASSUME RequestAssumption, RequestContextInv, [RequestNext]_requestVars
             PROVE  RequestContextInv'
  OBVIOUS
<1>1. /\ RequestTypeOK /\ PromptInv /\ SentInv /\ QuestionInv
      /\ base \in Nat /\ known \in [Sources -> Nat] /\ installed \in [Sources -> Nat]
  BY DEF RequestContextInv, RequestTypeOK
<1>2. CASE \E kind \in TurnKinds : Ask(kind)
  BY <1>2, AskKeeps
<1>3. CASE SendRequest
  BY <1>3, SendRequestKeeps
<1>4. CASE ToolRound
  BY <1>4, ToolRoundKeeps
<1>5. CASE FinishTurn
  BY <1>5, FinishTurnKeeps
<1>6. ASSUME NEW source \in Sources, Learn(source) PROVE RequestContextInv'
  <2>1. /\ known' \in [Sources -> Nat]
        /\ UNCHANGED <<base, installed, messages, turn, request, sent>>
    BY <1>1, <1>6 DEF Learn
  <2>2. QED
    BY <1>1, <2>1 DEF RequestContextInv, RequestTypeOK, PromptInv, SentInv, QuestionInv
<1>7. CASE SetSystemPrompt
  BY <1>1, <1>7, SyncingKeeps DEF SetSystemPrompt
<1>8. CASE RefreshContext
  BY <1>1, <1>8, SyncingKeeps DEF RefreshContext
<1>9. ASSUME NEW source \in Sources, UpdateRuntimeContext(source) PROVE RequestContextInv'
  BY <1>1, <1>9, SyncingKeeps DEF UpdateRuntimeContext
<1>10. CASE \E keepSystem \in BOOLEAN : ClearHistory(keepSystem)
  BY <1>10, ClearHistoryKeeps
<1>11. CASE UNCHANGED requestVars
  BY <1>1, <1>11
     DEF requestVars, RequestContextInv, RequestTypeOK, PromptInv, SentInv, QuestionInv
<1>12. QED
  BY <1>2, <1>3, <1>4, <1>5, <1>6, <1>7, <1>8, <1>9, <1>10, <1>11 DEF RequestNext

LEMMA ContextFits ==
  ASSUME RequestAssumption, RequestContextInv PROVE RequestsFitTheTurn
<1>1. /\ RequestTypeOK /\ PromptInv /\ SentInv /\ QuestionInv
      /\ messages \in Seq(Messages) /\ request \in Seq(Messages)
      /\ turn.number \in Nat /\ turn.rounds \in Nat
  BY DEF RequestContextInv, RequestTypeOK, TurnType
<1>2. /\ NonSystem(messages) = Body(messages)
      /\ Systems(messages) = IF HasSystem(messages) THEN <<Head(messages)>> ELSE <<>>
  BY <1>1, TidySelections DEF PromptInv
<1>3. Systems(messages) \in {Composed(base, installed), <<>>}
  BY <1>1, <1>2 DEF PromptInv
<1>4. Tidy(request)
  <2>1. CASE request = <<>>
    BY <2>1 DEF Tidy
  <2>2. CASE request # <<>>
    BY <2>2, <1>1 DEF SentInv
  <2>3. QED
    BY <2>1, <2>2
<1>5. /\ NonSystem(request) = Body(request)
      /\ Systems(request) = IF HasSystem(request) THEN <<Head(request)>> ELSE <<>>
  BY <1>1, <1>4, TidySelections
<1>6. Len(Systems(request)) <= 1
  BY <1>5
<1>7. TurnsHaveOneSnapshot
  BY <1>1, <1>3, <1>6 DEF TurnsHaveOneSnapshot, SentInv
<1>8. ASSUME request # <<>>
      PROVE  /\ NonSystem(request) = NonSystem(messages)
             /\ IsPrefix(Systems(request), request)
             /\ 2 * turn.rounds < MaxHistory =>
                  \E i \in 1..Len(request) :
                    \A j \in 1..Len(request) : request[j] = User(turn.number) <=> j = i
  <2> DEFINE body == Body(messages)
             n == turn.number
  <2>1. Body(request) = body /\ turn.kind # "none"
    BY <1>1, <1>8 DEF SentInv
  <2>2. NonSystem(request) = NonSystem(messages)
    BY <1>2, <1>5, <2>1
  <2>3. PICK head \in Seq(SystemMessages) :
          /\ Len(head) <= 1 /\ request = head \o body
          /\ head = IF HasSystem(request) THEN <<Head(request)>> ELSE <<>>
    BY <1>1, <1>4, <2>1, Parted
  <2>4. body \in Seq(OtherMessages)
    BY <1>1, BodyType DEF PromptInv
  <2> HIDE DEF body
  <2>5. /\ Len(head) \in Nat /\ Len(body) \in Nat /\ Len(request) = Len(head) + Len(body)
        /\ \A i \in 1..Len(request) :
             request[i] = IF i <= Len(head) THEN head[i] ELSE body[i - Len(head)]
    <3>1. /\ Len(head) \in Nat /\ Len(body) \in Nat
          /\ Len(head \o body) = Len(head) + Len(body)
          /\ \A i \in 1..Len(head \o body) :
               (head \o body)[i] = IF i <= Len(head) THEN head[i] ELSE body[i - Len(head)]
      BY <2>4
    <3>2. QED
      BY <2>3, <3>1
  <2>6. IsPrefix(Systems(request), request)
    <3>1. Systems(request) = head
      BY <1>5, <2>3
    <3>2. IsPrefix(head, head \o body)
      BY <2>4 DEF IsPrefix
    <3>3. QED
      BY <3>1, <3>2, <2>3
  <2>7. ASSUME 2 * turn.rounds < MaxHistory
        PROVE  \E i \in 1..Len(request) :
                 \A j \in 1..Len(request) : request[j] = User(n) <=> j = i
    <3>1. PICK at \in 1..Len(body) : body[at] = User(n)
      <4>1. Asked(body, n, 2 * turn.rounds)
        BY <1>1, <2>1, <2>7 DEF QuestionInv, body
      <4>2. Len(body) - 2 * turn.rounds \in 1..Len(body)
        BY <4>1, <1>1, <2>5 DEF Asked
      <4>3. QED
        BY <4>1, <4>2 DEF Asked
    <3>2. \A j \in 1..Len(body) : body[j] = User(n) => j = at
      BY <3>1, <1>1 DEF QuestionInv, Questions, body
    <3>3. Len(head) + at \in 1..Len(request)
      BY <3>1, <2>5
    <3>4. ASSUME NEW j \in 1..Len(request)
          PROVE  request[j] = User(n) <=> j = Len(head) + at
      <4>1. CASE j <= Len(head)
        <5>1. request[j] = head[j] /\ head[j] \in SystemMessages
          BY <4>1, <2>5
        <5>2. request[j] # User(n)
          BY <5>1 DEF SystemMessages, User
        <5>3. QED
          BY <4>1, <5>2, <3>1, <2>5
      <4>2. CASE j > Len(head)
        <5>1. request[j] = body[j - Len(head)] /\ j - Len(head) \in 1..Len(body)
          BY <4>2, <2>5
        <5>2. j - Len(head) = at <=> j = Len(head) + at
          BY <3>1, <2>5
        <5>3. QED
          BY <5>1, <5>2, <3>1, <3>2
      <4>3. QED
        BY <4>1, <4>2, <2>5
    <3>5. QED
      BY <3>3, <3>4
  <2>8. QED
    BY <2>2, <2>6, <2>7
<1>9. RequestsAreTheHistory
  BY <1>8 DEF RequestsAreTheHistory
<1>10. QED
  BY <1>7, <1>9 DEF RequestsFitTheTurn

\* Every request of an agent's turn has the one system message of the turn's start, and
\* is the history behind it, with the question in it once as long as the turn's messages
\* fit: whatever tools and other sessions change meanwhile, for any history limit.
THEOREM RequestsAlwaysFit == RequestSpec => []RequestsFitTheTurn
<1>1. RequestInit => RequestContextInv
  BY InitialContext, RequestAssumption
<1>2. RequestContextInv /\ [RequestNext]_requestVars => RequestContextInv'
  BY ContextStep, RequestAssumption
<1>3. RequestContextInv => RequestsFitTheTurn
  BY ContextFits, RequestAssumption
<1>4. QED
  BY <1>1, <1>2, <1>3, PTL DEF RequestSpec

-----------------------------------------------------------------------------
(* The event bus: the inductive invariant.                                 *)

SubscriptionType == [id : Nat, handler : Handlers, accepts : BOOLEAN, once : BOOLEAN]

Elements(list) == {list[i] : i \in 1..Len(list)}
Ascending(list) == \A i, j \in 1..Len(list) : i < j => list[i].id < list[j].id

BusTypeOK ==
  /\ subscriptions \in Seq(SubscriptionType) /\ wildcards \in Seq(SubscriptionType)
  /\ made \in 0..MaxSubscriptions
  /\ phase \in [Publishers -> {"idle", "wildcards", "typed"}]
  /\ toRun \in [Publishers -> Seq(SubscriptionType)]
  /\ toRemove \in [Publishers -> Seq(SubscriptionType)]
  /\ runs \in [Publishers -> [Ids -> Nat]]
  /\ cancelled \in [Publishers -> Nat]

Copied(p) == Elements(toRun[p]) \union Elements(toRemove[p])
Subscribed == Elements(subscriptions) \union Elements(wildcards)

\* An id is of one subscription, whoever has it.
IdsInv ==
  /\ \A s \in Subscribed : s.id \in 1..made
  /\ \A p \in Publishers : \A s \in Copied(p) : s.id \in 1..made
  /\ \A s, t \in Subscribed : s.id = t.id => s = t
  /\ \A p \in Publishers : \A s \in Copied(p), t \in Subscribed : s.id = t.id => s = t
  /\ \A p, q \in Publishers : \A s \in Copied(p), t \in Copied(q) : s.id = t.id => s = t

\* Subscriptions are in the order they were made, wildcards are not once, and what a
\* publish has copied is older than what has been subscribed since.
PublishInv ==
  /\ Ascending(subscriptions)
  /\ \A s \in Elements(wildcards) : ~s.once
  /\ \A p \in Publishers :
       /\ phase[p] = "idle" => toRun[p] = <<>> /\ toRemove[p] = <<>>
       /\ phase[p] = "wildcards" =>
            toRemove[p] = <<>> /\ \A s \in Elements(toRun[p]) : ~s.once
       /\ phase[p] = "typed" =>
            /\ Ascending(toRun[p]) /\ Ascending(toRemove[p])
            /\ \A s \in Elements(toRemove[p]) :
                 s.once /\ \A t \in Elements(toRun[p]) : s.id < t.id
            /\ \A s \in Elements(subscriptions) :
                 s.once => s \in Copied(p) \/ \A t \in Copied(p) : t.id < s.id

\* What a publisher has run, but for its publishes that were cancelled, is about to be
\* removed, or is gone.
RunsInv ==
  \A p \in Publishers :
    /\ \A i \in Ids : i > made => runs[p][i] = 0
    /\ \A s \in Subscribed : s.once => runs[p][s.id] <= 1 + cancelled[p]
    /\ \A q \in Publishers : \A s \in Copied(q) : s.once => runs[p][s.id] <= 1 + cancelled[p]
    /\ \A s \in Elements(subscriptions) :
         s.once /\ s \notin Elements(toRemove[p]) => runs[p][s.id] <= cancelled[p]
    /\ \A s \in Elements(toRun[p]) : s.once => runs[p][s.id] <= cancelled[p]

EventBusInv == BusTypeOK /\ IdsInv /\ PublishInv /\ RunsInv

-----------------------------------------------------------------------------
(* What the loops make of subscriptions.                                   *)

\* What is kept was there, at one of the places, and in the same order.
LEMMA KeepingKeepsOrder ==
  ASSUME NEW list \in Seq(SubscriptionType), NEW places
  PROVE  LET kept == Keeping(list, places) IN
         /\ kept \in Seq(SubscriptionType)
         /\ \A j \in 1..Len(kept) : \E i \in 1..Len(list) : i \in places /\ kept[j] = list[i]
         /\ Ascending(list) => Ascending(kept)
<1> DEFINE N == Len(list)
<1>1. PICK f \in [0..N -> Seq(SubscriptionType)] : KeptBy(f, list, places)
  BY KeptExists
<1>2. Keeping(list, places) = f[N] /\ N \in Nat
  BY <1>1, LoopIsUnique
<1>3. /\ f[0] = <<>>
      /\ \A n \in 1..N : f[n] = IF n \in places THEN Append(f[n - 1], list[n]) ELSE f[n - 1]
  <2>1. f = [n \in 0..N |->
              IF n = 0 THEN <<>>
              ELSE IF n \in places THEN Append(f[n - 1], list[n]) ELSE f[n - 1]]
    BY <1>1 DEF KeptBy
  <2>2. 0 \in 0..N /\ \A n \in 1..N : n \in 0..N /\ n # 0
    BY <1>2
  <2>3. QED
    BY <2>1, <2>2
<1> DEFINE Fine(n) ==
             /\ \A j \in 1..Len(f[n]) : \E i \in 1..n : i \in places /\ f[n][j] = list[i]
             /\ Ascending(list) => Ascending(f[n])
           bad == {n \in 0..N : ~Fine(n)}
<1>4. bad = {}
  <2>1. SUFFICES ASSUME bad # {} PROVE FALSE
    OBVIOUS
  <2>2. PICK n \in bad : \A m \in bad : n <= m
    <3>1. bad \in SUBSET Nat
      BY <1>2
    <3>2. QED
      BY <2>1, <3>1, LeastNumber
  <2>3. Fine(0)
    BY <1>3 DEF Ascending
  <2>4. n # 0 /\ n \in 1..N /\ n - 1 \in 0..N /\ n - 1 < n /\ n \in Nat
    BY <2>2, <2>3, <1>2
  <2>5. Fine(n - 1)
    BY <2>2, <2>4
  <2> DEFINE old == f[n - 1]
  <2>6. old \in Seq(SubscriptionType) /\ Len(old) \in Nat /\ list[n] \in SubscriptionType
    BY <1>1, <2>4
  <2>7. CASE n \notin places
    <3>1. f[n] = old
      BY <2>4, <2>7, <1>3
    <3>2. \A i \in 1..n - 1 : i \in 1..n
      BY <2>4
    <3>3. Fine(n)
      BY <3>1, <3>2, <2>5
    <3>4. QED
      BY <3>3, <2>2
  <2>8. CASE n \in places
    <3>1. f[n] = Append(old, list[n])
      BY <2>4, <2>8, <1>3
    <3> HIDE DEF old
    <3>2. /\ Len(f[n]) = Len(old) + 1 /\ f[n][Len(old) + 1] = list[n]
          /\ \A j \in 1..Len(old) : f[n][j] = old[j]
      BY <3>1, <2>6
    <3>3. \A j \in 1..Len(old) : \E i \in 1..n - 1 : i \in places /\ old[j] = list[i]
      BY <2>5 DEF old
    <3>4. ASSUME NEW j \in 1..Len(f[n])
          PROVE  \E i \in 1..n : i \in places /\ f[n][j] = list[i]
      <4>1. CASE j = Len(old) + 1
        BY <4>1, <3>2, <2>4, <2>8
      <4>2. CASE j # Len(old) + 1
        <5>1. j \in 1..Len(old)
          BY <4>2, <3>2, <2>6
        <5>2. PICK i \in 1..n - 1 : i \in places /\ old[j] = list[i]
          BY <5>1, <3>3
        <5>3. i \in 1..n
          BY <2>4
        <5>4. QED
          BY <5>1, <5>2, <5>3, <3>2
      <4>3. QED
        BY <4>1, <4>2
    <3>5. ASSUME Ascending(list), NEW j \in 1..Len(f[n]), NEW k \in 1..Len(f[n]), j < k
          PROVE  f[n][j].id < f[n][k].id
      <4>1. j \in 1..Len(old)
        BY <3>2, <3>5, <2>6
      <4>2. CASE k = Len(old) + 1
        <5>1. PICK i \in 1..n - 1 : old[j] = list[i]
          BY <4>1, <3>3
        <5>2. i \in 1..N /\ n \in 1..N /\ i < n
          BY <2>4, <1>2
        <5>3. list[i].id < list[n].id
          BY <5>2, <3>5 DEF Ascending
        <5>4. QED
          BY <4>1, <4>2, <5>1, <5>3, <3>2
      <4>3. CASE k # Len(old) + 1
        <5>1. k \in 1..Len(old)
          BY <4>3, <3>2, <2>6
        <5>2. old[j].id < old[k].id
          BY <4>1, <5>1, <3>5, <2>5 DEF Ascending, old
        <5>3. QED
          BY <4>1, <5>1, <5>2, <3>2
      <4>4. QED
        BY <4>2, <4>3
    <3>6. Ascending(list) => Ascending(f[n])
      BY <3>5 DEF Ascending
    <3>7. Fine(n)
      BY <3>4, <3>6
    <3>8. QED
      BY <3>7, <2>2
  <2>9. QED
    BY <2>7, <2>8
<1>5. Fine(N)
  <2>1. N \in 0..N
    BY <1>2
  <2> HIDE DEF Fine
  <2>2. QED
    BY <2>1, <1>4
<1>6. QED
  BY <1>1, <1>2, <1>5

\* The first that is equal to a subscription is not among what WithoutFirst leaves.
LEMMA WithoutFirstRemoves ==
  ASSUME NEW list \in Seq(SubscriptionType), Ascending(list), NEW s
  PROVE  LET kept == WithoutFirst(list, s) IN
         /\ kept \in Seq(SubscriptionType) /\ Ascending(kept)
         /\ Elements(kept) \subseteq Elements(list)
         /\ s \in Elements(kept) =>
              \E t \in Elements(list) : Equal(t, s) /\ t.id < s.id
<1> DEFINE equal == {i \in 1..Len(list) : Equal(list[i], s)}
           places == {i \in 1..Len(list) : i \in equal => \E j \in equal : j < i}
           kept == Keeping(list, places)
<1>1. /\ kept \in Seq(SubscriptionType)
      /\ \A j \in 1..Len(kept) : \E i \in 1..Len(list) : i \in places /\ kept[j] = list[i]
      /\ Ascending(kept)
  <2> HIDE DEF places
  <2>1. QED
    BY KeepingKeepsOrder
<1>2. WithoutFirst(list, s) = kept
  BY DEF WithoutFirst
<1>3. Elements(kept) \subseteq Elements(list)
  <2> HIDE DEF kept, places
  <2>1. QED
    BY <1>1 DEF Elements
<1>4. ASSUME s \in Elements(kept)
      PROVE  \E t \in Elements(list) : Equal(t, s) /\ t.id < s.id
  <2>1. PICK k \in 1..Len(kept) : kept[k] = s
    BY <1>4 DEF Elements
  <2>2. PICK i \in 1..Len(list) : i \in places /\ s = list[i]
    <3> HIDE DEF kept, places
    <3>1. QED
      BY <2>1, <1>1
  <2>3. i \in equal
    BY <2>2 DEF Equal
  <2>4. PICK j \in equal : j < i
    BY <2>2, <2>3
  <2>5. list[j].id < list[i].id
    BY <2>4 DEF Ascending
  <2>6. list[j] \in Elements(list) /\ Equal(list[j], s)
    BY <2>4 DEF Elements
  <2>7. QED
    BY <2>2, <2>5, <2>6
<1>5. QED
  BY <1>1, <1>2, <1>3, <1>4

\* What Removed goes through.
LeftBy(left, list, done) ==
  left = [n \in 0..Len(done) |-> IF n = 0 THEN list ELSE WithoutFirst(left[n - 1], done[n])]

LEMMA LeftExists ==
  ASSUME NEW list \in Seq(SubscriptionType), NEW done \in Seq(SubscriptionType)
  PROVE  \E left \in [0..Len(done) -> Seq(SubscriptionType)] : LeftBy(left, list, done)
<1> DEFINE N == Len(done)
           F == [n \in 1..N |-> [x \in Seq(SubscriptionType) |-> WithoutFirst(x, done[n])]]
<1>1. N \in Nat /\ list \in Seq(SubscriptionType)
  OBVIOUS
<1>2. F \in [1..N -> [Seq(SubscriptionType) -> Seq(SubscriptionType)]]
  <2>1. ASSUME NEW n \in 1..N, NEW x \in Seq(SubscriptionType)
        PROVE  WithoutFirst(x, done[n]) \in Seq(SubscriptionType)
    BY KeepingKeepsOrder DEF WithoutFirst
  <2>2. QED
    BY <2>1
<1>3. ASSUME NEW x \in Seq(SubscriptionType), NEW n \in 1..N
      PROVE  F[n][x] = WithoutFirst(x, done[n])
  OBVIOUS
<1> HIDE DEF F
<1>4. PICK f \in [0..N -> Seq(SubscriptionType)] :
        f[0] = list /\ \A n \in 1..N : f[n] = F[n][f[n - 1]]
  <2>1. GoesOn(F, Seq(SubscriptionType), N)
    BY <1>1, <1>2 DEF GoesOn
  <2>2. \E f : Course(f, F, Seq(SubscriptionType), N, list)
    BY <1>1, <2>1, CourseExists
  <2>3. QED
    BY <2>2 DEF Course
<1>5. ASSUME NEW n \in 0..N
      PROVE  f[n] = IF n = 0 THEN list ELSE WithoutFirst(f[n - 1], done[n])
  <2>1. CASE n = 0
    BY <2>1, <1>4
  <2>2. CASE n # 0
    <3>1. n \in 1..N /\ n - 1 \in 0..N
      BY <2>2, <1>1
    <3>2. f[n - 1] \in Seq(SubscriptionType) /\ f[n] = F[n][f[n - 1]]
      BY <3>1, <1>4
    <3>3. QED
      BY <2>2, <3>1, <3>2, <1>3
  <2>3. QED
    BY <2>1, <2>2
<1>6. f = [n \in 0..N |-> IF n = 0 THEN list ELSE WithoutFirst(f[n - 1], done[n])]
  BY <1>5
<1>7. QED
  BY <1>6 DEF LeftBy

LEMMA LeftIsUnique ==
  ASSUME NEW list \in Seq(SubscriptionType), NEW done \in Seq(SubscriptionType),
         NEW left, LeftBy(left, list, done)
  PROVE  Removed(list, done) = left[Len(done)]
<1> DEFINE N == Len(done)
           chosen == CHOOSE f : LeftBy(f, list, done)
<1>1. LeftBy(chosen, list, done)
  OBVIOUS
<1>2. Removed(list, done) = chosen[N]
  BY DEF Removed, LeftBy
<1> HIDE DEF chosen
<1>3. \A n \in 0..N : chosen[n] = left[n]
  <2> DEFINE bad == {n \in 0..N : chosen[n] # left[n]}
  <2>1. SUFFICES ASSUME bad # {} PROVE FALSE
    OBVIOUS
  <2>2. PICK n \in bad : \A m \in bad : n <= m
    <3>1. bad \in SUBSET Nat
      OBVIOUS
    <3>2. QED
      BY <2>1, <3>1, LeastNumber
  <2>3. chosen[0] = list /\ left[0] = list
    BY <1>1 DEF LeftBy
  <2>4. n # 0 /\ n \in 1..N /\ n - 1 \in 0..N /\ ~(n <= n - 1)
    BY <2>2, <2>3
  <2>5. chosen[n - 1] = left[n - 1]
    BY <2>2, <2>4
  <2>6. /\ chosen[n] = WithoutFirst(chosen[n - 1], done[n])
        /\ left[n] = WithoutFirst(left[n - 1], done[n])
    BY <2>4, <1>1 DEF LeftBy
  <2>7. QED
    BY <2>5, <2>6, <2>2
<1>4. QED
  BY <1>2, <1>3

\* What a publish removes: of what it has run in the order it was subscribed, nothing is
\* left, for an earlier one that is equal has been run and so has been removed before.
LEMMA RemovedFacts ==
  ASSUME NEW list \in Seq(SubscriptionType), NEW done \in Seq(SubscriptionType),
         Ascending(list), Ascending(done),
         \A s \in Elements(done) : s.once,
         \A s \in Elements(list) :
           s.once => s \in Elements(done) \/ \A t \in Elements(done) : t.id < s.id
  PROVE  LET rest == Removed(list, done) IN
         /\ rest \in Seq(SubscriptionType) /\ Ascending(rest)
         /\ Elements(rest) \subseteq Elements(list)
         /\ \A s \in Elements(done) : s \notin Elements(rest)
<1> DEFINE N == Len(done)
<1>1. PICK left \in [0..N -> Seq(SubscriptionType)] : LeftBy(left, list, done)
  BY LeftExists
<1>2. Removed(list, done) = left[N] /\ N \in Nat
  BY <1>1, LeftIsUnique
<1>3. /\ left[0] = list
      /\ \A n \in 1..N : left[n] = WithoutFirst(left[n - 1], done[n])
  <2>1. left = [n \in 0..N |-> IF n = 0 THEN list ELSE WithoutFirst(left[n - 1], done[n])]
    BY <1>1 DEF LeftBy
  <2>2. 0 \in 0..N /\ \A n \in 1..N : n \in 0..N /\ n # 0
    BY <1>2
  <2>3. QED
    BY <2>1, <2>2
<1> DEFINE Fine(n) ==
             /\ Ascending(left[n]) /\ Elements(left[n]) \subseteq Elements(list)
             /\ \A k \in 1..n : done[k] \notin Elements(left[n])
           bad == {n \in 0..N : ~Fine(n)}
<1>4. bad = {}
  <2>1. SUFFICES ASSUME bad # {} PROVE FALSE
    OBVIOUS
  <2>2. PICK n \in bad : \A m \in bad : n <= m
    <3>1. bad \in SUBSET Nat
      BY <1>2
    <3>2. QED
      BY <2>1, <3>1, LeastNumber
  <2>3. Fine(0)
    BY <1>3
  <2>4. n # 0 /\ n \in 1..N /\ n - 1 \in 0..N /\ ~(n <= n - 1) /\ n \in Nat
    BY <2>2, <2>3, <1>2
  <2>5. Fine(n - 1)
    BY <2>2, <2>4
  <2> DEFINE old == left[n - 1]
             s == done[n]
             new == left[n]
  <2>6. old \in Seq(SubscriptionType) /\ Ascending(old) /\ new = WithoutFirst(old, s)
    BY <1>1, <1>3, <2>4, <2>5
  <2>7. /\ new \in Seq(SubscriptionType) /\ Ascending(new)
        /\ Elements(new) \subseteq Elements(old)
        /\ s \in Elements(new) => \E t \in Elements(old) : Equal(t, s) /\ t.id < s.id
    BY ONLY <2>6, WithoutFirstRemoves
  <2>8. s \in Elements(done) /\ s.once /\ s \in SubscriptionType
    BY <2>4 DEF Elements
  <2>9. s \notin Elements(new)
    <3>1. SUFFICES ASSUME s \in Elements(new) PROVE FALSE
      OBVIOUS
    <3>2. PICK t \in Elements(old) : Equal(t, s) /\ t.id < s.id
      BY <2>7, <3>1
    <3>3. t.once /\ t \in Elements(list)
      BY <2>5, <2>8, <3>2 DEF Equal
    <3>4. t \in SubscriptionType
      BY <3>3 DEF Elements
    <3>5. t \in Elements(done)
      <4>1. t.id \in Nat /\ s.id \in Nat
        BY <2>8, <3>4 DEF SubscriptionType
      <4>2. ~(s.id < t.id)
        BY <3>2, <4>1
      <4>3. QED
        BY <2>8, <3>3, <4>2
    <3>6. PICK k \in 1..N : done[k] = t
      BY <3>5 DEF Elements
    <3>7. ~(n <= k)
      <4>1. n # k
        <5>1. SUFFICES ASSUME n = k PROVE FALSE
          OBVIOUS
        <5>2. t.id < t.id /\ t.id \in Nat
          BY <5>1, <3>2, <3>4, <3>6 DEF SubscriptionType
        <5>3. QED
          BY <5>2
      <4>2. ~(n < k)
        <5>1. SUFFICES ASSUME n < k PROVE FALSE
          OBVIOUS
        <5>2. s.id < t.id
          BY <5>1, <2>4, <3>6 DEF Ascending
        <5>3. s.id \in Nat /\ t.id \in Nat
          BY <2>8, <3>4 DEF SubscriptionType
        <5>4. QED
          BY <3>2, <5>2, <5>3
      <4>3. QED
        BY <2>4, <4>1, <4>2
    <3>8. k \in 1..n - 1
      BY <3>7, <2>4
    <3>9. QED
      BY <2>5, <3>2, <3>6, <3>8
  <2>10. \A k \in 1..n : done[k] \notin Elements(new)
    <3>1. TAKE k \in 1..n
    <3>2. CASE k = n
      BY <2>9, <3>2
    <3>3. CASE k # n
      <4>1. k \in 1..n - 1
        BY <2>4, <3>3
      <4>2. QED
        BY <4>1, <2>5, <2>7
    <3>4. QED
      BY <3>2, <3>3
  <2>11. Elements(new) \subseteq Elements(list)
    BY <2>5, <2>7
  <2>12. Fine(n)
    BY <2>7, <2>10, <2>11
  <2>13. QED
    BY <2>12, <2>2
<1>5. Fine(N)
  <2>1. N \in 0..N
    BY <1>2
  <2> HIDE DEF Fine
  <2>2. QED
    BY <2>1, <1>4
<1>6. \A s \in Elements(done) : s \notin Elements(left[N])
  <2>1. TAKE s \in Elements(done)
  <2>2. PICK k \in 1..N : done[k] = s
    BY DEF Elements
  <2>3. QED
    BY <2>2, <1>5
<1>7. left[N] \in Seq(SubscriptionType)
  BY <1>1, <1>2
<1>8. QED
  BY <1>2, <1>5, <1>6, <1>7

LEMMA ElementsOfEmpty == Elements(<<>>) = {} /\ Ascending(<<>>)
BY DEF Elements, Ascending

LEMMA ElementsOfAppend ==
  ASSUME NEW list \in Seq(SubscriptionType), NEW s \in SubscriptionType
  PROVE  /\ Append(list, s) \in Seq(SubscriptionType)
         /\ Elements(Append(list, s)) = Elements(list) \union {s}
         /\ Ascending(list) /\ (\A t \in Elements(list) : t.id < s.id) =>
              Ascending(Append(list, s))
<1> DEFINE N == Len(list)
           all == Append(list, s)
<1>1. /\ all \in Seq(SubscriptionType) /\ Len(all) = N + 1 /\ N \in Nat /\ all[N + 1] = s
      /\ \A i \in 1..N : all[i] = list[i]
  OBVIOUS
<1> HIDE DEF all
<1>2. ASSUME NEW i \in 1..N + 1 PROVE i \in 1..N \/ i = N + 1
  BY <1>1
<1>3. Elements(all) \subseteq Elements(list) \union {s}
  BY <1>1, <1>2 DEF Elements
<1>4. Elements(list) \subseteq Elements(all)
  <2>1. \A i \in 1..N : i \in 1..Len(all)
    BY <1>1
  <2>2. QED
    BY <1>1, <2>1 DEF Elements
<1>5. s \in Elements(all)
  <2>1. N + 1 \in 1..Len(all)
    BY <1>1
  <2>2. QED
    BY <1>1, <2>1 DEF Elements
<1>6. ASSUME Ascending(list), \A t \in Elements(list) : t.id < s.id,
             NEW i \in 1..Len(all), NEW j \in 1..Len(all), i < j
      PROVE  all[i].id < all[j].id
  <2>1. i \in 1..N
    BY <1>1, <1>6
  <2>2. CASE j = N + 1
    BY <1>1, <1>6, <2>1, <2>2 DEF Elements
  <2>3. CASE j \in 1..N
    BY <1>1, <1>6, <2>1, <2>3 DEF Ascending
  <2>4. QED
    BY <1>1, <1>2, <2>2, <2>3
<1>7. QED
  BY <1>1, <1>3, <1>4, <1>5, <1>6 DEF Ascending, all

LEMMA ElementsOfTail ==
  ASSUME NEW list \in Seq(SubscriptionType), list # <<>>
  PROVE  /\ Tail(list) \in Seq(SubscriptionType) /\ Head(list) \in SubscriptionType
         /\ Elements(list) = Elements(Tail(list)) \union {Head(list)}
         /\ Ascending(list) =>
              Ascending(Tail(list)) /\ \A t \in Elements(Tail(list)) : Head(list).id < t.id
<1> DEFINE N == Len(list)
           rest == Tail(list)
<1>1. /\ rest \in Seq(SubscriptionType) /\ N \in Nat /\ N >= 1 /\ Len(rest) = N - 1
      /\ Head(list) = list[1] /\ list[1] \in SubscriptionType
      /\ \A i \in 1..N - 1 : rest[i] = list[i + 1]
  OBVIOUS
<1>2. Elements(rest) \subseteq Elements(list) /\ Head(list) \in Elements(list)
  <2> HIDE DEF rest
  <2>1. 1 \in 1..N /\ \A i \in 1..N - 1 : i + 1 \in 1..N
    BY <1>1
  <2>2. QED
    BY <1>1, <2>1 DEF Elements
<1>3. Elements(list) \subseteq Elements(rest) \union {Head(list)}
  <2> HIDE DEF rest
  <2>1. ASSUME NEW i \in 1..N PROVE list[i] \in Elements(rest) \union {Head(list)}
    <3>1. CASE i = 1
      BY <1>1, <3>1
    <3>2. CASE i # 1
      <4>1. i - 1 \in 1..Len(rest) /\ rest[i - 1] = list[(i - 1) + 1] /\ (i - 1) + 1 = i
        BY <1>1, <3>2
      <4>2. QED
        BY <4>1 DEF Elements
    <3>3. QED
      BY <3>1, <3>2
  <2>2. QED
    BY <2>1 DEF Elements
<1>4. ASSUME Ascending(list)
      PROVE  Ascending(rest) /\ \A t \in Elements(rest) : Head(list).id < t.id
  <2> HIDE DEF rest
  <2>1. ASSUME NEW i \in 1..Len(rest), NEW j \in 1..Len(rest), i < j
        PROVE  rest[i].id < rest[j].id
    <3>1. i + 1 \in 1..N /\ j + 1 \in 1..N /\ i + 1 < j + 1
      BY <1>1, <2>1
    <3>2. rest[i] = list[i + 1] /\ rest[j] = list[j + 1]
      BY <1>1
    <3>3. QED
      BY <1>4, <3>1, <3>2 DEF Ascending
  <2>2. ASSUME NEW i \in 1..Len(rest) PROVE Head(list).id < rest[i].id
    <3>1. i + 1 \in 1..N /\ 1 \in 1..N /\ 1 < i + 1
      BY <1>1
    <3>2. rest[i] = list[i + 1]
      BY <1>1
    <3>3. QED
      BY <1>1, <1>4, <3>1, <3>2 DEF Ascending
  <2>3. QED
    BY <2>1, <2>2 DEF Ascending, Elements
<1>5. QED
  BY <1>1, <1>2, <1>3, <1>4

LEMMA ElementsHaveType ==
  ASSUME NEW list \in Seq(SubscriptionType), NEW s \in Elements(list)
  PROVE  s \in SubscriptionType
BY DEF Elements

LEMMA OthersAreSome ==
  ASSUME NEW list \in Seq(SubscriptionType), NEW handler
  PROVE  LET rest == Others(list, handler) IN
         /\ rest \in Seq(SubscriptionType) /\ Elements(rest) \subseteq Elements(list)
         /\ Ascending(list) => Ascending(rest)
<1> DEFINE places == {i \in 1..Len(list) : list[i].handler # handler}
           rest == Keeping(list, places)
<1>1. /\ rest \in Seq(SubscriptionType)
      /\ \A j \in 1..Len(rest) : \E i \in 1..Len(list) : i \in places /\ rest[j] = list[i]
      /\ Ascending(list) => Ascending(rest)
  <2> HIDE DEF places
  <2>1. QED
    BY KeepingKeepsOrder
<1>2. Others(list, handler) = rest
  BY DEF Others
<1> HIDE DEF rest
<1>3. Elements(rest) \subseteq Elements(list)
  BY <1>1 DEF Elements
<1>4. QED
  BY <1>1, <1>2, <1>3

-----------------------------------------------------------------------------
(* The event bus: every step keeps the invariant.                          *)

LEMMA BusInitially == ASSUME BusInit PROVE EventBusInv
<1>1. BusTypeOK
  BY BusAssumption DEF BusInit, BusTypeOK, Ids
<1>2. /\ Elements(subscriptions) = {} /\ Elements(wildcards) = {}
      /\ \A p \in Publishers : toRun[p] = <<>> /\ toRemove[p] = <<>> /\ Copied(p) = {}
      /\ Subscribed = {}
  BY ElementsOfEmpty DEF BusInit, Copied, Subscribed
<1>3. IdsInv
  BY <1>2 DEF IdsInv
<1>4. PublishInv
  BY <1>2, ElementsOfEmpty DEF PublishInv, BusInit
<1>5. RunsInv
  BY <1>2, ElementsOfEmpty DEF RunsInv, BusInit
<1>6. QED
  BY <1>1, <1>3, <1>4, <1>5 DEF EventBusInv

\* As long as nothing is subscribed, what is copied was there.
LEMMA IdsKept ==
  ASSUME IdsInv, made' = made, Subscribed' \subseteq Subscribed,
         \A p \in Publishers : Copied(p)' \subseteq Copied(p) \union Subscribed
  PROVE  IdsInv'
BY DEF IdsInv

\* A step that only takes subscriptions away.
LEMMA Shrinks ==
  ASSUME EventBusInv, UNCHANGED <<made, Publishing>>,
         subscriptions' \in Seq(SubscriptionType), wildcards' \in Seq(SubscriptionType),
         Elements(subscriptions') \subseteq Elements(subscriptions),
         Elements(wildcards') \subseteq Elements(wildcards), Ascending(subscriptions')
  PROVE  EventBusInv'
<1> USE DEF EventBusInv
<1>1. BusTypeOK'
  BY DEF BusTypeOK, Publishing
<1>2. Subscribed' \subseteq Subscribed /\ \A p \in Publishers : Copied(p)' = Copied(p)
  BY DEF Subscribed, Copied, Publishing
<1>3. IdsInv'
  BY <1>2, IdsKept
<1>4. PublishInv'
  BY <1>2 DEF PublishInv, Publishing
<1>5. RunsInv'
  BY <1>2 DEF RunsInv, Publishing
<1>6. QED
  BY <1>1, <1>3, <1>4, <1>5

LEMMA SubscribeKeeps ==
  ASSUME EventBusInv, NEW h \in Handlers, NEW accepts \in BOOLEAN, NEW once \in BOOLEAN,
         Subscribe(h, accepts, once)
  PROVE  EventBusInv'
<1> USE DEF EventBusInv
<1> DEFINE s == Subscription(h, accepts, once)
<1>1. /\ s \in SubscriptionType /\ s.id = made + 1 /\ made \in Nat
      /\ made + 1 \in 0..MaxSubscriptions /\ made' = made + 1
  BY BusAssumption DEF Subscribe, Subscription, SubscriptionType, BusTypeOK
<1> HIDE DEF s
<1>2. /\ subscriptions' = Append(subscriptions, s) /\ wildcards' = wildcards
      /\ phase' = phase /\ toRun' = toRun /\ toRemove' = toRemove /\ runs' = runs
      /\ cancelled' = cancelled
  BY DEF Subscribe, Publishing, s
<1>3. subscriptions \in Seq(SubscriptionType) /\ wildcards \in Seq(SubscriptionType)
  BY DEF BusTypeOK
<1>4. \A t \in Subscribed : t.id \in 1..made
  BY DEF IdsInv
<1>5. /\ Elements(subscriptions') = Elements(subscriptions) \union {s}
      /\ subscriptions' \in Seq(SubscriptionType) /\ Ascending(subscriptions')
  <2>1. \A t \in Elements(subscriptions) : t.id < s.id
    BY <1>1, <1>4 DEF Subscribed
  <2>2. QED
    BY <1>1, <1>2, <1>3, <2>1, ElementsOfAppend DEF PublishInv
<1>6. /\ Subscribed' = Subscribed \union {s}
      /\ \A p \in Publishers : Copied(p)' = Copied(p)
  BY <1>2, <1>5 DEF Subscribed, Copied
<1>7. BusTypeOK'
  BY <1>1, <1>2, <1>5 DEF BusTypeOK
<1>8. \A p \in Publishers : \A t \in Copied(p) : t.id \in 1..made
  BY DEF IdsInv
<1>9. IdsInv'
  <2>1. /\ \A t \in Subscribed : t.id \in 1..made' /\ t.id # s.id
        /\ \A p \in Publishers : \A t \in Copied(p) : t.id \in 1..made' /\ t.id # s.id
        /\ s.id \in 1..made'
    BY <1>1, <1>4, <1>8
  <2>2. QED
    BY <1>6, <2>1 DEF IdsInv
<1>10. PublishInv'
  <2>1. \A p \in Publishers : \A t \in Copied(p) : t.id < s.id
    BY <1>1, <1>8
  <2>2. QED
    BY <1>2, <1>5, <1>6, <2>1 DEF PublishInv
<1>11. RunsInv'
  <2>1. s.id \in Ids /\ s.id > made
    BY <1>1 DEF Ids
  <2>2. \A p \in Publishers : runs[p][s.id] <= cancelled[p] /\ runs[p][s.id] <= 1 + cancelled[p]
    <3>1. \A p \in Publishers : runs[p][s.id] = 0 /\ cancelled[p] \in Nat
      BY <2>1 DEF RunsInv, BusTypeOK
    <3>2. QED
      BY <3>1
  <2>3. \A i \in Ids : i > made' => i > made
    BY <1>1 DEF Ids
  <2>4. QED
    BY <1>2, <1>5, <1>6, <2>2, <2>3 DEF RunsInv
<1>12. QED
  BY <1>7, <1>9, <1>10, <1>11

LEMMA SubscribeWildcardKeeps ==
  ASSUME EventBusInv, NEW h \in Handlers, SubscribeWildcard(h)
  PROVE  EventBusInv'
<1> USE DEF EventBusInv
<1> DEFINE s == Subscription(h, TRUE, FALSE)
<1>1. /\ s \in SubscriptionType /\ s.id = made + 1 /\ ~s.once /\ made \in Nat
      /\ made + 1 \in 0..MaxSubscriptions /\ made' = made + 1
  BY BusAssumption DEF SubscribeWildcard, Subscription, SubscriptionType, BusTypeOK
<1> HIDE DEF s
<1>2. /\ wildcards' = Append(wildcards, s) /\ subscriptions' = subscriptions
      /\ phase' = phase /\ toRun' = toRun /\ toRemove' = toRemove /\ runs' = runs
      /\ cancelled' = cancelled
  BY DEF SubscribeWildcard, Publishing, s
<1>3. subscriptions \in Seq(SubscriptionType) /\ wildcards \in Seq(SubscriptionType)
  BY DEF BusTypeOK
<1>4. Elements(wildcards') = Elements(wildcards) \union {s}
      /\ wildcards' \in Seq(SubscriptionType)
  BY <1>1, <1>2, <1>3, ElementsOfAppend
<1>5. /\ Subscribed' = Subscribed \union {s}
      /\ \A p \in Publishers : Copied(p)' = Copied(p)
  BY <1>2, <1>4 DEF Subscribed, Copied
<1>6. BusTypeOK'
  BY <1>1, <1>2, <1>4 DEF BusTypeOK
<1>7. IdsInv'
  <2>1. /\ \A t \in Subscribed : t.id \in 1..made
        /\ \A p \in Publishers : \A t \in Copied(p) : t.id \in 1..made
    BY DEF IdsInv
  <2>2. /\ \A t \in Subscribed : t.id \in 1..made' /\ t.id # s.id
        /\ \A p \in Publishers : \A t \in Copied(p) : t.id \in 1..made' /\ t.id # s.id
        /\ s.id \in 1..made'
    BY <1>1, <2>1
  <2>3. QED
    BY <1>5, <2>2 DEF IdsInv
<1>8. PublishInv'
  BY <1>1, <1>2, <1>4, <1>5 DEF PublishInv
<1>9. RunsInv'
  <2>1. \A i \in Ids : i > made' => i > made
    BY <1>1 DEF Ids
  <2>2. QED
    BY <1>1, <1>2, <1>5, <2>1 DEF RunsInv
<1>10. QED
  BY <1>6, <1>7, <1>8, <1>9

LEMMA UnsubscribeKeeps ==
  ASSUME EventBusInv, NEW h, Unsubscribe(h) \/ UnsubscribeWildcard(h) \/ Clear
  PROVE  EventBusInv'
<1> USE DEF EventBusInv
<1>1. /\ subscriptions \in Seq(SubscriptionType) /\ wildcards \in Seq(SubscriptionType)
      /\ Ascending(subscriptions)
  BY DEF BusTypeOK, PublishInv
<1>2. CASE Unsubscribe(h)
  <2>1. /\ UNCHANGED <<made, Publishing>> /\ wildcards' = wildcards
        /\ subscriptions' = Others(subscriptions, h)
    BY <1>2 DEF Unsubscribe
  <2>2. QED
    BY ONLY EventBusInv, <1>1, <2>1, OthersAreSome, Shrinks
<1>3. CASE UnsubscribeWildcard(h)
  <2>1. /\ UNCHANGED <<made, Publishing>> /\ subscriptions' = subscriptions
        /\ wildcards' = Others(wildcards, h)
    BY <1>3 DEF UnsubscribeWildcard
  <2>2. QED
    BY ONLY EventBusInv, <1>1, <2>1, OthersAreSome, Shrinks
<1>4. CASE Clear
  <2>1. /\ UNCHANGED <<made, Publishing>> /\ subscriptions' = <<>> /\ wildcards' = <<>>
    BY <1>4 DEF Clear
  <2>2. <<>> \in Seq(SubscriptionType)
    OBVIOUS
  <2>3. QED
    BY ONLY EventBusInv, <2>1, <2>2, ElementsOfEmpty, Shrinks
<1>5. QED
  BY <1>2, <1>3, <1>4

LEMMA PublishKeeps ==
  ASSUME EventBusInv, NEW p \in Publishers, Publish(p)
  PROVE  EventBusInv'
<1> USE DEF EventBusInv
<1>1. /\ subscriptions' = subscriptions /\ wildcards' = wildcards /\ made' = made
      /\ toRemove' = toRemove /\ runs' = runs /\ cancelled' = cancelled
      /\ toRun' = [toRun EXCEPT ![p] = wildcards]
      /\ phase[p] = "idle" /\ phase' = [phase EXCEPT ![p] = "wildcards"]
  BY DEF Publish
<1>2. BusTypeOK'
  BY <1>1 DEF BusTypeOK
<1>3. /\ toRun'[p] = wildcards /\ phase'[p] = "wildcards"
      /\ \A q \in Publishers : q # p => toRun'[q] = toRun[q] /\ phase'[q] = phase[q]
  BY <1>1 DEF BusTypeOK
<1>4. toRemove[p] = <<>>
  BY <1>1 DEF PublishInv
<1>5. /\ Subscribed' = Subscribed /\ Elements(wildcards) \subseteq Subscribed
      /\ Copied(p)' = Elements(wildcards)
      /\ \A q \in Publishers : q # p => Copied(q)' = Copied(q)
  BY <1>1, <1>3, <1>4, ElementsOfEmpty DEF Subscribed, Copied
<1>6. IdsInv'
  BY <1>1, <1>5, IdsKept
<1>7. \A s \in Elements(wildcards) : ~s.once
  BY DEF PublishInv
<1>8. PublishInv'
  BY <1>1, <1>3, <1>4, <1>5, <1>7 DEF PublishInv
<1>9. RunsInv'
  BY <1>1, <1>3, <1>5, <1>7 DEF RunsInv
<1>10. QED
  BY <1>2, <1>6, <1>8, <1>9

LEMMA TakeTypedKeeps ==
  ASSUME EventBusInv, NEW p \in Publishers, TakeTyped(p)
  PROVE  EventBusInv'
<1> USE DEF EventBusInv
<1>1. /\ subscriptions' = subscriptions /\ wildcards' = wildcards /\ made' = made
      /\ toRemove' = toRemove /\ runs' = runs /\ cancelled' = cancelled
      /\ toRun' = [toRun EXCEPT ![p] = subscriptions]
      /\ phase[p] = "wildcards" /\ phase' = [phase EXCEPT ![p] = "typed"]
  BY DEF TakeTyped
<1>2. BusTypeOK'
  BY <1>1 DEF BusTypeOK
<1>3. /\ toRun'[p] = subscriptions /\ phase'[p] = "typed"
      /\ \A q \in Publishers : q # p => toRun'[q] = toRun[q] /\ phase'[q] = phase[q]
  BY <1>1 DEF BusTypeOK
<1>4. toRemove[p] = <<>> /\ Elements(toRemove[p]) = {} /\ Ascending(toRemove[p])
  BY <1>1, ElementsOfEmpty DEF PublishInv
<1>5. /\ Subscribed' = Subscribed /\ Elements(subscriptions) \subseteq Subscribed
      /\ Copied(p)' = Elements(subscriptions)
      /\ \A q \in Publishers : q # p => Copied(q)' = Copied(q)
  BY <1>1, <1>3, <1>4 DEF Subscribed, Copied
<1>6. IdsInv'
  BY <1>1, <1>5, IdsKept
<1>7. PublishInv'
  BY <1>1, <1>3, <1>4, <1>5 DEF PublishInv
<1>8. RunsInv'
  BY <1>1, <1>3, <1>4, <1>5 DEF RunsInv
<1>9. QED
  BY <1>2, <1>6, <1>7, <1>8

LEMMA EndPublishKeeps ==
  ASSUME EventBusInv, NEW p \in Publishers, EndPublish(p)
  PROVE  EventBusInv'
<1> USE DEF EventBusInv
<1>1. /\ subscriptions' = Removed(subscriptions, toRemove[p]) /\ wildcards' = wildcards
      /\ made' = made /\ toRun' = toRun /\ runs' = runs /\ cancelled' = cancelled
      /\ toRemove' = [toRemove EXCEPT ![p] = <<>>]
      /\ phase[p] = "typed" /\ toRun[p] = <<>> /\ phase' = [phase EXCEPT ![p] = "idle"]
  BY DEF EndPublish
<1>2. Copied(p) = Elements(toRemove[p])
  BY <1>1, ElementsOfEmpty DEF Copied
<1>3. /\ subscriptions' \in Seq(SubscriptionType) /\ Ascending(subscriptions')
      /\ Elements(subscriptions') \subseteq Elements(subscriptions)
      /\ \A s \in Elements(toRemove[p]) : s \notin Elements(subscriptions')
  <2>1. subscriptions \in Seq(SubscriptionType) /\ toRemove[p] \in Seq(SubscriptionType)
    BY DEF BusTypeOK
  <2>2. /\ Ascending(subscriptions) /\ Ascending(toRemove[p])
        /\ \A s \in Elements(toRemove[p]) : s.once
        /\ \A s \in Elements(subscriptions) :
             s.once => s \in Elements(toRemove[p])
                       \/ \A t \in Elements(toRemove[p]) : t.id < s.id
    BY <1>1, <1>2 DEF PublishInv
  <2>3. QED
    BY ONLY <1>1, <2>1, <2>2, RemovedFacts
<1>4. BusTypeOK'
  BY <1>1, <1>3 DEF BusTypeOK
<1>5. /\ toRemove'[p] = <<>> /\ phase'[p] = "idle" /\ Elements(toRemove'[p]) = {}
      /\ \A q \in Publishers : q # p => toRemove'[q] = toRemove[q] /\ phase'[q] = phase[q]
  BY <1>1, ElementsOfEmpty DEF BusTypeOK
<1>6. /\ Subscribed' \subseteq Subscribed
      /\ \A q \in Publishers : Copied(q)' \subseteq Copied(q)
      /\ \A q \in Publishers : q # p => Copied(q)' = Copied(q)
  BY <1>1, <1>3, <1>5 DEF Subscribed, Copied
<1>7. IdsInv'
  BY <1>1, <1>6, IdsKept
<1>8. PublishInv'
  BY <1>1, <1>3, <1>5, <1>6 DEF PublishInv
<1>9. RunsInv'
  <2>1. \A q \in Publishers : \A s \in Elements(subscriptions') :
          s.once /\ s \notin Elements(toRemove'[q]) => runs[q][s.id] <= cancelled[q]
    <3>1. TAKE q \in Publishers
    <3>2. TAKE s \in Elements(subscriptions')
    <3>3. s \in Elements(subscriptions) /\ (q = p => s \notin Elements(toRemove[q]))
      BY <1>3
    <3>4. QED
      BY <1>5, <3>3 DEF RunsInv
  <2>2. \A q \in Publishers : Elements(toRun'[q]) = Elements(toRun[q])
    BY <1>1
  <2>3. QED
    BY <1>1, <1>6, <2>1, <2>2 DEF RunsInv
<1>10. QED
  BY <1>4, <1>7, <1>8, <1>9

LEMMA HandlerRuns ==
  ASSUME EventBusInv, NEW p \in Publishers, NEW s, s.id \in Ids, Ran(p, s)
  PROVE  /\ \A q \in Publishers, i \in Ids :
              runs'[q][i] = runs[q][i]
              \/ (q = p /\ i = s.id /\ runs'[q][i] = runs[q][i] + 1)
         /\ runs' \in [Publishers -> [Ids -> Nat]]
<1>1. runs \in [Publishers -> [Ids -> Nat]]
  BY DEF EventBusInv, BusTypeOK
<1>2. CASE s.accepts
  <2>1. runs' = [runs EXCEPT ![p] = [runs[p] EXCEPT ![s.id] = runs[p][s.id] + 1]]
    BY <1>2 DEF Ran
  <2>2. /\ runs[p] \in [Ids -> Nat] /\ runs[p][s.id] + 1 \in Nat
    BY <1>1
  <2>3. [runs[p] EXCEPT ![s.id] = runs[p][s.id] + 1] \in [Ids -> Nat]
    BY <2>2
  <2>4. runs' \in [Publishers -> [Ids -> Nat]]
    BY <1>1, <2>1, <2>3
  <2>5. ASSUME NEW q \in Publishers, NEW i \in Ids
        PROVE  runs'[q][i] = runs[q][i]
               \/ (q = p /\ i = s.id /\ runs'[q][i] = runs[q][i] + 1)
    BY <1>1, <2>1, <2>2
  <2>6. QED
    BY <2>4, <2>5
<1>3. CASE ~s.accepts
  BY <1>1, <1>3 DEF Ran
<1>4. QED
  BY <1>2, <1>3

LEMMA ExecuteHandlerKeeps ==
  ASSUME EventBusInv, NEW p \in Publishers, ExecuteHandler(p)
  PROVE  EventBusInv'
<1> USE DEF EventBusInv
<1> DEFINE s == Head(toRun[p])
<1>1. /\ subscriptions' = subscriptions /\ wildcards' = wildcards /\ made' = made
      /\ phase' = phase /\ toRun[p] # <<>>
      /\ toRun' = [toRun EXCEPT ![p] = Tail(@)]
      /\ toRemove' = IF s.once THEN [toRemove EXCEPT ![p] = Append(@, s)] ELSE toRemove
      /\ Ran(p, s) /\ cancelled' = cancelled
  BY DEF ExecuteHandler
<1>2. toRun[p] \in Seq(SubscriptionType) /\ toRemove[p] \in Seq(SubscriptionType)
  BY DEF BusTypeOK
<1>3. /\ Tail(toRun[p]) \in Seq(SubscriptionType) /\ s \in SubscriptionType
      /\ Elements(toRun[p]) = Elements(Tail(toRun[p])) \union {s}
      /\ Ascending(toRun[p]) =>
           Ascending(Tail(toRun[p])) /\ \A t \in Elements(Tail(toRun[p])) : s.id < t.id
  BY <1>1, <1>2, ElementsOfTail
<1> HIDE DEF s
<1>4. /\ s \in Elements(toRun[p]) /\ s \in Copied(p) /\ s.id \in 1..made
      /\ made \in 0..MaxSubscriptions
  BY <1>3 DEF Copied, IdsInv, BusTypeOK
<1>5. s.id \in Ids /\ s.id \in Nat /\ s.id <= made
  BY <1>4, BusAssumption DEF Ids
<1>6. /\ toRun'[p] = Tail(toRun[p])
      /\ \A q \in Publishers : q # p => toRun'[q] = toRun[q] /\ toRemove'[q] = toRemove[q]
      /\ s.once => toRemove'[p] = Append(toRemove[p], s)
      /\ ~s.once => toRemove'[p] = toRemove[p]
  BY <1>1 DEF BusTypeOK
<1>7. /\ toRemove'[p] \in Seq(SubscriptionType)
      /\ s.once => Elements(toRemove'[p]) = Elements(toRemove[p]) \union {s}
      /\ ~s.once => Elements(toRemove'[p]) = Elements(toRemove[p])
  BY <1>2, <1>3, <1>6, ElementsOfAppend
<1>8. /\ \A q \in Publishers, i \in Ids :
           runs'[q][i] = runs[q][i] \/ (q = p /\ i = s.id /\ runs'[q][i] = runs[q][i] + 1)
      /\ runs' \in [Publishers -> [Ids -> Nat]]
  BY <1>1, <1>5, HandlerRuns
<1>9. BusTypeOK'
  <2>1. toRemove' \in [Publishers -> Seq(SubscriptionType)]
    BY <1>1, <1>2, <1>3, ElementsOfAppend DEF BusTypeOK
  <2>2. QED
    BY <1>1, <1>3, <1>8, <2>1 DEF BusTypeOK
<1>10. /\ Subscribed' = Subscribed
       /\ \A q \in Publishers : Copied(q)' \subseteq Copied(q)
       /\ \A q \in Publishers : q # p => Copied(q)' = Copied(q)
       /\ \A t \in Copied(p) : t.once => t \in Copied(p)'
  <2>1. Subscribed' = Subscribed
    BY <1>1 DEF Subscribed
  <2>2. Copied(p)' = Elements(Tail(toRun[p])) \union Elements(toRemove'[p])
    BY <1>6 DEF Copied
  <2>3. Copied(p)' \subseteq Copied(p)
    BY <1>3, <1>7, <2>2 DEF Copied
  <2>4. \A t \in Copied(p) : t.once => t \in Copied(p)'
    BY <1>3, <1>7, <2>2 DEF Copied
  <2>5. \A q \in Publishers : q # p => Copied(q)' = Copied(q)
    BY <1>6 DEF Copied
  <2>6. QED
    BY <2>1, <2>3, <2>4, <2>5
<1>11. IdsInv'
  BY <1>1, <1>10, IdsKept
<1>12. PublishInv'
  <2>1. /\ Ascending(subscriptions') /\ \A t \in Elements(wildcards') : ~t.once
    BY <1>1 DEF PublishInv
  <2>2. phase[p] # "idle"
    BY <1>1 DEF PublishInv
  <2>3. ASSUME phase[p] = "wildcards"
        PROVE  toRemove'[p] = <<>> /\ \A t \in Elements(toRun'[p]) : ~t.once
    <3>1. ~s.once /\ toRemove[p] = <<>> /\ \A t \in Elements(toRun[p]) : ~t.once
      BY <1>4, <2>3 DEF PublishInv
    <3>2. QED
      BY <1>3, <1>6, <3>1
  <2>4. ASSUME phase[p] = "typed"
        PROVE  /\ Ascending(toRun'[p]) /\ Ascending(toRemove'[p])
               /\ \A u \in Elements(toRemove'[p]) :
                    u.once /\ \A t \in Elements(toRun'[p]) : u.id < t.id
               /\ \A u \in Elements(subscriptions') :
                    u.once => u \in Copied(p)' \/ \A t \in Copied(p)' : t.id < u.id
    <3>1. /\ Ascending(toRun[p]) /\ Ascending(toRemove[p])
          /\ \A u \in Elements(toRemove[p]) :
               u.once /\ \A t \in Elements(toRun[p]) : u.id < t.id
          /\ \A u \in Elements(subscriptions) :
               u.once => u \in Copied(p) \/ \A t \in Copied(p) : t.id < u.id
      BY <2>4 DEF PublishInv
    <3>2. Ascending(toRun'[p]) /\ \A t \in Elements(toRun'[p]) : s.id < t.id
      BY <1>3, <1>6, <3>1
    <3>3. Ascending(toRemove'[p])
      <4>1. \A t \in Elements(toRemove[p]) : t.id < s.id
        BY <1>4, <3>1
      <4>2. QED
        BY <1>2, <1>3, <1>6, <3>1, <4>1, ElementsOfAppend
    <3>4. \A u \in Elements(toRemove'[p]) :
            u.once /\ \A t \in Elements(toRun'[p]) : u.id < t.id
      BY <1>3, <1>6, <1>7, <3>1, <3>2
    <3>5. \A u \in Elements(subscriptions') :
            u.once => u \in Copied(p)' \/ \A t \in Copied(p)' : t.id < u.id
      BY <1>1, <1>10, <3>1
    <3>6. QED
      BY <3>2, <3>3, <3>4, <3>5
  <2>5. ASSUME NEW q \in Publishers, q # p
        PROVE  /\ toRun'[q] = toRun[q] /\ toRemove'[q] = toRemove[q]
               /\ Copied(q)' = Copied(q)
    BY <1>6, <1>10, <2>5
  <2>6. QED
    BY <1>1, <2>1, <2>2, <2>3, <2>4, <2>5 DEF PublishInv
<1>13. RunsInv'
  <2>1. ASSUME NEW q \in Publishers, NEW i \in Ids, i > made' PROVE runs'[q][i] = 0
    <3>1. i # s.id
      BY <1>1, <1>4, <1>5, <2>1 DEF Ids
    <3>2. QED
      BY <1>1, <1>8, <2>1, <3>1 DEF RunsInv
  <2>2. /\ s.once => runs[p][s.id] <= cancelled[p]
        /\ \A q \in Publishers : cancelled'[q] = cancelled[q] /\ cancelled[q] \in Nat
        /\ \A q \in Publishers, i \in Ids : runs[q][i] \in Nat
    BY <1>1, <1>4 DEF RunsInv, BusTypeOK
  <2>3. ASSUME NEW q \in Publishers, NEW t, t.once, t.id \in Ids,
               t.id = s.id => t = s, runs[q][t.id] <= 1 + cancelled[q]
        PROVE  runs'[q][t.id] <= 1 + cancelled'[q]
    <3>1. CASE q = p /\ t.id = s.id
      BY <1>8, <2>2, <2>3, <3>1
    <3>2. CASE ~(q = p /\ t.id = s.id)
      BY <1>8, <2>2, <2>3, <3>2
    <3>3. QED
      BY <3>1, <3>2
  <2>4. /\ \A t \in Subscribed : t.id \in Ids /\ (t.id = s.id => t = s)
        /\ \A q \in Publishers : \A t \in Copied(q) : t.id \in Ids /\ (t.id = s.id => t = s)
    <3>1. \A i \in 1..made : i \in Ids
      BY <1>4, BusAssumption DEF Ids
    <3>2. QED
      BY <1>4, <3>1 DEF IdsInv
  <2>5. ASSUME NEW q \in Publishers, NEW t \in Subscribed', t.once
        PROVE  runs'[q][t.id] <= 1 + cancelled'[q]
    <3>1. t \in Subscribed
      BY <1>10
    <3>2. QED
      BY <2>3, <2>4, <2>5, <3>1 DEF RunsInv
  <2>6. ASSUME NEW q \in Publishers, NEW r \in Publishers, NEW t \in Copied(r)', t.once
        PROVE  runs'[q][t.id] <= 1 + cancelled'[q]
    <3>1. t \in Copied(r)
      BY <1>10
    <3>2. QED
      BY <2>3, <2>4, <2>6, <3>1 DEF RunsInv
  <2>7. ASSUME NEW q \in Publishers, NEW t \in Elements(subscriptions'),
               t.once, t \notin Elements(toRemove'[q])
        PROVE  runs'[q][t.id] <= cancelled'[q]
    <3>1. t \in Elements(subscriptions) /\ t \in Subscribed
      BY <1>1 DEF Subscribed
    <3>2. t \notin Elements(toRemove[q]) /\ (q = p => t # s)
      BY <1>6, <1>7, <2>7
    <3>3. runs[q][t.id] <= cancelled[q]
      BY <2>7, <3>1, <3>2 DEF RunsInv
    <3>4. QED
      BY <1>8, <2>2, <2>4, <3>1, <3>2, <3>3
  <2>8. ASSUME NEW q \in Publishers, NEW t \in Elements(toRun'[q]), t.once
        PROVE  runs'[q][t.id] <= cancelled'[q]
    <3>1. t \in Elements(toRun[q]) /\ t \in Copied(q)
      BY <1>3, <1>6 DEF Copied
    <3>2. runs[q][t.id] <= cancelled[q]
      BY <2>8, <3>1 DEF RunsInv
    <3>3. q = p => t.id # s.id
      <4>1. SUFFICES ASSUME q = p PROVE t.id # s.id
        OBVIOUS
      <4>2. t \in Elements(Tail(toRun[p]))
        BY <1>6, <4>1
      <4>3. phase[p] = "typed"
        <5>1. phase[p] \in {"idle", "wildcards", "typed"}
          BY DEF BusTypeOK
        <5>2. phase[p] # "idle"
          BY <1>1 DEF PublishInv
        <5>3. phase[p] # "wildcards"
          BY <2>8, <3>1, <4>1 DEF PublishInv
        <5>4. QED
          BY <5>1, <5>2, <5>3
      <4>4. s.id < t.id
        BY <1>3, <4>2, <4>3 DEF PublishInv
      <4>5. QED
        BY <1>5, <4>4
    <3>4. QED
      BY <1>8, <2>2, <2>4, <3>1, <3>2, <3>3
  <2>9. QED
    BY <2>1, <2>5, <2>6, <2>7, <2>8 DEF RunsInv
<1>14. QED
  BY <1>9, <1>11, <1>12, <1>13

LEMMA CancelPublishKeeps ==
  ASSUME EventBusInv, NEW p \in Publishers, CancelPublish(p)
  PROVE  EventBusInv'
<1> USE DEF EventBusInv
<1> DEFINE s == Head(toRun[p])
<1>1. /\ subscriptions' = subscriptions /\ wildcards' = wildcards /\ made' = made
      /\ toRun[p] # <<>> /\ Ran(p, s)
      /\ cancelled' = [cancelled EXCEPT ![p] = @ + 1]
      /\ phase' = [phase EXCEPT ![p] = "idle"]
      /\ toRun' = [toRun EXCEPT ![p] = <<>>] /\ toRemove' = [toRemove EXCEPT ![p] = <<>>]
  BY DEF CancelPublish
<1>2. s \in Elements(toRun[p]) /\ s \in Copied(p)
  <2>1. toRun[p] \in Seq(SubscriptionType)
    BY DEF BusTypeOK
  <2>2. s \in Elements(toRun[p])
    BY <1>1, <2>1, ElementsOfTail
  <2>3. QED
    BY <2>2 DEF Copied
<1> HIDE DEF s
<1>3. s.id \in 1..made /\ made \in 0..MaxSubscriptions
  BY <1>2 DEF IdsInv, BusTypeOK
<1>4. s.id \in Ids /\ s.id \in Nat /\ s.id <= made
  BY <1>3, BusAssumption DEF Ids
<1>5. /\ \A q \in Publishers, i \in Ids :
           runs'[q][i] = runs[q][i] \/ (q = p /\ i = s.id /\ runs'[q][i] = runs[q][i] + 1)
      /\ runs' \in [Publishers -> [Ids -> Nat]]
  BY <1>1, <1>4, HandlerRuns
<1>6. /\ phase'[p] = "idle" /\ toRun'[p] = <<>> /\ toRemove'[p] = <<>>
      /\ Elements(toRun'[p]) = {} /\ Elements(toRemove'[p]) = {}
      /\ cancelled'[p] = cancelled[p] + 1
      /\ \A q \in Publishers : q # p =>
           /\ phase'[q] = phase[q] /\ toRun'[q] = toRun[q] /\ toRemove'[q] = toRemove[q]
           /\ cancelled'[q] = cancelled[q]
  BY <1>1, ElementsOfEmpty DEF BusTypeOK
<1>7. BusTypeOK'
  <2>1. cancelled' \in [Publishers -> Nat]
    BY <1>1 DEF BusTypeOK
  <2>2. <<>> \in Seq(SubscriptionType)
    OBVIOUS
  <2>3. QED
    BY <1>1, <1>5, <2>1, <2>2 DEF BusTypeOK
<1>8. /\ Subscribed' = Subscribed /\ Copied(p)' = {}
      /\ \A q \in Publishers : Copied(q)' \subseteq Copied(q)
      /\ \A q \in Publishers : q # p => Copied(q)' = Copied(q)
  BY <1>1, <1>6 DEF Subscribed, Copied
<1>9. IdsInv'
  BY <1>1, <1>8, IdsKept
<1>10. PublishInv'
  BY <1>1, <1>6, <1>8 DEF PublishInv
<1>11. RunsInv'
  <2>1. ASSUME NEW q \in Publishers, NEW i \in Ids, i > made' PROVE runs'[q][i] = 0
    <3>1. i # s.id
      BY <1>1, <1>3, <1>4, <2>1 DEF Ids
    <3>2. QED
      BY <1>1, <1>5, <2>1, <3>1 DEF RunsInv
  <2>2. /\ \A q \in Publishers : cancelled[q] \in Nat
        /\ \A q \in Publishers, i \in Ids : runs[q][i] \in Nat
        /\ \A i \in 1..made : i \in Ids
    BY <1>3, BusAssumption DEF BusTypeOK, Ids
  <2>3. /\ \A t \in Subscribed : t.id \in Ids /\ (t.id = s.id => t = s)
        /\ \A q \in Publishers : \A t \in Copied(q) : t.id \in Ids /\ (t.id = s.id => t = s)
    BY <1>2, <2>2 DEF IdsInv
  <2>4. /\ s.once => runs[p][s.id] <= cancelled[p]
        /\ \A q \in Publishers : \A t \in Subscribed :
             t.once => runs[q][t.id] <= 1 + cancelled[q]
        /\ \A q, u \in Publishers : \A t \in Copied(u) :
             t.once => runs[q][t.id] <= 1 + cancelled[q]
        /\ \A q \in Publishers : \A t \in Elements(subscriptions) :
             t.once /\ t \notin Elements(toRemove[q]) => runs[q][t.id] <= cancelled[q]
        /\ \A q \in Publishers : \A t \in Elements(toRun[q]) :
             t.once => runs[q][t.id] <= cancelled[q]
    BY <1>2 DEF RunsInv
  <2>5. ASSUME NEW q \in Publishers, NEW t, t.once, t.id \in Ids, t.id = s.id => t = s,
               runs[q][t.id] <= 1 + cancelled[q]
        PROVE  /\ runs'[q][t.id] <= 1 + cancelled'[q]
               /\ q = p => runs'[q][t.id] <= cancelled'[q]
    <3>1. CASE q # p
      BY <1>5, <1>6, <2>5, <3>1
    <3>2. CASE q = p /\ t.id # s.id
      <4>1. runs'[q][t.id] = runs[q][t.id] /\ cancelled'[q] = cancelled[q] + 1
        BY <1>5, <1>6, <2>5, <3>2
      <4>2. QED
        BY <2>2, <2>5, <4>1
    <3>3. CASE q = p /\ t.id = s.id
      <4>1. /\ runs'[q][t.id] = runs[q][t.id] \/ runs'[q][t.id] = runs[q][t.id] + 1
            /\ cancelled'[q] = cancelled[q] + 1 /\ runs[q][t.id] <= cancelled[q]
        BY <1>5, <1>6, <2>4, <2>5, <3>3
      <4>2. QED
        BY <2>2, <2>5, <4>1
    <3>4. QED
      BY <3>1, <3>2, <3>3
  <2>6. ASSUME NEW q \in Publishers, NEW t \in Subscribed', t.once
        PROVE  runs'[q][t.id] <= 1 + cancelled'[q]
    BY <1>8, <2>3, <2>4, <2>5, <2>6
  <2>7. ASSUME NEW q \in Publishers, NEW u \in Publishers, NEW t \in Copied(u)', t.once
        PROVE  runs'[q][t.id] <= 1 + cancelled'[q]
    <3>1. t \in Copied(u)
      BY <1>8
    <3>2. QED
      BY <2>3, <2>4, <2>5, <2>7, <3>1
  <2>8. ASSUME NEW q \in Publishers, NEW t \in Elements(subscriptions'),
               t.once, t \notin Elements(toRemove'[q])
        PROVE  runs'[q][t.id] <= cancelled'[q]
    <3>1. t \in Elements(subscriptions) /\ t \in Subscribed
      BY <1>1 DEF Subscribed
    <3>2. CASE q = p
      BY <2>3, <2>4, <2>5, <2>8, <3>1, <3>2
    <3>3. CASE q # p
      BY <1>5, <1>6, <2>3, <2>4, <2>8, <3>1, <3>3
    <3>4. QED
      BY <3>2, <3>3
  <2>9. ASSUME NEW q \in Publishers, NEW t \in Elements(toRun'[q]), t.once
        PROVE  runs'[q][t.id] <= cancelled'[q]
    <3>1. q # p /\ t \in Elements(toRun[q]) /\ t \in Copied(q)
      BY <1>6 DEF Copied
    <3>2. QED
      BY <1>5, <1>6, <2>3, <2>4, <2>9, <3>1
  <2>10. QED
    BY <2>1, <2>6, <2>7, <2>8, <2>9 DEF RunsInv
<1>12. QED
  BY <1>7, <1>9, <1>10, <1>11

LEMMA BusStutters == ASSUME EventBusInv, UNCHANGED busVars PROVE EventBusInv'
<1>1. /\ UNCHANGED <<subscriptions, wildcards, made, phase, toRun, toRemove, runs, cancelled>>
  BY DEF busVars
<1>2. Subscribed' = Subscribed /\ \A p \in Publishers : Copied(p)' = Copied(p)
  BY <1>1 DEF Subscribed, Copied
<1>3. BusTypeOK' /\ IdsInv'
  BY <1>1, <1>2 DEF EventBusInv, BusTypeOK, IdsInv
<1>4. PublishInv'
  BY <1>1, <1>2 DEF EventBusInv, PublishInv
<1>5. RunsInv'
  BY <1>1, <1>2 DEF EventBusInv, RunsInv
<1>6. QED
  BY <1>3, <1>4, <1>5 DEF EventBusInv

LEMMA BusInvariant == BusSpec => []EventBusInv
<1>1. BusInit => EventBusInv
  BY BusInitially
<1>2. EventBusInv /\ [BusNext]_busVars => EventBusInv'
  <2>1. SUFFICES ASSUME EventBusInv, [BusNext]_busVars PROVE EventBusInv'
    OBVIOUS
  <2>2. CASE UNCHANGED busVars
    BY <2>1, <2>2, BusStutters
  <2>3. ASSUME NEW h \in Handlers, NEW accepts \in BOOLEAN, NEW once \in BOOLEAN,
               Subscribe(h, accepts, once)
        PROVE  EventBusInv'
    BY <2>1, <2>3, SubscribeKeeps
  <2>4. ASSUME NEW h \in Handlers,
               SubscribeWildcard(h) \/ Unsubscribe(h) \/ UnsubscribeWildcard(h)
        PROVE  EventBusInv'
    BY <2>1, <2>4, SubscribeWildcardKeeps, UnsubscribeKeeps
  <2>5. CASE Clear
    BY <2>1, <2>5, UnsubscribeKeeps
  <2>6. ASSUME NEW p \in Publishers,
               \/ Publish(p) \/ ExecuteHandler(p) \/ CancelPublish(p)
               \/ TakeTyped(p) \/ EndPublish(p)
        PROVE  EventBusInv'
    BY <2>1, <2>6, PublishKeeps, ExecuteHandlerKeeps, CancelPublishKeeps, TakeTypedKeeps,
       EndPublishKeeps
  <2>7. QED
    BY <2>1, <2>2, <2>3, <2>4, <2>5, <2>6 DEF BusNext
<1>3. QED
  BY <1>1, <1>2, PTL DEF BusSpec

\* core/event_bus: whatever is subscribed, unsubscribed and published at the same time,
\* and within handlers, a publisher runs a once-subscription at most once for as long as
\* the bus, or a publish that is under way, still has it, and at most once more for each
\* of its publishes that was cancelled.
THEOREM OncePerPublisher == BusSpec => []OnceIsOncePerPublisher
<1>1. EventBusInv => OnceIsOncePerPublisher
  <2>1. SUFFICES ASSUME EventBusInv, NEW p \in Publishers, NEW i \in OnceIds
                 PROVE  runs[p][i] <= 1 + cancelled[p]
    BY DEF OnceIsOncePerPublisher
  <2>2. PICK s : /\ s.once /\ s.id = i
                 /\ s \in Elements(subscriptions) \/ \E q \in Publishers : s \in Copied(q)
    BY DEF OnceIds, Elements, Copied
  <2>3. QED
    BY <2>1, <2>2 DEF EventBusInv, RunsInv, Subscribed
<1>2. QED
  BY <1>1, BusInvariant, PTL

-----------------------------------------------------------------------------
(* Parts of lists.                                                         *)

\* The end of a list.
LEMMA EndIsSuffix ==
  ASSUME NEW S, NEW list \in Seq(S), NEW k \in 0..Len(list)
  PROVE  /\ IsSuffix(SubSeq(list, k + 1, Len(list)), list)
         /\ Len(SubSeq(list, k + 1, Len(list))) = Len(list) - k
<1> DEFINE N == Len(list)
           end == SubSeq(list, k + 1, N)
           r == Reverse(end)
           w == Reverse(list)
<1>1. /\ N \in Nat /\ end \in Seq(S) /\ Len(end) = N - k
      /\ \A i \in 1..N - k : end[i] = list[(k + 1) + i - 1]
  <2>1. \A i \in k + 1..N : list[i] \in S
    OBVIOUS
  <2>2. k + 1 \in Int /\ N \in Int
    OBVIOUS
  <2>3. /\ end \in Seq(S) /\ Len(end) = IF k + 1 <= N THEN N - (k + 1) + 1 ELSE 0
        /\ \A i \in 1..N - (k + 1) + 1 : end[i] = list[(k + 1) + i - 1]
    BY <2>1, <2>2, SubSeqProperties
  <2>4. N - (k + 1) + 1 = N - k /\ N \in Nat /\ k \in 0..N
    BY <2>2
  <2>5. Len(end) = N - k
    <3>1. CASE k + 1 <= N
      BY <2>3, <2>4, <3>1
    <3>2. CASE ~(k + 1 <= N)
      <4>1. k = N /\ N - k = 0
        <5>1. k <= N /\ N < k + 1
          BY ONLY <2>4, <3>2
        <5>2. N \in Nat /\ k \in Nat
          BY ONLY <2>4
        <5>3. k = N
          BY ONLY <5>1, <5>2
        <5>4. N - N = 0
          BY ONLY <5>2
        <5>5. QED
          BY <5>3, <5>4
      <4>2. Len(end) = 0
        BY <2>3, <3>2
      <4>3. QED
        BY <4>1, <4>2
    <3>3. QED
      BY <3>1, <3>2
  <2>6. QED
    BY ONLY <2>3, <2>4, <2>5
<1> HIDE DEF end
<1>2. /\ r \in Seq(S) /\ Len(r) = N - k
      /\ \A i \in 1..N - k : r[i] = list[(N - i) + 1]
  <2>1. r = [i \in 1..N - k |-> end[((N - k) - i) + 1]]
    BY <1>1 DEF Reverse
  <2>2. ASSUME NEW i \in 1..N - k
        PROVE  /\ ((N - k) - i) + 1 \in 1..N - k
               /\ (k + 1) + (((N - k) - i) + 1) - 1 = (N - i) + 1 /\ (N - i) + 1 \in 1..N
    BY <1>1
  <2>3. ASSUME NEW i \in 1..N - k
        PROVE  end[((N - k) - i) + 1] = list[(N - i) + 1] /\ list[(N - i) + 1] \in S
    <3>1. end[((N - k) - i) + 1] = list[(k + 1) + (((N - k) - i) + 1) - 1]
      BY <2>2, <1>1
    <3>2. QED
      BY <3>1, <2>2
  <2>4. N - k \in Nat
    BY <1>1
  <2>5. QED
    BY <2>1, <2>3, <2>4
<1>3. /\ w \in Seq(S) /\ Len(w) = N
      /\ \A i \in 1..N : w[i] = list[(N - i) + 1]
  <2>1. w = [i \in 1..N |-> list[(N - i) + 1]]
    BY DEF Reverse
  <2>2. ASSUME NEW i \in 1..N PROVE list[(N - i) + 1] \in S
    <3>1. (N - i) + 1 \in 1..N
      BY <1>1
    <3>2. QED
      BY <3>1
  <2>3. QED
    BY <2>1, <2>2, <1>1
<1> HIDE DEF r, w, N
<1>4. N - k \in Nat /\ N - k <= N
  <2>1. k \in 0..N
    BY DEF N
  <2>2. QED
    BY <2>1, <1>1
<1>5. SubSeq(r, 1, N - k) = SubSeq(w, 1, N - k)
  <2>1. \A i \in 1..N - k : i \in 1..N /\ 1 + i - 1 = i
    BY <1>1, <1>4
  <2>2. (\A i \in 1..N - k : r[i] \in S) /\ (\A i \in 1..N - k : w[i] \in S)
    BY <1>2, <1>3, <2>1
  <2>3. 1 \in Int /\ N - k \in Int /\ (N - k) - 1 + 1 = N - k
    BY <1>4
  <2>4. /\ SubSeq(r, 1, N - k) \in Seq(S)
        /\ Len(SubSeq(r, 1, N - k)) = IF 1 <= N - k THEN N - k - 1 + 1 ELSE 0
        /\ \A i \in 1..N - k - 1 + 1 : SubSeq(r, 1, N - k)[i] = r[1 + i - 1]
    BY <2>2, <2>3, SubSeqProperties
  <2>5. /\ SubSeq(w, 1, N - k) \in Seq(S)
        /\ Len(SubSeq(w, 1, N - k)) = IF 1 <= N - k THEN N - k - 1 + 1 ELSE 0
        /\ \A i \in 1..N - k - 1 + 1 : SubSeq(w, 1, N - k)[i] = w[1 + i - 1]
    BY <2>2, <2>3, SubSeqProperties
  <2>6. Len(SubSeq(r, 1, N - k)) = N - k
    BY <2>4, <2>3, <1>4
  <2>7. ASSUME NEW i \in 1..N - k PROVE SubSeq(r, 1, N - k)[i] = SubSeq(w, 1, N - k)[i]
    <3>1. i \in 1..N - k - 1 + 1 /\ i \in 1..N /\ 1 + i - 1 = i
      BY <2>1, <1>4
    <3>2. SubSeq(r, 1, N - k)[i] = r[i] /\ SubSeq(w, 1, N - k)[i] = w[i]
      BY <3>1, <2>4, <2>5
    <3>3. QED
      BY <3>1, <3>2, <1>2, <1>3
  <2>8. QED
    BY <2>4, <2>5, <2>6, <2>7, SeqEqual
<1>6. IsSuffix(end, list)
  BY <1>2, <1>3, <1>4, <1>5 DEF IsSuffix, IsPrefix, r, w
<1>7. QED
  BY <1>1, <1>6 DEF end, N

-----------------------------------------------------------------------------
(* The structured log: the inductive invariant.                            *)

RecordType == [number : Nat, size : Nat, born : Nat]
EmittingType ==
  [record : RecordType, category : Categories, next : {"none", "shift", "append"}, index : Int]

LogTypeOK ==
  /\ files \in [Categories -> [Indices -> Seq(RecordType)]]
  /\ emitting \in EmittingType
  /\ written \in [Categories -> Seq(RecordType)]
  /\ rotations \in [Categories -> Nat]

\* Where the files of a category, from the newest to the oldest, end in what was written.
Placed(held, list, mark) ==
  /\ mark \in [0..Oldest + 1 -> 0..Len(list)] /\ mark[0] = Len(list)
  /\ \A i \in 0..Oldest :
       mark[i + 1] <= mark[i] /\ held[i] = SubSeq(list, mark[i + 1] + 1, mark[i])

\* What is in a file has seen as many rotations as files are newer, and one more when the
\* rotation under way has not come to it yet.
Aged(list, mark, count, ahead) ==
  \A p \in 0..Oldest + 1 : \A n \in 1..mark[p] :
    count - list[n].born >= p + (IF p <= ahead THEN 1 ELSE 0)

Ahead(c) == IF emitting.next = "shift" /\ emitting.category = c THEN emitting.index + 1 ELSE -1

PlacesInv ==
  \A c \in Categories :
    \E mark : Placed(files[c], written[c], mark) /\ Aged(written[c], mark, rotations[c], Ahead(c))

EmittingInv ==
  /\ emitting.next # "none" => emitting.record.born = rotations[emitting.category]
  /\ emitting.next = "shift" => /\ emitting.index \in 0..Oldest - 1
                                /\ files[emitting.category][emitting.index + 1] = <<>>
  /\ emitting.next = "append" /\ MaxSize > 0 =>
       \/ files[emitting.category][0] = <<>>
       \/ Size(files[emitting.category][0]) + emitting.record.size <= MaxSize

SizesInv ==
  MaxSize > 0 => \A c \in Categories, i \in Indices :
                   Size(files[c][i]) <= MaxSize \/ Len(files[c][i]) = 1

LogInv == LogTypeOK /\ PlacesInv /\ EmittingInv /\ SizesInv

LEMMA OldestIsLast ==
  /\ Oldest \in Nat /\ BackupCount <= Oldest /\ Indices = 0..Oldest
  /\ (BackupCount > 0 => Oldest = BackupCount) /\ (~(BackupCount > 0) => Oldest = 0)
BY LogAssumption DEF Oldest, Indices

-----------------------------------------------------------------------------
(* The size of a file.                                                     *)

SizesOf(sum, held) ==
  sum = [n \in 0..Len(held) |-> IF n = 0 THEN 0 ELSE sum[n - 1] + held[n].size]

LEMMA SizeIs ==
  ASSUME NEW held \in Seq(RecordType), NEW f, SizesOf(f, held)
  PROVE  Size(held) = f[Len(held)]
<1> DEFINE N == Len(held)
           sum == CHOOSE g : SizesOf(g, held)
           bad == {n \in 0..N : sum[n] # f[n]}
<1>1. Size(held) = sum[N] /\ N \in Nat
  BY DEF Size, SizesOf
<1>2. SizesOf(sum, held)
  OBVIOUS
<1> HIDE DEF sum
<1>3. sum[0] = 0 /\ \A n \in 1..N : sum[n] = sum[n - 1] + held[n].size
  <2>1. 0 \in 0..N /\ \A n \in 1..N : n \in 0..N /\ n # 0
    BY <1>1
  <2>2. QED
    BY <1>2, <2>1 DEF SizesOf
<1>4. f[0] = 0 /\ \A n \in 1..N : f[n] = f[n - 1] + held[n].size
  <2>1. 0 \in 0..N /\ \A n \in 1..N : n \in 0..N /\ n # 0
    BY <1>1
  <2>2. QED
    BY <2>1 DEF SizesOf
<1>5. bad = {}
  <2>1. SUFFICES ASSUME bad # {} PROVE FALSE
    OBVIOUS
  <2>2. PICK n \in bad : \A m \in bad : n <= m
    <3>1. bad \in SUBSET Nat
      BY <1>1
    <3>2. QED
      BY <2>1, <3>1, LeastNumber
  <2>3. n \in 1..N /\ n - 1 \in 0..N /\ n - 1 < n
    BY <1>1, <1>3, <1>4
  <2>4. sum[n - 1] = f[n - 1]
    BY <2>2, <2>3
  <2>5. QED
    BY <2>3, <2>4, <1>3, <1>4
<1>6. QED
  BY <1>1, <1>5

LEMMA SizesExist ==
  ASSUME NEW held \in Seq(RecordType)
  PROVE  \E f : SizesOf(f, held) /\ f \in [0..Len(held) -> Nat]
<1> DEFINE N == Len(held)
           F == [n \in 1..N |-> [x \in Nat |-> x + held[n].size]]
<1>1. N \in Nat /\ 0 \in Nat
  OBVIOUS
<1>2. GoesOn(F, Nat, N)
  <2>1. ASSUME NEW n \in 1..N, NEW x \in Nat PROVE x + held[n].size \in Nat
    <3>1. held[n] \in RecordType
      OBVIOUS
    <3>2. held[n].size \in Nat
      BY <3>1 DEF RecordType
    <3>3. QED
      BY <3>2
  <2>2. F \in [1..N -> [Nat -> Nat]]
    BY <2>1
  <2>3. QED
    BY <1>1, <2>2 DEF GoesOn
<1>3. ASSUME NEW x \in Nat, NEW n \in 1..N PROVE F[n][x] = x + held[n].size
  OBVIOUS
<1> HIDE DEF F
<1>4. PICK f : Course(f, F, Nat, N, 0)
  BY <1>1, <1>2, CourseExists
<1>5. f \in [0..N -> Nat] /\ f[0] = 0 /\ \A n \in 1..N : f[n] = F[n][f[n - 1]]
  BY <1>4 DEF Course
<1>6. ASSUME NEW n \in 0..N PROVE f[n] = IF n = 0 THEN 0 ELSE f[n - 1] + held[n].size
  <2>1. CASE n = 0
    BY <2>1, <1>5
  <2>2. CASE n # 0
    <3>1. n \in 1..N /\ n - 1 \in 0..N
      BY <2>2, <1>1
    <3>2. f[n - 1] \in Nat /\ f[n] = F[n][f[n - 1]]
      BY <3>1, <1>5
    <3>3. QED
      BY <2>2, <3>1, <3>2, <1>3
  <2>3. QED
    BY <2>1, <2>2
<1>7. f = [n \in 0..N |-> IF n = 0 THEN 0 ELSE f[n - 1] + held[n].size]
  BY <1>5, <1>6
<1>8. QED
  BY <1>5, <1>7 DEF SizesOf

LEMMA SizeOfEmpty == Size(<<>>) = 0
<1> DEFINE f == [n \in 0..0 |-> 0]
<1>1. <<>> \in Seq(RecordType) /\ Len(<<>>) = 0
  OBVIOUS
<1>2. SizesOf(f, <<>>)
  BY DEF SizesOf
<1>3. QED
  BY <1>1, <1>2, SizeIs

LEMMA SizeOfAppend ==
  ASSUME NEW held \in Seq(RecordType), NEW record \in RecordType
  PROVE  Size(Append(held, record)) = Size(held) + record.size
<1> DEFINE N == Len(held)
           longer == Append(held, record)
<1>1. PICK f : SizesOf(f, held) /\ f \in [0..N -> Nat]
  BY SizesExist
<1> DEFINE g == [n \in 0..N + 1 |-> IF n = N + 1 THEN f[N] + record.size ELSE f[n]]
<1>2. /\ N \in Nat /\ longer \in Seq(RecordType) /\ Len(longer) = N + 1
      /\ longer[N + 1] = record /\ \A i \in 1..N : longer[i] = held[i]
  OBVIOUS
<1> HIDE DEF longer
<1>3. f[0] = 0 /\ \A n \in 1..N : f[n] = f[n - 1] + held[n].size
  <2>1. 0 \in 0..N /\ \A n \in 1..N : n \in 0..N /\ n # 0
    BY <1>2
  <2>2. QED
    BY <1>1, <2>1 DEF SizesOf
<1>4. ASSUME NEW n \in 0..N + 1
      PROVE  g[n] = IF n = 0 THEN 0 ELSE g[n - 1] + longer[n].size
  <2>1. CASE n = 0
    BY <2>1, <1>2, <1>3
  <2>2. CASE n = N + 1
    <3>1. n # 0 /\ n - 1 = N /\ n - 1 \in 0..N + 1 /\ n - 1 # N + 1
      BY <2>2, <1>2
    <3>2. g[n - 1] = f[N] /\ g[n] = f[N] + record.size
      BY <2>2, <3>1
    <3>3. QED
      BY <2>2, <3>1, <3>2, <1>2
  <2>3. CASE n \in 1..N
    <3>1. n # 0 /\ n # N + 1 /\ n - 1 # N + 1 /\ n - 1 \in 0..N + 1
      BY <2>3, <1>2
    <3>2. g[n] = f[n] /\ g[n - 1] = f[n - 1]
      BY <3>1
    <3>3. QED
      BY <2>3, <3>1, <3>2, <1>2, <1>3
  <2>4. QED
    BY <2>1, <2>2, <2>3, <1>2
<1>5. SizesOf(g, longer)
  <2>1. g = [n \in 0..N + 1 |-> IF n = 0 THEN 0 ELSE g[n - 1] + longer[n].size]
    BY <1>4
  <2> HIDE DEF g
  <2>2. QED
    BY <2>1, <1>2 DEF SizesOf
<1>6. g[N + 1] = f[N] + record.size
  BY <1>2
<1> HIDE DEF g
<1>7. Size(longer) = g[N + 1]
  BY <1>2, <1>5, SizeIs
<1>8. Size(held) = f[N]
  BY <1>1, SizeIs
<1>9. QED
  BY <1>6, <1>7, <1>8 DEF longer

LEMMA SizeIsNat == ASSUME NEW held \in Seq(RecordType) PROVE Size(held) \in Nat
<1>1. PICK f : SizesOf(f, held) /\ f \in [0..Len(held) -> Nat]
  BY SizesExist
<1>2. Size(held) = f[Len(held)] /\ Len(held) \in 0..Len(held)
  BY <1>1, SizeIs
<1>3. QED
  BY <1>1, <1>2

-----------------------------------------------------------------------------
(* The places of a category's files in what was written.                   *)

LEMMA PlacedFacts ==
  ASSUME NEW list \in Seq(RecordType), NEW held, NEW mark, Placed(held, list, mark)
  PROVE  /\ Oldest \in Nat /\ Indices = 0..Oldest /\ Len(list) \in Nat
         /\ mark \in [0..Oldest + 1 -> 0..Len(list)] /\ mark[0] = Len(list)
         /\ \A p \in 0..Oldest + 1 : mark[p] \in 0..Len(list) /\ mark[p] \in Nat
         /\ \A i \in 0..Oldest :
              mark[i + 1] <= mark[i] /\ held[i] = SubSeq(list, mark[i + 1] + 1, mark[i])
<1>1. Oldest \in Nat /\ Indices = 0..Oldest /\ Len(list) \in Nat
  BY OldestIsLast
<1>2. mark \in [0..Oldest + 1 -> 0..Len(list)] /\ mark[0] = Len(list)
  BY DEF Placed
<1>3. \A p \in 0..Oldest + 1 : mark[p] \in 0..Len(list)
  BY <1>2
<1>4. \A i \in 0..Oldest :
        mark[i + 1] <= mark[i] /\ held[i] = SubSeq(list, mark[i + 1] + 1, mark[i])
  BY DEF Placed
<1>5. QED
  BY <1>1, <1>2, <1>3, <1>4

LEMMA BornIsInt ==
  ASSUME NEW list \in Seq(RecordType), NEW n \in 1..Len(list)
  PROVE  list[n].born \in Nat
<1>1. list[n] \in RecordType
  OBVIOUS
<1>2. QED
  BY <1>1 DEF RecordType

\* When nothing of a rotation is left to do, or it was cut short.
LEMMA NoneAhead ==
  ASSUME NEW list \in Seq(RecordType), NEW held, NEW mark, NEW count \in Nat, NEW ahead \in Int,
         Placed(held, list, mark), Aged(list, mark, count, ahead)
  PROVE  Aged(list, mark, count, -1)
<1>1. /\ Oldest \in Nat /\ mark \in [0..Oldest + 1 -> 0..Len(list)]
  BY PlacedFacts
<1>2. ASSUME NEW p \in 0..Oldest + 1, NEW n \in 1..mark[p]
      PROVE  count - list[n].born >= p + (IF p <= -1 THEN 1 ELSE 0)
  <2>1. count - list[n].born >= p + (IF p <= ahead THEN 1 ELSE 0)
    BY DEF Aged
  <2>2. p \in Int /\ ~(p <= -1)
    BY <1>1
  <2>3. list[n].born \in Nat
    <3>1. mark[p] \in 0..Len(list)
      BY <1>1
    <3>2. n \in 1..Len(list)
      BY <3>1
    <3>3. QED
      BY <3>2, BornIsInt
  <2>4. QED
    BY <2>1, <2>2, <2>3
<1>3. QED
  BY <1>2 DEF Aged

\* The rotation begins with the oldest file, or with the only one.
LEMMA DropOldest ==
  ASSUME NEW list \in Seq(RecordType), NEW held \in [Indices -> Seq(RecordType)], NEW mark,
         NEW count \in Nat, NEW ahead \in Int,
         Placed(held, list, mark), Aged(list, mark, count, ahead)
  PROVE  \E m : /\ Placed([held EXCEPT ![Oldest] = <<>>], list, m)
                /\ Aged(list, m, count + 1, Oldest)
<1> DEFINE m == [mark EXCEPT ![Oldest + 1] = mark[Oldest]]
           emptied == [held EXCEPT ![Oldest] = <<>>]
<1>1. /\ Oldest \in Nat /\ Indices = 0..Oldest /\ mark \in [0..Oldest + 1 -> 0..Len(list)]
      /\ mark[0] = Len(list) /\ Len(list) \in Nat
      /\ \A i \in 0..Oldest :
           mark[i + 1] <= mark[i] /\ held[i] = SubSeq(list, mark[i + 1] + 1, mark[i])
  BY PlacedFacts
<1>0. Oldest \in Nat /\ Len(list) \in Nat /\ Oldest \in 0..Oldest + 1 /\ Oldest + 1 \in 0..Oldest + 1
  BY <1>1
<1>2. /\ m \in [0..Oldest + 1 -> 0..Len(list)] /\ m[Oldest + 1] = mark[Oldest]
      /\ \A i \in 0..Oldest : m[i] = mark[i]
  BY <1>1
<1>3. emptied[Oldest] = <<>> /\ \A i \in 0..Oldest : i # Oldest => emptied[i] = held[i]
  BY <1>1
<1> HIDE DEF m, emptied
<1>4. Placed(emptied, list, m)
  <2>1. m[0] = Len(list)
    BY <1>1, <1>2
  <2>2. ASSUME NEW i \in 0..Oldest
        PROVE  m[i + 1] <= m[i] /\ emptied[i] = SubSeq(list, m[i + 1] + 1, m[i])
    <3>1. CASE i = Oldest
      <4>1. m[i] = mark[Oldest] /\ m[i + 1] = mark[Oldest] /\ mark[Oldest] \in Nat
        BY <3>1, <1>1, <1>2
      <4>2. SubSeq(list, mark[Oldest] + 1, mark[Oldest]) = <<>>
        BY <4>1, SubSeqEmpty
      <4>3. QED
        BY <3>1, <4>1, <4>2, <1>3
    <3>2. CASE i # Oldest
      <4>1. i + 1 \in 0..Oldest /\ i + 1 # Oldest + 1
        BY <3>2, <1>1
      <4>2. m[i + 1] = mark[i + 1] /\ m[i] = mark[i]
        BY <4>1, <1>2
      <4>3. QED
        BY <3>2, <4>2, <1>1, <1>3
    <3>3. QED
      BY <3>1, <3>2
  <2>3. QED
    BY <2>1, <2>2, <1>1, <1>2 DEF Placed
<1>5. ASSUME NEW p \in 0..Oldest + 1, NEW n \in 1..m[p]
      PROVE  (count + 1) - list[n].born >= p + (IF p <= Oldest THEN 1 ELSE 0)
  <2>1. m[p] \in 0..Len(list) /\ n \in 1..Len(list)
    <3>1. m[p] \in 0..Len(list)
      BY <1>2
    <3>2. QED
      BY <3>1, <1>0
  <2>2. list[n].born \in Nat
    BY <2>1, BornIsInt
  <2>3. ASSUME NEW q \in 0..Oldest + 1, n \in 1..mark[q]
        PROVE  count - list[n].born >= q
    <3>1. count - list[n].born >= q + (IF q <= ahead THEN 1 ELSE 0)
      BY <2>3 DEF Aged
    <3>2. QED
      BY <3>1, <2>2
  <2>4. CASE p = Oldest + 1
    <3>1. n \in 1..mark[Oldest] /\ Oldest \in 0..Oldest + 1
      BY <2>4, <1>1, <1>2
    <3>2. count - list[n].born >= Oldest
      BY <3>1, <2>3
    <3>3. p \in Int /\ p = Oldest + 1 /\ ~(p <= Oldest)
      BY <2>4, <1>0
    <3>4. QED
      BY <3>2, <3>3, <2>2, <1>0
  <2>5. CASE p # Oldest + 1
    <3>1. p \in 0..Oldest /\ n \in 1..mark[p]
      BY <2>5, <1>1, <1>2
    <3>2. count - list[n].born >= p
      BY <3>1, <2>3
    <3>3. p \in Int /\ p <= Oldest
      BY <3>1, <1>0
    <3>4. QED
      BY <3>2, <3>3, <2>2, <1>0
  <2>6. QED
    BY <2>4, <2>5
<1>6. Aged(list, m, count + 1, Oldest)
  BY <1>5 DEF Aged
<1>7. QED
  BY <1>4, <1>6 DEF emptied

\* A file takes the place of the next older one, which is empty.
LEMMA MoveFile ==
  ASSUME NEW list \in Seq(RecordType), NEW held \in [Indices -> Seq(RecordType)], NEW mark,
         NEW count \in Nat, NEW i \in 0..Oldest - 1, held[i + 1] = <<>>,
         Placed(held, list, mark), Aged(list, mark, count, i + 1)
  PROVE  \E m : /\ Placed([held EXCEPT ![i + 1] = held[i], ![i] = <<>>], list, m)
                /\ Aged(list, m, count, i)
<1> DEFINE m == [mark EXCEPT ![i + 1] = mark[i]]
           moved == [held EXCEPT ![i + 1] = held[i], ![i] = <<>>]
<1>1. /\ Oldest \in Nat /\ Indices = 0..Oldest /\ mark \in [0..Oldest + 1 -> 0..Len(list)]
      /\ mark[0] = Len(list) /\ Len(list) \in Nat
      /\ \A j \in 0..Oldest :
           mark[j + 1] <= mark[j] /\ held[j] = SubSeq(list, mark[j + 1] + 1, mark[j])
  BY PlacedFacts
<1>0. /\ Oldest \in Nat /\ Len(list) \in Nat /\ i \in Nat /\ i \in 0..Oldest /\ i + 1 \in 0..Oldest
      /\ i \in 0..Oldest + 1 /\ i + 1 \in 0..Oldest + 1 /\ i + 2 \in 0..Oldest + 1 /\ i + 1 # 0
  BY <1>1
<1>2. /\ m \in [0..Oldest + 1 -> 0..Len(list)] /\ m[i + 1] = mark[i]
      /\ \A j \in 0..Oldest + 1 : j # i + 1 => m[j] = mark[j]
  <2>1. mark[i] \in 0..Len(list)
    BY <1>0, <1>1
  <2>2. QED
    BY <2>1, <1>0, <1>1
<1>3. /\ moved[i] = <<>> /\ moved[i + 1] = held[i]
      /\ \A j \in 0..Oldest : j # i /\ j # i + 1 => moved[j] = held[j]
  BY <1>0, <1>1
<1> HIDE DEF m, moved
<1>4. mark[i + 2] = mark[i + 1]
  <2>1. held[i + 1] = SubSeq(list, mark[i + 2] + 1, mark[i + 1]) /\ mark[i + 2] <= mark[i + 1]
    <3>1. (i + 1) + 1 = i + 2
      OBVIOUS
    <3>2. QED
      BY <1>0, <1>1, <3>1
  <2>2. mark[i + 2] \in 0..Len(list) /\ mark[i + 1] \in 0..Len(list)
    BY <1>0, <1>1
  <2>3. CASE mark[i + 2] + 1 <= mark[i + 1]
    <3>1. Len(SubSeq(list, mark[i + 2] + 1, mark[i + 1])) = mark[i + 1] - mark[i + 2]
      <4>1. \A k \in mark[i + 2] + 1..mark[i + 1] : list[k] \in RecordType
        BY <1>0, <2>2
      <4>2. mark[i + 2] + 1 \in Int /\ mark[i + 1] \in Int
        BY <2>2
      <4>3. Len(SubSeq(list, mark[i + 2] + 1, mark[i + 1]))
              = mark[i + 1] - (mark[i + 2] + 1) + 1
        BY <4>1, <4>2, <2>3, SubSeqProperties
      <4>4. QED
        BY <4>3, <2>2
    <3>2. QED
      BY <2>1, <2>2, <2>3, <3>1
  <2>4. QED
    BY <2>1, <2>2, <2>3
<1>5. Placed(moved, list, m)
  <2>1. m[0] = Len(list)
    <3>1. 0 \in 0..Oldest + 1 /\ 0 # i + 1
      BY <1>0
    <3>2. QED
      BY <3>1, <1>1, <1>2
  <2>2. ASSUME NEW j \in 0..Oldest
        PROVE  m[j + 1] <= m[j] /\ moved[j] = SubSeq(list, m[j + 1] + 1, m[j])
    <3>1. CASE j = i
      <4>1. m[j] = mark[i] /\ m[j + 1] = mark[i] /\ mark[i] \in Nat
        BY <3>1, <1>1, <1>2
      <4>2. SubSeq(list, mark[i] + 1, mark[i]) = <<>>
        BY <4>1, SubSeqEmpty
      <4>3. QED
        BY <3>1, <4>1, <4>2, <1>3
    <3>2. CASE j = i + 1
      <4>1. j + 1 = i + 2 /\ j + 1 # i + 1
        BY <3>2
      <4>2. m[j] = mark[i] /\ m[j + 1] = mark[i + 1]
        BY <3>2, <4>1, <1>1, <1>2, <1>4
      <4>3. mark[i + 1] <= mark[i] /\ moved[j] = SubSeq(list, mark[i + 1] + 1, mark[i])
        BY <3>2, <1>0, <1>1, <1>3
      <4>4. QED
        BY <4>2, <4>3
    <3>3. CASE j # i /\ j # i + 1
      <4>1. j + 1 \in 0..Oldest + 1 /\ j \in 0..Oldest + 1 /\ j + 1 # i + 1
        BY <3>3, <1>1
      <4>2. m[j + 1] = mark[j + 1] /\ m[j] = mark[j]
        BY <3>3, <4>1, <1>2
      <4>3. QED
        BY <3>3, <4>2, <1>1, <1>3
    <3>4. QED
      BY <3>1, <3>2, <3>3
  <2>3. QED
    BY <2>1, <2>2, <1>1, <1>2 DEF Placed
<1>6. ASSUME NEW p \in 0..Oldest + 1, NEW n \in 1..m[p]
      PROVE  count - list[n].born >= p + (IF p <= i THEN 1 ELSE 0)
  <2>1. m[p] \in 0..Len(list) /\ n \in 1..Len(list)
    <3>1. m[p] \in 0..Len(list)
      BY <1>2
    <3>2. QED
      BY <3>1, <1>0
  <2>2. list[n].born \in Nat
    BY <2>1, BornIsInt
  <2>3. CASE p = i + 1
    <3>1. n \in 1..mark[i] /\ i \in 0..Oldest + 1
      BY <2>3, <1>1, <1>2
    <3>2. count - list[n].born >= i + (IF i <= i + 1 THEN 1 ELSE 0)
      BY <3>1 DEF Aged
    <3>3. QED
      BY <2>3, <3>2, <2>2, <1>1
  <2>4. CASE p # i + 1
    <3>1. n \in 1..mark[p]
      BY <2>4, <1>2
    <3>2. count - list[n].born >= p + (IF p <= i + 1 THEN 1 ELSE 0)
      BY <3>1 DEF Aged
    <3>3. p \in Int /\ i \in Int
      BY <1>1
    <3>4. QED
      BY <3>2, <3>3, <2>2
  <2>5. QED
    BY <2>3, <2>4
<1>7. Aged(list, m, count, i)
  BY <1>6 DEF Aged
<1>8. QED
  BY <1>5, <1>7 DEF moved

\* The newest file grows with what is written.
LEMMA AppendRecord ==
  ASSUME NEW list \in Seq(RecordType), NEW held \in [Indices -> Seq(RecordType)], NEW mark,
         NEW count \in Nat, NEW record \in RecordType, record.born = count,
         Placed(held, list, mark), Aged(list, mark, count, -1)
  PROVE  \E m : /\ Placed([held EXCEPT ![0] = Append(held[0], record)], Append(list, record), m)
                /\ Aged(Append(list, record), m, count, -1)
<1> DEFINE N == Len(list)
           longer == Append(list, record)
           m == [mark EXCEPT ![0] = N + 1]
           grown == [held EXCEPT ![0] = Append(held[0], record)]
<1>1. /\ Oldest \in Nat /\ Indices = 0..Oldest /\ mark \in [0..Oldest + 1 -> 0..N]
      /\ mark[0] = N /\ N \in Nat
      /\ \A j \in 0..Oldest :
           mark[j + 1] <= mark[j] /\ held[j] = SubSeq(list, mark[j + 1] + 1, mark[j])
  BY PlacedFacts
<1>0. Oldest \in Nat /\ N \in Nat /\ 0 \in 0..Oldest /\ 0 \in 0..Oldest + 1
  BY <1>1
<1>2. /\ m \in [0..Oldest + 1 -> 0..N + 1] /\ m[0] = N + 1
      /\ \A j \in 1..Oldest + 1 : m[j] = mark[j]
  <2>1. \A j \in 0..Oldest + 1 : mark[j] \in 0..N + 1
    <3>1. \A x \in 0..N : x \in 0..N + 1
      BY <1>0
    <3>2. QED
      BY <3>1, <1>1
  <2>2. N + 1 \in 0..N + 1 /\ \A j \in 1..Oldest + 1 : j \in 0..Oldest + 1 /\ j # 0
    BY <1>0
  <2>3. QED
    BY <2>1, <2>2, <1>0, <1>1
<1>3. grown[0] = Append(held[0], record) /\ \A j \in 1..Oldest : grown[j] = held[j]
  BY <1>1
<1>4. /\ longer \in Seq(RecordType) /\ Len(longer) = N + 1 /\ longer[N + 1] = record
      /\ \A k \in 1..N : longer[k] = list[k] /\ list[k] \in RecordType
  OBVIOUS
<1> HIDE DEF m, grown, longer, N
<1>5. ASSUME NEW a \in 1..N + 1, NEW b \in 0..N
      PROVE  SubSeq(longer, a, b) = SubSeq(list, a, b)
  <2>1. ASSUME NEW k \in a..b PROVE longer[k] = list[k] /\ list[k] \in RecordType
    <3>1. k \in 1..N
      BY <1>0
    <3>2. QED
      BY <3>1, <1>4
  <2>2. /\ SubSeq(list, a, b) \in Seq(RecordType)
        /\ Len(SubSeq(list, a, b)) = IF a <= b THEN b - a + 1 ELSE 0
        /\ \A k \in 1..b - a + 1 : SubSeq(list, a, b)[k] = list[a + k - 1]
    <3>1. a \in Int /\ b \in Int
      BY <1>0
    <3>2. QED
      BY <2>1, <3>1, SubSeqProperties
  <2>3. /\ SubSeq(longer, a, b) \in Seq(RecordType)
        /\ Len(SubSeq(longer, a, b)) = IF a <= b THEN b - a + 1 ELSE 0
        /\ \A k \in 1..b - a + 1 : SubSeq(longer, a, b)[k] = longer[a + k - 1]
    <3>1. a \in Int /\ b \in Int
      BY <1>0
    <3>2. \A i \in a..b : longer[i] \in RecordType
      BY <2>1
    <3>3. QED
      BY ONLY <3>1, <3>2, SubSeqProperties
  <2>4. ASSUME NEW k \in 1..Len(SubSeq(list, a, b))
        PROVE  SubSeq(longer, a, b)[k] = SubSeq(list, a, b)[k]
    <3>1. k \in 1..b - a + 1 /\ a + k - 1 \in a..b
      BY <2>2, <1>0
    <3>2. QED
      BY <3>1, <2>1, <2>2, <2>3
  <2>5. QED
    BY <2>2, <2>3, <2>4, SeqEqual
<1>6. Placed(grown, longer, m)
  <2>1. ASSUME NEW j \in 0..Oldest
        PROVE  m[j + 1] <= m[j] /\ grown[j] = SubSeq(longer, m[j + 1] + 1, m[j])
    <3>1. j + 1 \in 1..Oldest + 1 /\ m[j + 1] = mark[j + 1] /\ mark[j + 1] \in 0..N
          /\ mark[j + 1] + 1 \in 1..N + 1
      <4>1. j + 1 \in 1..Oldest + 1 /\ j + 1 \in 0..Oldest + 1
        BY <1>0
      <4>2. m[j + 1] = mark[j + 1] /\ mark[j + 1] \in 0..N
        BY <4>1, <1>1, <1>2
      <4>3. QED
        BY <4>1, <4>2, <1>0
    <3>2. CASE j = 0
      <4>1. held[0] = SubSeq(list, mark[1] + 1, N) /\ mark[1] \in 0..N
        <5>1. 0 \in 0..Oldest /\ 0 + 1 = 1
          BY <1>1
        <5>2. QED
          BY <5>1, <3>1, <3>2, <1>1
      <4>2. SubSeq(longer, mark[1] + 1, N + 1) = SubSeq(longer, mark[1] + 1, N) \o <<record>>
        <5>1. mark[1] + 1 \in 1..Len(longer) /\ N + 1 \in mark[1] + 1..Len(longer)
              /\ (N + 1) - 1 = N
          BY <4>1, <1>0, <1>4
        <5>2. QED
          BY <5>1, <1>4, SubSeqRecursiveSecond
      <4>3. SubSeq(longer, mark[1] + 1, N) = held[0]
        <5>1. mark[1] + 1 \in 1..N + 1 /\ N \in 0..N
          BY <4>1, <1>0
        <5>2. QED
          BY <4>1, <5>1, <1>5
      <4>4. grown[0] = held[0] \o <<record>>
        <5>1. held[0] \in Seq(RecordType)
          BY <1>1
        <5>2. QED
          BY <5>1, <1>3, AppendIsConcat
      <4>5. m[0 + 1] = mark[1]
        BY <3>1, <3>2
      <4>6. m[0 + 1] <= m[0]
        BY <4>1, <4>5, <1>1, <1>2
      <4>7. QED
        BY <3>2, <4>2, <4>3, <4>4, <4>5, <4>6, <1>2
    <3>3. CASE j # 0
      <4>1. j \in 1..Oldest /\ j \in 1..Oldest + 1 /\ j \in 0..Oldest + 1
        BY <3>3, <1>0
      <4>2. m[j] = mark[j] /\ mark[j] \in 0..N /\ grown[j] = held[j]
        BY <4>1, <1>1, <1>2, <1>3
      <4>3. SubSeq(longer, mark[j + 1] + 1, mark[j]) = SubSeq(list, mark[j + 1] + 1, mark[j])
        BY <3>1, <4>2, <1>5
      <4>4. QED
        BY <3>1, <4>2, <4>3, <1>1
    <3>4. QED
      BY <3>2, <3>3
  <2>2. QED
    BY <2>1, <1>1, <1>2, <1>4 DEF Placed
<1>7. ASSUME NEW p \in 0..Oldest + 1, NEW n \in 1..m[p]
      PROVE  count - longer[n].born >= p + (IF p <= -1 THEN 1 ELSE 0)
  <2>1. p \in Int /\ ~(p <= -1)
    BY <1>1
  <2>2. ASSUME NEW q \in 0..Oldest + 1, n \in 1..mark[q]
        PROVE  longer[n].born \in Nat /\ count - longer[n].born >= q
    <3>1. mark[q] \in 0..N
      BY <1>1
    <3>2. n \in 1..N /\ longer[n] = list[n]
      <4>1. n \in 1..N
        BY <3>1, <2>2, <1>0
      <4>2. QED
        BY <4>1, <1>4
    <3>3. list[n].born \in Nat
      BY <3>2, BornIsInt DEF N
    <3>4. count - list[n].born >= q + (IF q <= -1 THEN 1 ELSE 0)
      BY <2>2 DEF Aged
    <3>5. q \in Int /\ ~(q <= -1)
      BY <1>0
    <3>6. QED
      BY <3>2, <3>3, <3>4, <3>5
  <2>3. CASE p = 0 /\ n = N + 1
    <3>1. count - longer[n].born = 0
      BY <2>3, <1>4
    <3>2. QED
      BY <2>3, <3>1
  <2>4. CASE p = 0 /\ n # N + 1
    <3>1. n \in 1..mark[0] /\ 0 \in 0..Oldest + 1
      BY <2>4, <1>1, <1>2
    <3>2. QED
      BY <2>4, <3>1, <2>2
  <2>5. CASE p # 0
    <3>1. p \in 1..Oldest + 1
      BY <2>5, <1>1
    <3>2. n \in 1..mark[p]
      BY <3>1, <1>2
    <3>3. QED
      BY <3>2, <2>1, <2>2
  <2>6. QED
    BY <2>3, <2>4, <2>5
<1>8. Aged(longer, m, count, -1)
  BY <1>7 DEF Aged
<1>9. QED
  BY <1>6, <1>8 DEF grown, longer, N

\* What the files hold, from the oldest to this one.
JoinedOf(all, held) == all = [i \in Indices |-> IF i = 0 THEN held[0] ELSE held[i] \o all[i - 1]]

LEMMA FilesJoined ==
  ASSUME NEW list \in Seq(RecordType), NEW held, NEW mark, Placed(held, list, mark),
         NEW all, JoinedOf(all, held)
  PROVE  all[Oldest] = SubSeq(list, mark[Oldest + 1] + 1, Len(list))
<1> DEFINE bad == {i \in 0..Oldest : all[i] # SubSeq(list, mark[i + 1] + 1, Len(list))}
<1>1. /\ Oldest \in Nat /\ Indices = 0..Oldest /\ mark \in [0..Oldest + 1 -> 0..Len(list)]
      /\ mark[0] = Len(list) /\ Len(list) \in Nat
      /\ \A j \in 0..Oldest :
           mark[j + 1] <= mark[j] /\ held[j] = SubSeq(list, mark[j + 1] + 1, mark[j])
  BY PlacedFacts
<1>2. Oldest \in Nat /\ Len(list) \in Nat /\ 0 \in 0..Oldest
  BY <1>1
<1>3. all[0] = held[0] /\ \A i \in 1..Oldest : all[i] = held[i] \o all[i - 1]
  <2>1. \A i \in 1..Oldest : i \in 0..Oldest /\ i # 0
    BY <1>2
  <2>2. all = [i \in 0..Oldest |-> IF i = 0 THEN held[0] ELSE held[i] \o all[i - 1]]
    BY <1>1 DEF JoinedOf
  <2>3. QED
    BY <2>1, <2>2, <1>2
<1>4. bad = {}
  <2>1. SUFFICES ASSUME bad # {} PROVE FALSE
    OBVIOUS
  <2>2. PICK i \in bad : \A j \in bad : i <= j
    <3>1. bad \in SUBSET Nat
      BY <1>2
    <3>2. QED
      BY <2>1, <3>1, LeastNumber
  <2>3. i # 0
    <3>1. held[0] = SubSeq(list, mark[0 + 1] + 1, mark[0])
      BY <1>1, <1>2
    <3>2. all[0] = SubSeq(list, mark[0 + 1] + 1, Len(list))
      BY <3>1, <1>1, <1>3
    <3>3. QED
      BY <3>2
  <2>4. i \in 1..Oldest /\ i \in 0..Oldest /\ i - 1 \in 0..Oldest /\ i - 1 < i /\ (i - 1) + 1 = i
        /\ i + 1 \in 0..Oldest + 1 /\ i \in 0..Oldest + 1
    BY <2>3, <1>2
  <2>5. all[i - 1] = SubSeq(list, mark[i] + 1, Len(list))
    <3>1. i - 1 \notin bad
      BY <2>2, <2>4
    <3>2. all[i - 1] = SubSeq(list, mark[(i - 1) + 1] + 1, Len(list))
      BY <3>1, <2>4
    <3>3. QED
      BY <3>2, <2>4
  <2>6. held[i] = SubSeq(list, mark[i + 1] + 1, mark[i]) /\ mark[i + 1] <= mark[i]
    BY <2>4, <1>1
  <2>7. mark[i] \in 0..Len(list) /\ mark[i + 1] \in 0..Len(list)
    BY <2>4, <1>1
  <2>8. SubSeq(list, mark[i + 1] + 1, mark[i]) \o SubSeq(list, mark[i] + 1, Len(list))
          = SubSeq(list, mark[i + 1] + 1, Len(list))
    <3>1. /\ mark[i + 1] + 1 \in 1..Len(list) + 1
          /\ mark[i] \in (mark[i + 1] + 1) - 1..Len(list) /\ Len(list) \in mark[i]..Len(list)
      BY <2>6, <2>7, <1>2
    <3>2. QED
      BY <3>1, ConcatAdjacentSubSeq
  <2>9. QED
    BY <2>2, <2>4, <2>5, <2>6, <2>8, <1>3
<1>5. QED
  <2>1. Oldest \in 0..Oldest
    BY <1>2
  <2>2. QED
    BY <2>1, <1>4

LEMMA FilesJoin ==
  ASSUME NEW list \in Seq(RecordType), NEW held, NEW mark, Placed(held, list, mark)
  PROVE  \E all : JoinedOf(all, held)
<1> DEFINE all == [i \in 0..Oldest |-> SubSeq(list, mark[i + 1] + 1, Len(list))]
<1>1. /\ Oldest \in Nat /\ Indices = 0..Oldest /\ mark \in [0..Oldest + 1 -> 0..Len(list)]
      /\ mark[0] = Len(list) /\ Len(list) \in Nat
      /\ \A j \in 0..Oldest :
           mark[j + 1] <= mark[j] /\ held[j] = SubSeq(list, mark[j + 1] + 1, mark[j])
  BY PlacedFacts
<1>2. Oldest \in Nat /\ Len(list) \in Nat /\ 0 \in 0..Oldest
  BY <1>1
<1>3. ASSUME NEW i \in 0..Oldest
      PROVE  all[i] = IF i = 0 THEN held[0] ELSE held[i] \o all[i - 1]
  <2>1. all[i] = SubSeq(list, mark[i + 1] + 1, Len(list))
    OBVIOUS
  <2>2. held[i] = SubSeq(list, mark[i + 1] + 1, mark[i]) /\ mark[i + 1] <= mark[i]
    BY <1>1
  <2>3. CASE i = 0
    BY <2>1, <2>2, <2>3, <1>1
  <2>4. CASE i # 0
    <3>1. i - 1 \in 0..Oldest /\ (i - 1) + 1 = i /\ i \in 0..Oldest + 1 /\ i + 1 \in 0..Oldest + 1
      BY <2>4, <1>2
    <3>2. all[i - 1] = SubSeq(list, mark[i] + 1, Len(list))
      <4>1. all[i - 1] = SubSeq(list, mark[(i - 1) + 1] + 1, Len(list))
        BY <3>1
      <4>2. QED
        BY <3>1, <4>1
    <3>3. mark[i] \in 0..Len(list) /\ mark[i + 1] \in 0..Len(list)
      BY <3>1, <1>1
    <3>4. SubSeq(list, mark[i + 1] + 1, mark[i]) \o SubSeq(list, mark[i] + 1, Len(list))
            = SubSeq(list, mark[i + 1] + 1, Len(list))
      <4>1. /\ mark[i + 1] + 1 \in 1..Len(list) + 1
            /\ mark[i] \in (mark[i + 1] + 1) - 1..Len(list) /\ Len(list) \in mark[i]..Len(list)
        BY <2>2, <3>3, <1>2
      <4>2. QED
        BY <4>1, ConcatAdjacentSubSeq
    <3>5. QED
      BY <2>1, <2>2, <2>4, <3>2, <3>4
  <2>5. QED
    BY <2>3, <2>4
<1>4. all = [i \in Indices |-> IF i = 0 THEN held[0] ELSE held[i] \o all[i - 1]]
  BY <1>1, <1>3
<1>5. QED
  BY <1>4 DEF JoinedOf

LEMMA RecordedIs ==
  ASSUME NEW c \in Categories, NEW mark, written[c] \in Seq(RecordType),
         Placed(files[c], written[c], mark)
  PROVE  Recorded(c) = SubSeq(written[c], mark[Oldest + 1] + 1, Len(written[c]))
<1> DEFINE all == CHOOSE g : JoinedOf(g, files[c])
<1>1. Recorded(c) = all[Oldest]
  BY DEF Recorded, JoinedOf
<1>2. JoinedOf(all, files[c])
  BY FilesJoin
<1> HIDE DEF all
<1>3. QED
  BY <1>1, <1>2, FilesJoined

-----------------------------------------------------------------------------
(* The steps of the log.                                                   *)

LEMMA LogInitially == ASSUME LogInit PROVE LogInv
<1>1. /\ files = [c \in Categories |-> [i \in Indices |-> <<>>]] /\ emitting = Quiet
      /\ written = [c \in Categories |-> <<>>] /\ rotations = [c \in Categories |-> 0]
  BY DEF LogInit
<1>2. <<>> \in Seq(RecordType) /\ Len(<<>>) = 0 /\ NoRecord \in RecordType
  BY DEF NoRecord, Record, RecordType
<1>3. LogTypeOK
  <2>1. emitting \in EmittingType
    BY <1>1, <1>2 DEF Quiet, EmittingType, Categories
  <2>2. QED
    BY <1>1, <1>2, <2>1 DEF LogTypeOK
<1>4. PlacesInv
  <2> DEFINE mark == [p \in 0..Oldest + 1 |-> 0]
  <2>1. ASSUME NEW c \in Categories
        PROVE  Placed(files[c], written[c], mark) /\ Aged(written[c], mark, rotations[c], Ahead(c))
    <3>1. /\ written[c] = <<>> /\ Oldest \in Nat /\ Indices = 0..Oldest
          /\ \A i \in 0..Oldest : files[c][i] = <<>>
      BY <1>1, OldestIsLast
    <3>2. /\ mark \in [0..Oldest + 1 -> 0..0]
          /\ \A p \in 0..Oldest + 1 : mark[p] = 0
      OBVIOUS
    <3> HIDE DEF mark
    <3>3. SubSeq(<<>>, 0 + 1, 0) = <<>>
      BY SubSeqEmpty
    <3>5. 0 \in 0..Oldest + 1 /\ \A i \in 0..Oldest : i \in 0..Oldest + 1 /\ i + 1 \in 0..Oldest + 1
      BY <3>1
    <3>6. Placed(files[c], written[c], mark)
      <4>1. \A i \in 0..Oldest : mark[i] = 0 /\ mark[i + 1] = 0
        BY <3>2, <3>5
      <4>2. \A i \in 0..Oldest :
              mark[i + 1] <= mark[i]
              /\ files[c][i] = SubSeq(written[c], mark[i + 1] + 1, mark[i])
        <5>1. SubSeq(<<>>, 0 + 1, 0) = <<>> /\ 0 <= 0
          BY <3>3
        <5>2. QED
          BY ONLY <4>1, <5>1, <3>1
      <4>3. QED
        BY <4>2, <3>1, <3>2, <3>5, <1>2 DEF Placed
    <3>7. \A p \in 0..Oldest + 1 : 1..mark[p] = {}
      BY <3>2
    <3>8. QED
      BY <3>6, <3>7 DEF Aged
  <2>2. QED
    BY <2>1 DEF PlacesInv
<1>5. EmittingInv
  BY <1>1 DEF EmittingInv, Quiet
<1>6. SizesInv
  <2>1. \A c \in Categories, i \in Indices : files[c][i] = <<>>
    BY <1>1
  <2>2. MaxSize > 0 => 0 <= MaxSize
    BY LogAssumption
  <2>3. QED
    BY <2>1, <2>2, SizeOfEmpty DEF SizesInv
<1>7. QED
  BY <1>3, <1>4, <1>5, <1>6 DEF LogInv

LEMMA CategoryIsOne == ASSUME NEW event, NEW raw PROVE Category(event, raw) \in Categories
BY DEF Category, Categories

\* A category that a step leaves alone.
LEMMA OthersStay ==
  ASSUME LogInv, NEW d \in Categories, LogTypeOK',
         files'[d] = files[d], written'[d] = written[d], rotations'[d] = rotations[d],
         Ahead(d)' \in {Ahead(d), -1}
  PROVE  /\ \E mark : /\ Placed(files'[d], written'[d], mark)
                      /\ Aged(written'[d], mark, rotations'[d], Ahead(d)')
         /\ MaxSize > 0 =>
              \A i \in Indices : Size(files'[d][i]) <= MaxSize \/ Len(files'[d][i]) = 1
<1>1. PICK mark : /\ Placed(files[d], written[d], mark)
                  /\ Aged(written[d], mark, rotations[d], Ahead(d))
  BY DEF LogInv, PlacesInv
<1>2. /\ written[d] \in Seq(RecordType) /\ rotations[d] \in Nat /\ Ahead(d) \in Int
  BY DEF LogInv, LogTypeOK, Ahead, EmittingType
<1>3. Aged(written[d], mark, rotations[d], -1)
  BY <1>1, <1>2, NoneAhead
<1>4. MaxSize > 0 => \A i \in Indices : Size(files[d][i]) <= MaxSize \/ Len(files[d][i]) = 1
  BY DEF LogInv, SizesInv
<1>5. QED
  BY <1>1, <1>3, <1>4

LEMMA EmitKeeps ==
  ASSUME LogInv, NEW size \in 1..2, NEW event, NEW raw, Emit(size, event, raw)
  PROVE  LogInv'
<1> DEFINE c == Category(event, raw)
           rotate == TooLarge(c, size)
           born == rotations[c] + (IF rotate THEN 1 ELSE 0)
           shift == rotate /\ BackupCount > 0
<1>1. c \in Categories
  BY CategoryIsOne
<1> HIDE DEF c
<1>2. /\ emitting = Quiet
      /\ emitting' = [record |-> Record(Len(written[c]) + 1, size, born), category |-> c,
                      next |-> IF shift THEN "shift" ELSE "append", index |-> BackupCount - 1]
      /\ files' = IF rotate THEN [files EXCEPT ![c][Oldest] = <<>>] ELSE files
      /\ rotations' = [rotations EXCEPT ![c] = born] /\ written' = written
  BY DEF Emit, c
<1>3. /\ files \in [Categories -> [Indices -> Seq(RecordType)]]
      /\ written \in [Categories -> Seq(RecordType)] /\ rotations \in [Categories -> Nat]
  BY DEF LogInv, LogTypeOK
<1>4. Oldest \in Nat /\ BackupCount \in Int /\ Indices = 0..Oldest /\ Oldest \in Indices /\ 0 \in Indices
      /\ (BackupCount > 0 => Oldest = BackupCount) /\ (~(BackupCount > 0) => Oldest = 0)
  BY OldestIsLast, LogAssumption
<1>5. /\ born \in Nat /\ files[c] \in [Indices -> Seq(RecordType)] /\ written[c] \in Seq(RecordType)
      /\ rotations[c] \in Nat /\ (rotate => born = rotations[c] + 1) /\ (~rotate => born = rotations[c])
  BY <1>1, <1>3
<1>6. rotate <=> MaxSize > 0 /\ Size(files[c][0]) + size > MaxSize
  BY DEF TooLarge
<1> DEFINE emptied == [files[c] EXCEPT ![Oldest] = <<>>]
<1>7. /\ files'[c] = IF rotate THEN emptied ELSE files[c]
      /\ rotations'[c] = born /\ written'[c] = written[c]
      /\ \A d \in Categories \ {c} : files'[d] = files[d] /\ rotations'[d] = rotations[d]
  BY <1>1, <1>2, <1>3, <1>4
<1>8. emptied \in [Indices -> Seq(RecordType)] /\ emptied[Oldest] = <<>>
      /\ \A i \in Indices : i # Oldest => emptied[i] = files[c][i]
  <2>1. <<>> \in Seq(RecordType)
    OBVIOUS
  <2>2. QED
    BY <2>1, <1>4, <1>5
<1> HIDE DEF rotate, born
<1>9. LogTypeOK'
  <2>1. files' \in [Categories -> [Indices -> Seq(RecordType)]]
    BY <1>1, <1>2, <1>3, <1>4, <1>8
  <2>2. Record(Len(written[c]) + 1, size, born) \in RecordType
    <3>1. Len(written[c]) + 1 \in Nat
      BY <1>5
    <3>2. QED
      BY <3>1, <1>5 DEF Record, RecordType
  <2>3. emitting' \in EmittingType
    BY <2>2, <1>1, <1>2, <1>4 DEF EmittingType
  <2>4. rotations' \in [Categories -> Nat]
    BY <1>2, <1>3, <1>5
  <2>5. QED
    BY <2>1, <2>3, <2>4, <1>2, <1>3 DEF LogTypeOK
<1>10. /\ Ahead(c)' = (IF shift THEN Oldest ELSE -1)
       /\ \A d \in Categories : Ahead(d) = -1
       /\ \A d \in Categories \ {c} : Ahead(d)' = -1
  <2>1. \A d \in Categories : Ahead(d) = -1
    BY <1>2 DEF Ahead, Quiet
  <2>2. /\ emitting'.category = c /\ emitting'.next = (IF shift THEN "shift" ELSE "append")
        /\ emitting'.index = BackupCount - 1
    BY <1>2
  <2> HIDE DEF shift
  <2>3. \A d \in Categories \ {c} : Ahead(d)' = -1
    BY <2>2 DEF Ahead
  <2>4. CASE shift
    <3>1. Ahead(c)' = (BackupCount - 1) + 1
      BY <2>2, <2>4 DEF Ahead
    <3>2. BackupCount = Oldest
      BY <2>4, <1>4 DEF shift
    <3>3. QED
      BY <2>1, <2>3, <2>4, <3>1, <3>2, <1>4
  <2>5. CASE ~shift
    BY <2>1, <2>2, <2>3, <2>5 DEF Ahead
  <2>6. QED
    BY <2>4, <2>5
<1>11. \E mark : /\ Placed(files'[c], written'[c], mark)
                 /\ Aged(written'[c], mark, rotations'[c], Ahead(c)')
  <2>1. PICK mark : /\ Placed(files[c], written[c], mark)
                    /\ Aged(written[c], mark, rotations[c], Ahead(c))
    BY <1>1 DEF LogInv, PlacesInv
  <2>2. Aged(written[c], mark, rotations[c], -1)
    BY <2>1, <1>1, <1>10
  <2>3. CASE rotate
    <3>1. PICK m : /\ Placed(emptied, written[c], m)
                   /\ Aged(written[c], m, rotations[c] + 1, Oldest)
      <4>1. -1 \in Int
        OBVIOUS
      <4>2. QED
        BY <4>1, <2>1, <2>2, <1>5, DropOldest
    <3> HIDE DEF emptied
    <3>2. Aged(written[c], m, rotations[c] + 1, -1)
      <4>1. rotations[c] + 1 \in Nat /\ Oldest \in Int
        BY <1>4, <1>5
      <4>2. QED
        BY <3>1, <4>1, <1>5, NoneAhead
    <3>3. Placed(files'[c], written'[c], m)
      BY <2>3, <3>1, <1>7
    <3>4. Aged(written'[c], m, rotations'[c], Ahead(c)')
      BY <2>3, <3>1, <3>2, <1>5, <1>7, <1>10
    <3>5. QED
      BY <3>3, <3>4
  <2>4. CASE ~rotate
    <3>1. Placed(files'[c], written'[c], mark) /\ rotations'[c] = rotations[c]
      BY <2>1, <2>4, <1>5, <1>7
    <3>2. Ahead(c)' = -1
      BY <2>4, <1>10
    <3>3. QED
      BY <3>1, <3>2, <2>2, <1>7
  <2>5. QED
    BY <2>3, <2>4
<1>12. MaxSize > 0 =>
         \A i \in Indices : Size(files'[c][i]) <= MaxSize \/ Len(files'[c][i]) = 1
  <2>1. ASSUME MaxSize > 0, NEW i \in Indices
        PROVE  Size(files'[c][i]) <= MaxSize \/ Len(files'[c][i]) = 1
    <3>1. Size(files[c][i]) <= MaxSize \/ Len(files[c][i]) = 1
      BY <2>1, <1>1 DEF LogInv, SizesInv
    <3>2. CASE rotate /\ i = Oldest
      <4>1. files'[c][i] = <<>>
        BY <3>2, <1>7, <1>8
      <4>2. QED
        BY <4>1, <2>1, SizeOfEmpty, LogAssumption
    <3>3. CASE ~(rotate /\ i = Oldest)
      <4>1. files'[c][i] = files[c][i]
        BY <3>3, <1>7, <1>8
      <4>2. QED
        BY <4>1, <3>1
    <3>4. QED
      BY <3>2, <3>3
  <2>2. QED
    BY <2>1
<1>13. ASSUME NEW d \in Categories
       PROVE  /\ \E mark : /\ Placed(files'[d], written'[d], mark)
                           /\ Aged(written'[d], mark, rotations'[d], Ahead(d)')
              /\ MaxSize > 0 =>
                   \A i \in Indices : Size(files'[d][i]) <= MaxSize \/ Len(files'[d][i]) = 1
  <2>1. CASE d = c
    BY <2>1, <1>11, <1>12
  <2>2. CASE d # c
    <3>1. files'[d] = files[d] /\ rotations'[d] = rotations[d] /\ written'[d] = written[d]
          /\ Ahead(d)' = -1
      BY <2>2, <1>2, <1>7, <1>10
    <3>2. QED
      BY <3>1, <1>9, OthersStay
  <2>3. QED
    BY <2>1, <2>2
<1>14. PlacesInv' /\ SizesInv'
  BY <1>13 DEF PlacesInv, SizesInv
<1>15. EmittingInv'
  <2>1. /\ emitting'.category = c /\ emitting'.record.born = born /\ emitting'.record.size = size
        /\ emitting'.next = (IF shift THEN "shift" ELSE "append") /\ emitting'.index = BackupCount - 1
    BY <1>2 DEF Record
  <2>2. emitting'.record.born = rotations'[emitting'.category]
    BY <2>1, <1>7
  <2>3. ASSUME emitting'.next = "shift"
        PROVE  /\ emitting'.index \in 0..Oldest - 1
               /\ files'[emitting'.category][emitting'.index + 1] = <<>>
    <3>1. rotate /\ BackupCount > 0
      BY <2>1, <2>3
    <3>2. emitting'.index + 1 = Oldest /\ emitting'.index \in 0..Oldest - 1
      BY <2>1, <3>1, <1>4
    <3>3. QED
      BY <2>1, <3>1, <3>2, <1>7, <1>8
  <2>4. ASSUME emitting'.next = "append", MaxSize > 0
        PROVE  \/ files'[emitting'.category][0] = <<>>
               \/ Size(files'[emitting'.category][0]) + emitting'.record.size <= MaxSize
    <3>1. CASE rotate
      <4>1. ~(BackupCount > 0)
        BY <2>1, <2>4, <3>1
      <4>2. Oldest = 0
        BY <4>1, <1>4
      <4>3. QED
        BY <2>1, <3>1, <4>2, <1>7, <1>8
    <3>2. CASE ~rotate
      <4>1. ~(Size(files[c][0]) + size > MaxSize)
        BY <2>4, <3>2, <1>6
      <4>2. Size(files[c][0]) \in Nat
        <5>1. files[c][0] \in Seq(RecordType)
          BY <1>4, <1>5
        <5>2. QED
          BY <5>1, SizeIsNat
      <4>3. Size(files[c][0]) + size <= MaxSize
        BY <4>1, <4>2, LogAssumption
      <4>4. QED
        BY <2>1, <3>2, <4>3, <1>7
    <3>3. QED
      BY <3>1, <3>2
  <2>5. QED
    BY <2>2, <2>3, <2>4 DEF EmittingInv
<1>16. QED
  BY <1>9, <1>14, <1>15 DEF LogInv

LEMMA ShiftKeeps == ASSUME LogInv, Shift PROVE LogInv'
<1>0. emitting \in EmittingType
  BY DEF LogInv, LogTypeOK
<1>. PICK c \in Categories : c = emitting.category
  BY <1>0 DEF EmittingType
<1>. PICK i \in Int : i = emitting.index
  BY <1>0 DEF EmittingType
<1>1. /\ emitting \in EmittingType /\ emitting.next = "shift" /\ c \in Categories
      /\ i \in 0..Oldest - 1 /\ files[c][i + 1] = <<>> /\ i \in Nat
      /\ emitting.record.born = rotations[c]
  <2>1. emitting \in EmittingType /\ emitting.next = "shift"
    BY DEF LogInv, LogTypeOK, Shift
  <2>2. c \in Categories
    BY <2>1 DEF EmittingType
  <2>3. i \in 0..Oldest - 1 /\ files[c][i + 1] = <<>> /\ emitting.record.born = rotations[c]
    BY <2>1 DEF LogInv, EmittingInv
  <2>4. QED
    BY <2>1, <2>2, <2>3, OldestIsLast
<1>2. /\ files' = IF files[c][i] # <<>> THEN Moved(c, i) ELSE files
      /\ emitting' = IF i = 0 THEN [emitting EXCEPT !.next = "append"]
                     ELSE [emitting EXCEPT !.index = @ - 1]
      /\ written' = written /\ rotations' = rotations
  BY DEF Shift
<1>3. /\ files \in [Categories -> [Indices -> Seq(RecordType)]]
      /\ written \in [Categories -> Seq(RecordType)] /\ rotations \in [Categories -> Nat]
  BY DEF LogInv, LogTypeOK
<1>4. Oldest \in Nat /\ Indices = 0..Oldest /\ i \in Indices /\ i + 1 \in Indices /\ i + 1 # i
      /\ 0 \in Indices
  BY <1>1, OldestIsLast
<1>5. /\ emitting'.category = c /\ emitting'.record = emitting.record
      /\ emitting'.next = (IF i = 0 THEN "append" ELSE "shift")
      /\ i # 0 => emitting'.index = i - 1
  BY <1>1, <1>2 DEF EmittingType
<1>6. emitting' \in EmittingType
  BY <1>1, <1>2 DEF EmittingType
<1>7. files[c] \in [Indices -> Seq(RecordType)] /\ written[c] \in Seq(RecordType) /\ rotations[c] \in Nat
  BY <1>1, <1>3
<1> DEFINE moved == [files[c] EXCEPT ![i + 1] = files[c][i], ![i] = <<>>]
<1>8. /\ moved \in [Indices -> Seq(RecordType)] /\ moved[i] = <<>> /\ moved[i + 1] = files[c][i]
      /\ \A j \in Indices : j # i /\ j # i + 1 => moved[j] = files[c][j]
  <2>1. <<>> \in Seq(RecordType)
    OBVIOUS
  <2>2. QED
    BY <2>1, <1>4, <1>7
<1>9. files'[c] = moved /\ \A d \in Categories \ {c} : files'[d] = files[d]
  <2>1. CASE files[c][i] # <<>>
    <3>1. files' = [files EXCEPT ![c][i + 1] = files[c][i], ![c][i] = <<>>]
      BY <2>1, <1>2 DEF Moved
    <3>2. QED
      BY <3>1, <1>1, <1>3, <1>4, <1>7
  <2>2. CASE files[c][i] = <<>>
    <3>1. files' = files
      BY <2>2, <1>2
    <3>2. \A j \in Indices : moved[j] = files[c][j]
      BY <2>2, <1>1, <1>8
    <3> HIDE DEF moved
    <3>3. moved = files[c]
      BY <3>2, <1>7, <1>8
    <3>4. QED
      BY <3>1, <3>3
  <2>3. QED
    BY <2>1, <2>2
<1> HIDE DEF moved
<1>10. LogTypeOK'
  <2>1. files' \in [Categories -> [Indices -> Seq(RecordType)]]
    <3>1. CASE files[c][i] # <<>>
      <4>1. files' = [files EXCEPT ![c][i + 1] = files[c][i], ![c][i] = <<>>]
        BY <3>1, <1>2 DEF Moved
      <4>2. <<>> \in Seq(RecordType) /\ files[c][i] \in Seq(RecordType)
        BY <1>4, <1>7
      <4>3. QED
        BY <4>1, <4>2, <1>3, <1>1, <1>4
    <3>2. CASE files[c][i] = <<>>
      BY <3>2, <1>2, <1>3
    <3>3. QED
      BY <3>1, <3>2
  <2>2. QED
    BY <2>1, <1>2, <1>3, <1>6 DEF LogTypeOK
<1>11. /\ Ahead(c) = i + 1 /\ Ahead(c)' \in {i, -1}
       /\ \A d \in Categories \ {c} : Ahead(d) = -1 /\ Ahead(d)' = -1
  <2>1. Ahead(c) = i + 1
    BY <1>1 DEF Ahead
  <2>2. Ahead(c)' \in {i, -1}
    <3>1. CASE i = 0
      BY <3>1, <1>5 DEF Ahead
    <3>2. CASE i # 0
      <4>1. Ahead(c)' = (i - 1) + 1
        BY <3>2, <1>5 DEF Ahead
      <4>2. QED
        BY <4>1, <1>1
    <3>3. QED
      BY <3>1, <3>2
  <2>3. \A d \in Categories \ {c} : Ahead(d) = -1 /\ Ahead(d)' = -1
    BY <1>5 DEF Ahead
  <2>4. QED
    BY <2>1, <2>2, <2>3
<1>12. \E mark : /\ Placed(files'[c], written'[c], mark)
                 /\ Aged(written'[c], mark, rotations'[c], Ahead(c)')
  <2>1. PICK mark : /\ Placed(files[c], written[c], mark)
                    /\ Aged(written[c], mark, rotations[c], i + 1)
    BY <1>1, <1>11 DEF LogInv, PlacesInv
  <2>2. PICK m : Placed(moved, written[c], m) /\ Aged(written[c], m, rotations[c], i)
    <3>1. \E m : /\ Placed([files[c] EXCEPT ![i + 1] = files[c][i], ![i] = <<>>], written[c], m)
                 /\ Aged(written[c], m, rotations[c], i)
      BY <2>1, <1>1, <1>7, MoveFile
    <3>2. QED
      BY <3>1 DEF moved
  <2>3. Aged(written[c], m, rotations[c], -1)
    <3>1. i \in Int
      BY <1>1
    <3>2. QED
      BY <2>2, <3>1, <1>7, NoneAhead
  <2>4. QED
    BY <2>2, <2>3, <1>2, <1>9, <1>11
<1>13. MaxSize > 0 =>
         \A j \in Indices : Size(files'[c][j]) <= MaxSize \/ Len(files'[c][j]) = 1
  <2>1. ASSUME MaxSize > 0, NEW j \in Indices
        PROVE  Size(moved[j]) <= MaxSize \/ Len(moved[j]) = 1
    <3>1. \A k \in Indices : Size(files[c][k]) <= MaxSize \/ Len(files[c][k]) = 1
      BY <2>1, <1>1 DEF LogInv, SizesInv
    <3>2. Size(<<>>) <= MaxSize
      BY <2>1, SizeOfEmpty, LogAssumption
    <3>3. moved[j] = <<>> \/ \E k \in Indices : moved[j] = files[c][k]
      BY <1>4, <1>8
    <3>4. QED
      BY <3>1, <3>2, <3>3
  <2>2. QED
    BY <2>1, <1>9
<1>14. ASSUME NEW d \in Categories
       PROVE  /\ \E mark : /\ Placed(files'[d], written'[d], mark)
                           /\ Aged(written'[d], mark, rotations'[d], Ahead(d)')
              /\ MaxSize > 0 =>
                   \A j \in Indices : Size(files'[d][j]) <= MaxSize \/ Len(files'[d][j]) = 1
  <2>1. CASE d = c
    BY <2>1, <1>12, <1>13
  <2>2. CASE d # c
    <3>1. files'[d] = files[d] /\ rotations'[d] = rotations[d] /\ written'[d] = written[d]
          /\ Ahead(d)' = -1
      BY <2>2, <1>2, <1>9, <1>11
    <3>2. Ahead(d)' \in {Ahead(d), -1}
      BY <3>1
    <3>3. QED
      BY <3>1, <3>2, <1>10, OthersStay
  <2>3. QED
    BY <2>1, <2>2
<1>15. PlacesInv' /\ SizesInv'
  BY <1>14 DEF PlacesInv, SizesInv
<1>16. EmittingInv'
  <2>1. emitting'.record.born = rotations'[emitting'.category]
    BY <1>1, <1>2, <1>5
  <2>2. ASSUME emitting'.next = "shift"
        PROVE  /\ emitting'.index \in 0..Oldest - 1
               /\ files'[emitting'.category][emitting'.index + 1] = <<>>
    <3>1. i # 0 /\ emitting'.index = i - 1
      BY <2>2, <1>5
    <3>2. i - 1 \in 0..Oldest - 1 /\ (i - 1) + 1 = i
      BY <3>1, <1>1, <1>4
    <3>3. QED
      BY <3>1, <3>2, <1>5, <1>8, <1>9
  <2>3. ASSUME emitting'.next = "append" PROVE files'[emitting'.category][0] = <<>>
    <3>1. i = 0
      BY <2>3, <1>5
    <3>2. QED
      BY <3>1, <1>5, <1>8, <1>9
  <2>4. QED
    BY <2>1, <2>2, <2>3 DEF EmittingInv
<1>17. QED
  BY <1>10, <1>15, <1>16 DEF LogInv

LEMMA AppendKeeps == ASSUME LogInv, AppendBytes PROVE LogInv'
<1>0. emitting \in EmittingType
  BY DEF LogInv, LogTypeOK
<1>. PICK c \in Categories : c = emitting.category
  BY <1>0 DEF EmittingType
<1>. PICK record \in RecordType : record = emitting.record
  BY <1>0 DEF EmittingType
<1>1. /\ emitting.next = "append" /\ c \in Categories /\ record \in RecordType
      /\ record.born = rotations[c]
      /\ MaxSize > 0 => files[c][0] = <<>> \/ Size(files[c][0]) + record.size <= MaxSize
  <2>1. emitting \in EmittingType /\ emitting.next = "append"
    BY DEF LogInv, LogTypeOK, AppendBytes
  <2>2. c \in Categories /\ record \in RecordType
    BY <2>1 DEF EmittingType
  <2>3. QED
    BY <2>1, <2>2 DEF LogInv, EmittingInv
<1>2. /\ files' = [files EXCEPT ![c][0] = Append(@, record)]
      /\ written' = [written EXCEPT ![c] = Append(@, record)]
      /\ emitting' = Quiet /\ rotations' = rotations
  BY DEF AppendBytes
<1>3. /\ files \in [Categories -> [Indices -> Seq(RecordType)]]
      /\ written \in [Categories -> Seq(RecordType)] /\ rotations \in [Categories -> Nat]
  BY DEF LogInv, LogTypeOK
<1>4. Oldest \in Nat /\ Indices = 0..Oldest /\ 0 \in Indices
  BY OldestIsLast
<1>5. /\ files[c] \in [Indices -> Seq(RecordType)] /\ written[c] \in Seq(RecordType)
      /\ rotations[c] \in Nat /\ files[c][0] \in Seq(RecordType)
      /\ Append(files[c][0], record) \in Seq(RecordType)
      /\ Append(written[c], record) \in Seq(RecordType)
  <2>1. /\ files[c] \in [Indices -> Seq(RecordType)]
        /\ written[c] \in Seq(RecordType) /\ rotations[c] \in Nat
    BY <1>1, <1>3
  <2>2. files[c][0] \in Seq(RecordType)
    BY <2>1, <1>4
  <2>3. QED
    BY <2>1, <2>2, <1>1, AppendProperties
<1> DEFINE grown == [files[c] EXCEPT ![0] = Append(files[c][0], record)]
<1>6. /\ grown[0] = Append(files[c][0], record)
      /\ \A j \in Indices : j # 0 => grown[j] = files[c][j]
  BY <1>4, <1>5
<1>7. /\ files'[c] = grown /\ written'[c] = Append(written[c], record)
      /\ \A d \in Categories \ {c} : files'[d] = files[d] /\ written'[d] = written[d]
  BY <1>1, <1>2, <1>3, <1>4
<1> HIDE DEF grown
<1>8. LogTypeOK'
  <2>1. files' \in [Categories -> [Indices -> Seq(RecordType)]]
    BY <1>1, <1>2, <1>3, <1>4, <1>5
  <2>2. written' \in [Categories -> Seq(RecordType)]
    BY <1>2, <1>3, <1>5
  <2>3. emitting' \in EmittingType
    BY <1>2 DEF Quiet, EmittingType, NoRecord, Record, RecordType, Categories
  <2>4. QED
    BY <2>1, <2>2, <2>3, <1>2, <1>3 DEF LogTypeOK
<1>9. \A d \in Categories : Ahead(d) = -1 /\ Ahead(d)' = -1
  BY <1>1, <1>2 DEF Ahead, Quiet
<1>10. \E mark : /\ Placed(files'[c], written'[c], mark)
                 /\ Aged(written'[c], mark, rotations'[c], Ahead(c)')
  <2>1. PICK mark : /\ Placed(files[c], written[c], mark)
                    /\ Aged(written[c], mark, rotations[c], -1)
    BY <1>1, <1>9 DEF LogInv, PlacesInv
  <2>2. \E m : /\ Placed([files[c] EXCEPT ![0] = Append(files[c][0], record)],
                         Append(written[c], record), m)
               /\ Aged(Append(written[c], record), m, rotations[c], -1)
    BY <2>1, <1>1, <1>5, AppendRecord
  <2>3. \E m : /\ Placed(grown, Append(written[c], record), m)
               /\ Aged(Append(written[c], record), m, rotations[c], -1)
    BY <2>2 DEF grown
  <2>4. QED
    BY <2>3, <1>1, <1>2, <1>7, <1>9
<1>11. MaxSize > 0 =>
         \A j \in Indices : Size(files'[c][j]) <= MaxSize \/ Len(files'[c][j]) = 1
  <2>1. ASSUME MaxSize > 0, NEW j \in Indices
        PROVE  Size(grown[j]) <= MaxSize \/ Len(grown[j]) = 1
    <3>1. \A k \in Indices : Size(files[c][k]) <= MaxSize \/ Len(files[c][k]) = 1
      BY <2>1, <1>1 DEF LogInv, SizesInv
    <3>2. CASE j # 0
      BY <3>1, <3>2, <1>6
    <3>3. CASE j = 0 /\ files[c][0] = <<>>
      <4>1. Len(grown[0]) = 1
        BY <3>3, <1>1, <1>6
      <4>2. QED
        BY <3>3, <4>1
    <3>4. CASE j = 0 /\ files[c][0] # <<>>
      <4>1. Size(files[c][0]) + record.size <= MaxSize
        BY <2>1, <3>4, <1>1
      <4>2. Size(grown[0]) = Size(files[c][0]) + record.size
        BY <1>1, <1>5, <1>6, SizeOfAppend
      <4>3. QED
        BY <3>4, <4>1, <4>2
    <3>5. QED
      BY <3>2, <3>3, <3>4
  <2>2. QED
    BY <2>1, <1>7
<1>12. ASSUME NEW d \in Categories
       PROVE  /\ \E mark : /\ Placed(files'[d], written'[d], mark)
                           /\ Aged(written'[d], mark, rotations'[d], Ahead(d)')
              /\ MaxSize > 0 =>
                   \A j \in Indices : Size(files'[d][j]) <= MaxSize \/ Len(files'[d][j]) = 1
  <2>1. CASE d = c
    BY <2>1, <1>10, <1>11
  <2>2. CASE d # c
    <3>1. files'[d] = files[d] /\ rotations'[d] = rotations[d] /\ written'[d] = written[d]
          /\ Ahead(d)' = -1
      BY <2>2, <1>2, <1>7, <1>9
    <3>2. Ahead(d)' \in {Ahead(d), -1}
      BY <3>1
    <3>3. QED
      BY <3>1, <3>2, <1>8, OthersStay
  <2>3. QED
    BY <2>1, <2>2
<1>13. PlacesInv' /\ SizesInv'
  BY <1>12 DEF PlacesInv, SizesInv
<1>14. EmittingInv'
  BY <1>2 DEF EmittingInv, Quiet
<1>15. QED
  BY <1>8, <1>13, <1>14 DEF LogInv

LEMMA EmitEndsKeeps == ASSUME LogInv, EmitEnds PROVE LogInv'
<1>1. emitting' = Quiet /\ files' = files /\ written' = written /\ rotations' = rotations
  BY DEF EmitEnds
<1>2. LogTypeOK'
  <2>1. emitting' \in EmittingType
    BY <1>1 DEF Quiet, EmittingType, NoRecord, Record, RecordType, Categories
  <2>2. QED
    BY <1>1, <2>1 DEF LogInv, LogTypeOK
<1>3. \A d \in Categories : Ahead(d)' = -1
  BY <1>1 DEF Ahead, Quiet
<1>4. ASSUME NEW d \in Categories
      PROVE  /\ \E mark : /\ Placed(files'[d], written'[d], mark)
                          /\ Aged(written'[d], mark, rotations'[d], Ahead(d)')
             /\ MaxSize > 0 =>
                  \A j \in Indices : Size(files'[d][j]) <= MaxSize \/ Len(files'[d][j]) = 1
  BY <1>1, <1>2, <1>3, OthersStay
<1>5. PlacesInv' /\ SizesInv'
  BY <1>4 DEF PlacesInv, SizesInv
<1>6. EmittingInv'
  BY <1>1 DEF EmittingInv, Quiet
<1>7. QED
  BY <1>2, <1>5, <1>6 DEF LogInv

LEMMA LogStutters == ASSUME LogInv, UNCHANGED logVars PROVE LogInv'
<1>1. files' = files /\ emitting' = emitting /\ written' = written /\ rotations' = rotations
  BY DEF logVars
<1>2. LogTypeOK' /\ EmittingInv' /\ SizesInv'
  BY <1>1 DEF LogInv, LogTypeOK, EmittingInv, SizesInv
<1>3. \A d \in Categories : Ahead(d)' = Ahead(d)
  BY <1>1 DEF Ahead
<1>4. PlacesInv'
  BY <1>1, <1>3 DEF LogInv, PlacesInv
<1>5. QED
  BY <1>2, <1>4 DEF LogInv

LEMMA LogInvariant == LogSpec => []LogInv
<1>1. LogInit => LogInv
  BY LogInitially
<1>2. LogInv /\ [LogNext]_logVars => LogInv'
  <2>1. SUFFICES ASSUME LogInv, [LogNext]_logVars PROVE LogInv'
    OBVIOUS
  <2>2. CASE \E size \in 1..2, event, raw \in Roots : Emit(size, event, raw)
    BY <2>1, <2>2, EmitKeeps
  <2>3. CASE Shift
    BY <2>1, <2>3, ShiftKeeps
  <2>4. CASE AppendBytes
    BY <2>1, <2>4, AppendKeeps
  <2>5. CASE EmitEnds
    BY <2>1, <2>5, EmitEndsKeeps
  <2>6. CASE UNCHANGED logVars
    BY <2>1, <2>6, LogStutters
  <2>7. QED
    BY <2>1, <2>2, <2>3, <2>4, <2>5, <2>6 DEF LogNext
<1>3. QED
  BY <1>1, <1>2, PTL DEF LogSpec

LEMMA NewestStay ==
  ASSUME LogInv, NEW c \in Categories
  PROVE  /\ IsSuffix(Recorded(c), written[c])
         /\ \A n \in 1..Len(written[c]) :
              rotations[c] - written[c][n].born <= BackupCount =>
                Len(written[c]) - n < Len(Recorded(c))
<1>1. PICK mark : /\ Placed(files[c], written[c], mark)
                  /\ Aged(written[c], mark, rotations[c], Ahead(c))
  BY DEF LogInv, PlacesInv
<1>2. written[c] \in Seq(RecordType) /\ rotations[c] \in Nat /\ Ahead(c) \in Int
  BY DEF LogInv, LogTypeOK, Ahead, EmittingType
<1> DEFINE list == written[c]
           k == mark[Oldest + 1]
<1>3. Oldest \in Nat /\ BackupCount \in Int /\ BackupCount <= Oldest /\ Oldest + 1 \in 0..Oldest + 1
  BY OldestIsLast, LogAssumption
<1>4. k \in 0..Len(list) /\ Len(list) \in Nat
  BY <1>1, <1>2, <1>3, PlacedFacts
<1>5. Recorded(c) = SubSeq(list, k + 1, Len(list))
  BY <1>1, <1>2, RecordedIs
<1>6. Aged(list, mark, rotations[c], -1)
  BY <1>1, <1>2, NoneAhead
<1> HIDE DEF k, list
<1>7. IsSuffix(Recorded(c), list) /\ Len(Recorded(c)) = Len(list) - k
  BY <1>2, <1>4, <1>5, EndIsSuffix DEF list
<1>8. ASSUME NEW n \in 1..Len(list), rotations[c] - list[n].born <= BackupCount
      PROVE  Len(list) - n < Len(Recorded(c))
  <2>1. list[n].born \in Nat
    BY <1>2, BornIsInt DEF list
  <2>2. ~(n <= k)
    <3>1. SUFFICES ASSUME n <= k PROVE FALSE
      OBVIOUS
    <3>2. n \in 1..mark[Oldest + 1]
      BY <3>1, <1>4 DEF k
    <3>3. rotations[c] - list[n].born >= Oldest + 1 + (IF Oldest + 1 <= -1 THEN 1 ELSE 0)
      BY <3>2, <1>3, <1>6 DEF Aged
    <3>4. QED
      BY <3>3, <2>1, <1>2, <1>3, <1>8
  <2>3. QED
    BY <2>2, <1>4, <1>7
<1>9. QED
  BY <1>7, <1>8 DEF list

\* The files of a category hold the newest of its records in the order they were logged,
\* each once, whatever rotations were cut short; no record goes before it has seen as many
\* rotations as there are backups and one more, and no file outgrows the limit unless by
\* the only record in it: core/logging/rotation.py and its handler in configure.py.
THEOREM LogKeepsTheNewest == LogSpec => []LogIsASuffix
<1>1. LogInv => LogIsASuffix
  <2>1. SUFFICES ASSUME LogInv, NEW c \in Categories
        PROVE  /\ IsSuffix(Recorded(c), written[c])
               /\ \A n \in 1..Len(written[c]) :
                    rotations[c] - written[c][n].born <= BackupCount =>
                      Len(written[c]) - n < Len(Recorded(c))
               /\ MaxSize > 0 =>
                    \A i \in Indices : Size(files[c][i]) <= MaxSize \/ Len(files[c][i]) = 1
    BY DEF LogIsASuffix
  <2>2. MaxSize > 0 =>
          \A i \in Indices : Size(files[c][i]) <= MaxSize \/ Len(files[c][i]) = 1
    BY <2>1 DEF LogInv, SizesInv
  <2>3. QED
    BY <2>1, <2>2, NewestStay
<1>2. QED
  BY <1>1, LogInvariant, PTL

-----------------------------------------------------------------------------
(* The working memory: the inductive invariant.                            *)

RoundType == [number : Nat, text : Texts \union {"none"}]

\* s is the end of t.
IsEndOf(s, t) == \E k \in 0..Len(t) : s = SubSeq(t, k + 1, Len(t))

RoundsTypeOK ==
  /\ file \in Seq(RoundType) /\ titled \in BOOLEAN
  /\ added \in Seq(RoundType) /\ owed \in Seq(RoundType)

RoundsInv ==
  /\ RoundsTypeOK
  /\ IsEndOf(Numbers(file), Numbers(added))
  /\ IsEndOf(Numbers(owed), Numbers(file))
  /\ Len(Numbers(file)) <= MaxRounds

-----------------------------------------------------------------------------
(* The ends of a list.                                                     *)

LEMMA EndOf ==
  ASSUME NEW S, NEW t \in Seq(S), NEW k \in 0..Len(t)
  PROVE  /\ SubSeq(t, k + 1, Len(t)) \in Seq(S) /\ Len(SubSeq(t, k + 1, Len(t))) = Len(t) - k
         /\ \A i \in 1..Len(t) - k : SubSeq(t, k + 1, Len(t))[i] = t[k + i]
<1> DEFINE N == Len(t)
           end == SubSeq(t, k + 1, N)
<1>1. N \in Nat /\ k \in Nat /\ k <= N /\ N - k \in Nat /\ N - (k + 1) + 1 = N - k
      /\ k + 1 \in Int /\ N \in Int
  OBVIOUS
<1>2. \A i \in k + 1..N : t[i] \in S
  OBVIOUS
<1>3. /\ end \in Seq(S) /\ Len(end) = IF k + 1 <= N THEN N - (k + 1) + 1 ELSE 0
      /\ \A i \in 1..N - (k + 1) + 1 : end[i] = t[(k + 1) + i - 1]
  BY <1>1, <1>2, SubSeqProperties
<1>4. Len(end) = N - k
  BY EndIsSuffix
<1> HIDE DEF N, end
<1>5. ASSUME NEW i \in 1..N - k PROVE end[i] = t[k + i]
  <2>1. (k + 1) + i - 1 = k + i /\ i \in 1..N - (k + 1) + 1
    BY <1>1
  <2>2. QED
    BY <2>1, <1>3
<1>6. QED
  BY <1>3, <1>4, <1>5 DEF N, end

LEMMA EndsFacts ==
  ASSUME NEW S, NEW s, NEW t \in Seq(S), IsEndOf(s, t)
  PROVE  s \in Seq(S) /\ Len(s) <= Len(t) /\ IsSuffix(s, t)
<1>1. PICK k \in 0..Len(t) : s = SubSeq(t, k + 1, Len(t))
  BY DEF IsEndOf
<1>2. SubSeq(t, k + 1, Len(t)) \in Seq(S) /\ Len(SubSeq(t, k + 1, Len(t))) = Len(t) - k
  BY EndOf
<1>3. IsSuffix(SubSeq(t, k + 1, Len(t)), t)
  BY EndIsSuffix
<1>4. Len(t) - k <= Len(t)
  BY <1>1
<1>5. QED
  BY <1>1, <1>2, <1>3, <1>4

LEMMA EndsItself ==
  ASSUME NEW S, NEW t \in Seq(S) PROVE IsEndOf(t, t)
<1>1. 0 \in 0..Len(t) /\ 0 + 1 = 1
  OBVIOUS
<1>2. SubSeq(t, 1, Len(t)) = t
  BY SubSeqFull
<1>3. QED
  BY <1>1, <1>2 DEF IsEndOf

\* What is put before a list leaves it at the end.
LEMMA EndsJoined ==
  ASSUME NEW S, NEW s \in Seq(S), NEW t \in Seq(S)
  PROVE  IsEndOf(t, s \o t)
<1> DEFINE both == s \o t
           k == Len(s)
           end == SubSeq(both, k + 1, Len(both))
<1>1. /\ both \in Seq(S) /\ Len(both) = Len(s) + Len(t) /\ Len(s) \in Nat /\ Len(t) \in Nat
      /\ \A i \in 1..Len(s) + Len(t) : both[i] = IF i <= Len(s) THEN s[i] ELSE t[i - Len(s)]
  BY ConcatProperties
<1> HIDE DEF both
<1>2. k \in 0..Len(both) /\ Len(both) - k = Len(t)
  BY <1>1
<1>3. end \in Seq(S) /\ Len(end) = Len(t) /\ \A i \in 1..Len(t) : end[i] = both[k + i]
  BY <1>1, <1>2, EndOf
<1>4. ASSUME NEW i \in 1..Len(t) PROVE both[k + i] = t[i]
  <2>1. k + i \in 1..Len(s) + Len(t) /\ ~(k + i <= Len(s)) /\ (k + i) - Len(s) = i
    BY <1>1
  <2>2. QED
    BY <2>1, <1>1
<1> HIDE DEF end
<1>5. end = t
  BY <1>3, <1>4, SeqEqual
<1>6. QED
  BY <1>2, <1>5 DEF IsEndOf, end, both

\* Of two ends of a list, the shorter is an end of the longer.
LEMMA EndsCompare ==
  ASSUME NEW S, NEW s, NEW t, NEW u \in Seq(S), IsEndOf(s, u), IsEndOf(t, u), Len(s) <= Len(t)
  PROVE  IsEndOf(s, t)
<1> DEFINE N == Len(u)
<1>1. PICK j \in 0..N : s = SubSeq(u, j + 1, N)
  BY DEF IsEndOf
<1>2. PICK k \in 0..N : t = SubSeq(u, k + 1, N)
  BY DEF IsEndOf
<1>3. s \in Seq(S) /\ Len(s) = N - j /\ \A i \in 1..N - j : s[i] = u[j + i]
  BY <1>1, EndOf
<1>4. t \in Seq(S) /\ Len(t) = N - k /\ \A i \in 1..N - k : t[i] = u[k + i]
  BY <1>2, EndOf
<1>5. N \in Nat /\ j \in Nat /\ k \in Nat /\ j <= N /\ k <= N /\ k <= j
  BY <1>3, <1>4
<1> HIDE DEF N
<1> DEFINE d == j - k
           end == SubSeq(t, d + 1, Len(t))
<1>6. d \in 0..Len(t) /\ Len(t) - d = N - j
  BY <1>4, <1>5
<1>7. end \in Seq(S) /\ Len(end) = N - j /\ \A i \in 1..N - j : end[i] = t[d + i]
  BY <1>4, <1>6, EndOf
<1>8. ASSUME NEW i \in 1..N - j PROVE t[d + i] = s[i]
  <2>1. d + i \in 1..N - k /\ k + (d + i) = j + i
    BY <1>5
  <2>2. QED
    BY <2>1, <1>3, <1>4
<1> HIDE DEF end
<1>9. end = s
  BY <1>3, <1>7, <1>8, SeqEqual
<1>10. QED
  BY <1>6, <1>9 DEF IsEndOf, end

LEMMA EndsTransitive ==
  ASSUME NEW S, NEW s, NEW t, NEW u \in Seq(S), IsEndOf(s, t), IsEndOf(t, u)
  PROVE  IsEndOf(s, u)
<1> DEFINE N == Len(u)
<1>1. PICK k \in 0..N : t = SubSeq(u, k + 1, N)
  BY DEF IsEndOf
<1>2. PICK j \in 0..Len(t) : s = SubSeq(t, j + 1, Len(t))
  BY DEF IsEndOf
<1>3. t \in Seq(S) /\ Len(t) = N - k /\ \A i \in 1..N - k : t[i] = u[k + i]
  BY <1>1, EndOf
<1>4. /\ s \in Seq(S) /\ Len(s) = Len(t) - j /\ \A i \in 1..Len(t) - j : s[i] = t[j + i]
  BY <1>2, <1>3, EndOf
<1>5. N \in Nat /\ j \in Nat /\ k \in Nat /\ k <= N /\ j <= N - k /\ Len(s) = N - (k + j)
  BY <1>3, <1>4
<1> HIDE DEF N
<1> DEFINE end == SubSeq(u, (k + j) + 1, N)
<1>6. k + j \in 0..N
  BY <1>5
<1>7. end \in Seq(S) /\ Len(end) = N - (k + j) /\ \A i \in 1..N - (k + j) : end[i] = u[(k + j) + i]
  BY <1>6, EndOf DEF N
<1>8. ASSUME NEW i \in 1..N - (k + j) PROVE s[i] = u[(k + j) + i]
  <2>1. i \in 1..Len(t) - j /\ j + i \in 1..N - k /\ k + (j + i) = (k + j) + i
    BY <1>3, <1>5
  <2>2. s[i] = t[j + i] /\ t[j + i] = u[k + (j + i)]
    BY <2>1, <1>3, <1>4
  <2>3. QED
    BY <2>1, <2>2
<1> HIDE DEF end
<1>9. end = s
  BY <1>4, <1>5, <1>7, <1>8, SeqEqual
<1>10. QED
  BY <1>6, <1>9 DEF IsEndOf, end, N

LEMMA EndsBothGrow ==
  ASSUME NEW S, NEW s, NEW t \in Seq(S), NEW element \in S, IsEndOf(s, t)
  PROVE  IsEndOf(Append(s, element), Append(t, element))
<1> DEFINE N == Len(t)
           longer == Append(t, element)
<1>1. PICK k \in 0..N : s = SubSeq(t, k + 1, N)
  BY DEF IsEndOf
<1>2. s \in Seq(S) /\ Len(s) = N - k /\ \A i \in 1..N - k : s[i] = t[k + i]
  BY <1>1, EndOf
<1>3. /\ longer \in Seq(S) /\ Len(longer) = N + 1 /\ longer[N + 1] = element
      /\ \A i \in 1..N : longer[i] = t[i]
  BY AppendProperties
<1>4. N \in Nat /\ k \in Nat /\ k <= N
  BY <1>1
<1> HIDE DEF N, longer
<1> DEFINE end == SubSeq(longer, k + 1, Len(longer))
           more == Append(s, element)
<1>5. k \in 0..Len(longer) /\ Len(longer) - k = (N - k) + 1
  BY <1>3, <1>4
<1>6. /\ end \in Seq(S) /\ Len(end) = (N - k) + 1
      /\ \A i \in 1..(N - k) + 1 : end[i] = longer[k + i]
  BY <1>3, <1>5, EndOf
<1>7. /\ more \in Seq(S) /\ Len(more) = (N - k) + 1 /\ more[(N - k) + 1] = element
      /\ \A i \in 1..N - k : more[i] = s[i]
  <2>1. /\ more \in Seq(S) /\ Len(more) = Len(s) + 1 /\ more[Len(s) + 1] = element
        /\ \A i \in 1..Len(s) : more[i] = s[i]
    BY <1>2, AppendProperties
  <2>2. Len(s) = N - k
    BY <1>2
  <2> HIDE DEF more
  <2>3. QED
    BY ONLY <2>1, <2>2
<1> HIDE DEF end, more
<1>8. ASSUME NEW i \in 1..(N - k) + 1 PROVE end[i] = more[i]
  <2>1. CASE i = (N - k) + 1
    <3>1. k + i = N + 1
      BY <2>1, <1>4
    <3>2. QED
      BY <2>1, <3>1, <1>3, <1>6, <1>7
  <2>2. CASE i # (N - k) + 1
    <3>1. i \in 1..N - k /\ k + i \in 1..N
      BY <2>2, <1>4
    <3>2. QED
      BY <3>1, <1>2, <1>3, <1>6, <1>7
  <2>3. QED
    BY <2>1, <2>2
<1>9. end = more
  BY <1>6, <1>7, <1>8, SeqEqual
<1>10. QED
  BY <1>5, <1>9 DEF IsEndOf, end, more, longer

-----------------------------------------------------------------------------
(* The numbers of the rounds that are more than a marker.                  *)

LEMMA EmptyIsRound == Empty \in RoundType
BY DEF Empty, Round, RoundType

LEMMA MarkedFacts ==
  ASSUME NEW rounds \in Seq(RoundType)
  PROVE  /\ Marked(rounds) \in Seq(RoundType) /\ Len(Marked(rounds)) <= Len(rounds)
         /\ \A k \in 1..Len(Marked(rounds)) : Marked(rounds)[k] # Empty
<1> DEFINE places == {i \in 1..Len(rounds) : rounds[i] # Empty}
<1>1. Marked(rounds) = Keeping(rounds, places)
  BY DEF Marked
<1>2. \A i \in places : rounds[i] # Empty
  OBVIOUS
<1> HIDE DEF places
<1>3. /\ Keeping(rounds, places) \in Seq(RoundType)
      /\ Len(Keeping(rounds, places)) <= Len(rounds)
      /\ \A k \in 1..Len(Keeping(rounds, places)) :
           \E n \in 1..Len(rounds) : n \in places /\ Keeping(rounds, places)[k] = rounds[n]
  BY KeepingFrom
<1>4. QED
  BY <1>1, <1>2, <1>3

LEMMA NumbersFacts ==
  ASSUME NEW rounds \in Seq(RoundType)
  PROVE  /\ Numbers(rounds) \in Seq(Nat) /\ Len(Numbers(rounds)) = Len(Marked(rounds))
         /\ Len(Numbers(rounds)) <= Len(rounds)
         /\ \A i \in 1..Len(Marked(rounds)) : Numbers(rounds)[i] = Marked(rounds)[i].number
<1> DEFINE real == Marked(rounds)
<1>1. real \in Seq(RoundType) /\ Len(real) <= Len(rounds) /\ Len(real) \in Nat
  BY MarkedFacts
<1>2. Numbers(rounds) = [i \in 1..Len(real) |-> real[i].number]
  BY DEF Numbers
<1> HIDE DEF real
<1>3. \A i \in 1..Len(real) : real[i].number \in Nat
  <2>1. \A i \in 1..Len(real) : real[i] \in RoundType
    BY <1>1
  <2>2. QED
    BY <2>1 DEF RoundType
<1>4. QED
  BY <1>1, <1>2, <1>3 DEF real

LEMMA NumbersOfNone == Numbers(<<>>) = <<>>
<1>1. Marked(<<>>) = <<>>
  BY KeepingNone DEF Marked
<1>2. Numbers(<<>>) = [i \in 1..0 |-> <<>>[i].number]
  BY <1>1 DEF Numbers
<1>3. QED
  BY <1>2

LEMMA NumbersOfAppend ==
  ASSUME NEW rounds \in Seq(RoundType), NEW round \in RoundType
  PROVE  Numbers(Append(rounds, round))
           = IF round # Empty THEN Append(Numbers(rounds), round.number) ELSE Numbers(rounds)
<1> DEFINE N == Len(rounds)
           longer == Append(rounds, round)
           places == {i \in 1..N : rounds[i] # Empty}
           more == {i \in 1..Len(longer) : longer[i] # Empty}
           real == Marked(rounds)
<1>1. /\ N \in Nat /\ longer \in Seq(RoundType) /\ Len(longer) = N + 1
      /\ longer[N + 1] = round /\ \A i \in 1..N : longer[i] = rounds[i]
  BY AppendProperties
<1>2. real = Keeping(rounds, places) /\ Marked(longer) = Keeping(longer, more)
  BY DEF Marked
<1> HIDE DEF longer
<1>3. \A n \in 1..N : n \in more <=> n \in places
  BY <1>1
<1>4. N + 1 \in more <=> round # Empty
  BY <1>1
<1>5. real \in Seq(RoundType) /\ Len(real) \in Nat
  BY MarkedFacts
<1> HIDE DEF places, more, real
<1>6. Marked(longer) = IF round # Empty THEN Append(real, round) ELSE real
  BY <1>2, <1>3, <1>4, KeepingAppend DEF longer, N
<1>7. CASE round = Empty
  BY <1>6, <1>7 DEF Numbers, longer, real
<1>8. CASE round # Empty
  <2> DEFINE marked == Append(real, round)
  <2>1. /\ marked \in Seq(RoundType) /\ Len(marked) = Len(real) + 1
        /\ marked[Len(real) + 1] = round /\ \A i \in 1..Len(real) : marked[i] = real[i]
    BY <1>5, AppendProperties
  <2>2. Marked(longer) = marked
    BY <1>6, <1>8
  <2> HIDE DEF marked
  <2>3. Numbers(longer) = [i \in 1..Len(real) + 1 |-> marked[i].number]
    BY <2>1, <2>2 DEF Numbers
  <2>4. Numbers(rounds) = [i \in 1..Len(real) |-> real[i].number]
    BY DEF Numbers, real
  <2>5. Numbers(rounds) \in Seq(Nat) /\ round.number \in Nat /\ Len(Numbers(rounds)) = Len(real)
    BY NumbersFacts DEF RoundType, real
  <2> DEFINE n == Numbers(rounds)
             end == Append(n, round.number)
  <2>6. /\ end \in Seq(Nat) /\ Len(end) = Len(real) + 1 /\ end[Len(real) + 1] = round.number
        /\ \A i \in 1..Len(real) : end[i] = n[i]
    BY <2>5, AppendProperties
  <2>7. \A i \in 1..Len(real) : n[i] = real[i].number
    BY <2>4
  <2> HIDE DEF n, end
  <2>8. ASSUME NEW i \in 1..Len(real) + 1 PROVE end[i] = marked[i].number
    <3>1. CASE i = Len(real) + 1
      BY <3>1, <2>1, <2>6
    <3>2. CASE i # Len(real) + 1
      <4>1. i \in 1..Len(real)
        BY <3>2, <1>5
      <4>2. QED
        BY <4>1, <2>1, <2>6, <2>7
    <3>3. QED
      BY <3>1, <3>2
  <2>9. Numbers(longer) \in Seq(Nat) /\ Len(Numbers(longer)) = Len(real) + 1
    BY <1>1, <2>1, <2>2, NumbersFacts
  <2>10. \A i \in 1..Len(real) + 1 : Numbers(longer)[i] = end[i]
    BY <2>3, <2>8
  <2>11. Numbers(longer) = end
    BY <2>6, <2>9, <2>10, SeqEqual
  <2>12. QED
    BY <2>11, <1>8 DEF end, n, longer
<1>9. QED
  BY <1>7, <1>8

LEMMA JoinedAppend ==
  ASSUME NEW S, NEW s \in Seq(S), NEW t \in Seq(S), NEW element \in S
  PROVE  s \o Append(t, element) = Append(s \o t, element)
<1>1. /\ s \o t \in Seq(S) /\ <<element>> \in Seq(S)
      /\ (s \o t) \o <<element>> = s \o (t \o <<element>>)
  BY ConcatProperties, ConcatAssociative
<1>2. Append(t, element) = t \o <<element>> /\ Append(s \o t, element) = (s \o t) \o <<element>>
  BY <1>1, AppendIsConcat
<1>3. QED
  BY <1>1, <1>2

LEMMA NumbersJoined ==
  ASSUME NEW s \in Seq(RoundType), NEW t \in Seq(RoundType)
  PROVE  Numbers(s \o t) = Numbers(s) \o Numbers(t)
<1> DEFINE N == Len(t)
           upto(n) == SubSeq(t, 1, n)
           bad == {n \in 0..N : Numbers(s \o upto(n)) # Numbers(s) \o Numbers(upto(n))}
<1>1. N \in Nat /\ upto(N) = t /\ upto(0) = <<>>
  BY SubSeqFull, SubSeqEmpty
<1>2. ASSUME NEW n \in 0..N PROVE upto(n) \in Seq(RoundType)
  <2>1. \A i \in 1..n : t[i] \in RoundType
    OBVIOUS
  <2>2. QED
    BY <2>1, SubSeqProperties
<1>3. Numbers(s) \in Seq(Nat)
  BY NumbersFacts
<1>4. bad = {}
  <2>1. SUFFICES ASSUME bad # {} PROVE FALSE
    OBVIOUS
  <2>2. PICK n \in bad : \A m \in bad : n <= m
    <3>1. bad \in SUBSET Nat
      BY <1>1
    <3>2. QED
      BY <2>1, <3>1, LeastNumber
  <2>3. n \in 0..N /\ Numbers(s \o upto(n)) # Numbers(s) \o Numbers(upto(n))
    OBVIOUS
  <2>4. n # 0
    <3>1. s \o <<>> = s /\ Numbers(s) \o <<>> = Numbers(s)
      BY <1>3, ConcatEmptySeq
    <3>2. QED
      BY <2>3, <3>1, <1>1, NumbersOfNone
  <2>5. n \in 1..N /\ n - 1 \in 0..N /\ n - 1 < n
    BY <2>3, <2>4, <1>1
  <2>6. Numbers(s \o upto(n - 1)) = Numbers(s) \o Numbers(upto(n - 1))
    <3>1. n - 1 \notin bad
      BY <2>2, <2>5
    <3>2. QED
      BY <3>1, <2>5
  <2>7. upto(n) = Append(upto(n - 1), t[n]) /\ t[n] \in RoundType /\ upto(n - 1) \in Seq(RoundType)
    <3>1. t[n] \in RoundType /\ upto(n - 1) \in Seq(RoundType)
      BY <2>5, <1>2
    <3>2. upto(n) = upto(n - 1) \o <<t[n]>>
      <4>1. 1 \in 1..N /\ n \in 1..N
        BY <2>5
      <4>2. QED
        BY <4>1, SubSeqRecursiveSecond
    <3> HIDE DEF upto
    <3>3. QED
      BY <3>1, <3>2, AppendIsConcat
  <2> HIDE DEF upto, bad
  <2> DEFINE u == upto(n - 1)
             e == t[n]
  <2>8. upto(n) = Append(u, e) /\ e \in RoundType /\ u \in Seq(RoundType)
    BY <2>7
  <2> HIDE DEF u, e
  <2>9. s \o Append(u, e) = Append(s \o u, e) /\ s \o u \in Seq(RoundType)
    BY <2>8, JoinedAppend, ConcatProperties
  <2>10. Numbers(u) \in Seq(Nat) /\ e.number \in Nat
    BY <2>8, NumbersFacts DEF RoundType
  <2>11. Numbers(s \o upto(n)) = IF e # Empty THEN Append(Numbers(s \o u), e.number)
                                             ELSE Numbers(s \o u)
    <3>1. s \o upto(n) = Append(s \o u, e)
      BY <2>9, <2>8
    <3>2. QED
      BY <3>1, <2>9, <2>8, NumbersOfAppend
  <2>12. Numbers(upto(n)) = IF e # Empty THEN Append(Numbers(u), e.number) ELSE Numbers(u)
    BY <2>8, NumbersOfAppend
  <2>13. Numbers(s) \o Append(Numbers(u), e.number) = Append(Numbers(s) \o Numbers(u), e.number)
    BY <1>3, <2>10, JoinedAppend
  <2>14. Numbers(s \o upto(n)) = Numbers(s) \o Numbers(upto(n))
    BY <2>6, <2>11, <2>12, <2>13 DEF u
  <2>15. QED
    BY <2>3, <2>14
<1>5. N \in 0..N
  BY <1>1
<1>6. Numbers(s \o upto(N)) = Numbers(s) \o Numbers(upto(N))
  BY <1>4, <1>5
<1>7. QED
  BY <1>1, <1>6

\* The end of a list of rounds has the end of its numbers.
LEMMA NumbersOfEnd ==
  ASSUME NEW s, NEW t \in Seq(RoundType), IsEndOf(s, t)
  PROVE  IsEndOf(Numbers(s), Numbers(t)) /\ s \in Seq(RoundType)
<1>1. PICK k \in 0..Len(t) : s = SubSeq(t, k + 1, Len(t))
  BY DEF IsEndOf
<1>2. s \in Seq(RoundType)
  BY EndsFacts
<1> DEFINE r == SubSeq(t, 1, k)
<1>3. r \in Seq(RoundType)
  <2>1. \A i \in 1..k : t[i] \in RoundType
    OBVIOUS
  <2>2. QED
    BY <2>1, SubSeqProperties
<1>4. t = r \o s
  <2>1. 1 \in 1..Len(t) + 1 /\ k \in 1 - 1..Len(t) /\ Len(t) \in k..Len(t)
    OBVIOUS
  <2>2. r \o SubSeq(t, k + 1, Len(t)) = SubSeq(t, 1, Len(t))
    BY <2>1, ConcatAdjacentSubSeq
  <2>3. QED
    BY <2>2, <1>1, SubSeqFull
<1> HIDE DEF r
<1>5. Numbers(t) = Numbers(r) \o Numbers(s)
  BY <1>2, <1>3, <1>4, NumbersJoined
<1>6. Numbers(r) \in Seq(Nat) /\ Numbers(s) \in Seq(Nat)
  BY <1>2, <1>3, NumbersFacts
<1>7. IsEndOf(Numbers(s), Numbers(r) \o Numbers(s))
  BY <1>6, EndsJoined
<1>8. QED
  BY <1>2, <1>5, <1>7

\* When every round is more than a marker.
LEMMA AllNumbered ==
  ASSUME NEW rounds \in Seq(RoundType), \A i \in 1..Len(rounds) : rounds[i] # Empty
  PROVE  Marked(rounds) = rounds /\ Len(Numbers(rounds)) = Len(rounds)
<1> DEFINE places == {i \in 1..Len(rounds) : rounds[i] # Empty}
<1>1. places = 1..Len(rounds)
  OBVIOUS
<1>2. 1 \in 1..Len(rounds) + 1 /\ Len(rounds) \in 0..Len(rounds)
  OBVIOUS
<1>3. Marked(rounds) = Keeping(rounds, places)
  BY DEF Marked
<1> HIDE DEF places
<1>4. Keeping(rounds, places) = SubSeq(rounds, 1, Len(rounds))
  BY <1>1, <1>2, KeepingInterval
<1>5. Marked(rounds) = rounds
  BY <1>3, <1>4, SubSeqFull
<1>6. QED
  BY <1>5, NumbersFacts

-----------------------------------------------------------------------------
(* What is read back, and what is cut.                                     *)

LEMMA ReadBackKeeps ==
  ASSUME NEW round \in RoundType, round # Empty
  PROVE  /\ ReadBack(round) \in RoundType /\ ReadBack(round) # Empty
         /\ ReadBack(round).number = round.number
<1>1. CASE round.text = "lines"
  <2>1. ReadBack(round) = [round EXCEPT !.text = "line"]
    BY <1>1 DEF ReadBack
  <2>2. ReadBack(round).text = "line" /\ Empty.text = "none"
    BY <2>1 DEF RoundType, Empty, Round
  <2>3. ReadBack(round) \in RoundType /\ ReadBack(round).number = round.number
    BY <2>1 DEF RoundType, Texts
  <2>4. QED
    BY <2>2, <2>3
<1>2. CASE round.text # "lines"
  BY <1>2 DEF ReadBack
<1>3. QED
  BY <1>1, <1>2

\* The title that is parsed as a round comes first, and costs no number.
LEMMA ParsedFacts ==
  ASSUME RoundsTypeOK
  PROVE  /\ ParseRounds \in Seq(RoundType) /\ Numbers(ParseRounds) = Numbers(file)
         /\ \A i \in 2..Len(ParseRounds) : ParseRounds[i] # Empty
<1> DEFINE marked == Marked(file)
           read == [i \in 1..Len(marked) |-> ReadBack(marked[i])]
           title == IF titled THEN <<Empty>> ELSE <<>>
<1>1. /\ marked \in Seq(RoundType) /\ Len(marked) \in Nat
      /\ \A k \in 1..Len(marked) : marked[k] \in RoundType /\ marked[k] # Empty
  <2>1. file \in Seq(RoundType)
    BY DEF RoundsTypeOK
  <2>2. QED
    BY <2>1, MarkedFacts
<1>2. ParseRounds = title \o read
  BY DEF ParseRounds
<1> HIDE DEF marked
<1>3. \A i \in 1..Len(marked) :
        /\ ReadBack(marked[i]) \in RoundType /\ ReadBack(marked[i]) # Empty
        /\ ReadBack(marked[i]).number = marked[i].number
  BY <1>1, ReadBackKeeps
<1>4. /\ read \in Seq(RoundType) /\ Len(read) = Len(marked)
      /\ \A i \in 1..Len(read) : read[i] # Empty /\ read[i].number = marked[i].number
  BY <1>1, <1>3
<1> HIDE DEF read
<1>5. title \in Seq(RoundType) /\ Len(title) <= 1 /\ Len(title) \in Nat /\ Numbers(title) = <<>>
  <2>1. CASE titled
    <3>1. title = <<Empty>> /\ title = Append(<<>>, Empty) /\ <<>> \in Seq(RoundType)
      BY <2>1
    <3>2. Numbers(title) = Numbers(<<>>)
      BY <3>1, EmptyIsRound, NumbersOfAppend
    <3>3. QED
      BY <3>1, <3>2, NumbersOfNone, EmptyIsRound
  <2>2. CASE ~titled
    BY <2>2, NumbersOfNone
  <2>3. QED
    BY <2>1, <2>2
<1> HIDE DEF title
<1>6. /\ title \o read \in Seq(RoundType) /\ Len(title \o read) = Len(title) + Len(read)
      /\ \A i \in 1..Len(title) + Len(read) :
           (title \o read)[i] = IF i <= Len(title) THEN title[i] ELSE read[i - Len(title)]
  BY <1>4, <1>5, ConcatProperties
<1>7. ASSUME NEW i \in 2..Len(title \o read) PROVE (title \o read)[i] # Empty
  <2>1. Len(read) \in Nat
    BY <1>1, <1>4
  <2>2. i \in 1..Len(title) + Len(read) /\ ~(i <= Len(title)) /\ i - Len(title) \in 1..Len(read)
    BY <2>1, <1>5, <1>6
  <2>3. QED
    BY <2>2, <1>4, <1>6
<1>8. Numbers(title \o read) = Numbers(read)
  <2>1. Numbers(read) \in Seq(Nat)
    BY <1>4, NumbersFacts
  <2>2. <<>> \o Numbers(read) = Numbers(read)
    BY <2>1, ConcatEmptySeq
  <2>3. QED
    BY <2>2, <1>4, <1>5, NumbersJoined
<1>9. Numbers(read) = Numbers(file)
  <2>1. Numbers(read) = [i \in 1..Len(read) |-> read[i].number]
    <3>1. Marked(read) = read
      BY <1>4, AllNumbered
    <3>2. QED
      BY <3>1 DEF Numbers
  <2>2. Numbers(file) = [i \in 1..Len(marked) |-> marked[i].number]
    BY DEF Numbers, marked
  <2>3. QED
    BY <2>1, <2>2, <1>4
<1>10. QED
  BY <1>2, <1>6, <1>7, <1>8, <1>9

\* The last so many of a list.
LastOf(rounds, n) ==
  IF Len(rounds) <= n THEN rounds ELSE SubSeq(rounds, Len(rounds) - n + 1, Len(rounds))

LEMMA LastOfFacts ==
  ASSUME NEW rounds \in Seq(RoundType), NEW n \in Nat
  PROVE  /\ LastOf(rounds, n) \in Seq(RoundType) /\ IsEndOf(LastOf(rounds, n), rounds)
         /\ Len(LastOf(rounds, n)) <= n
         /\ Len(rounds) > n =>
              /\ Len(LastOf(rounds, n)) = n
              /\ \A i \in 1..n : LastOf(rounds, n)[i] = rounds[(Len(rounds) - n) + i]
<1>1. CASE Len(rounds) <= n
  <2>1. LastOf(rounds, n) = rounds
    BY <1>1 DEF LastOf
  <2>2. QED
    BY <2>1, <1>1, EndsItself
<1>2. CASE ~(Len(rounds) <= n)
  <2> DEFINE N == Len(rounds)
             k == N - n
             end == SubSeq(rounds, k + 1, N)
  <2>1. N \in Nat /\ k \in 0..N /\ N - k = n /\ N > n
    BY <1>2
  <2>2. LastOf(rounds, n) = end
    BY <1>2 DEF LastOf
  <2>3. /\ end \in Seq(RoundType) /\ Len(end) = N - k
        /\ \A i \in 1..N - k : end[i] = rounds[k + i]
    BY <2>1, EndOf
  <2>4. IsEndOf(end, rounds)
    BY <2>1 DEF IsEndOf
  <2> HIDE DEF end
  <2>5. Len(end) <= n /\ Len(end) = n /\ \A i \in 1..n : end[i] = rounds[k + i]
    BY <2>1, <2>3
  <2>6. QED
    BY <2>2, <2>3, <2>4, <2>5
<1>3. QED
  BY <1>1, <1>2

\* A list in which only the first may be empty, and one with an end of its numbers, are cut
\* to the same length: what is left of the second is still an end.
LEMMA CutTogether ==
  ASSUME NEW rounds \in Seq(RoundType), \A i \in 2..Len(rounds) : rounds[i] # Empty,
         NEW others \in Seq(RoundType), IsEndOf(Numbers(others), Numbers(rounds)), NEW n \in Nat
  PROVE  IsEndOf(Numbers(LastOf(others, n)), Numbers(LastOf(rounds, n)))
<1> DEFINE r == LastOf(rounds, n)
           o == LastOf(others, n)
<1>1. r \in Seq(RoundType) /\ IsEndOf(r, rounds) /\ o \in Seq(RoundType) /\ IsEndOf(o, others)
      /\ Len(o) <= n
  BY LastOfFacts
<1>2. /\ Numbers(rounds) \in Seq(Nat) /\ Numbers(others) \in Seq(Nat) /\ Numbers(r) \in Seq(Nat)
      /\ Numbers(o) \in Seq(Nat) /\ Len(Numbers(o)) <= Len(o)
  BY <1>1, NumbersFacts
<1>3. IsEndOf(Numbers(r), Numbers(rounds)) /\ IsEndOf(Numbers(o), Numbers(others))
  BY <1>1, NumbersOfEnd
<1>4. IsEndOf(Numbers(o), Numbers(rounds))
  BY <1>2, <1>3, EndsTransitive
<1>5. CASE Len(rounds) <= n
  <2>1. r = rounds
    BY <1>5 DEF LastOf
  <2>2. QED
    BY <2>1, <1>4
<1>6. CASE ~(Len(rounds) <= n)
  <2>1. Len(r) = n /\ \A i \in 1..n : r[i] = rounds[(Len(rounds) - n) + i]
    <3>1. Len(rounds) > n
      BY <1>6
    <3>2. QED
      BY <3>1, LastOfFacts
  <2>2. ASSUME NEW i \in 1..Len(r) PROVE r[i] # Empty
    <3>1. i \in 1..n /\ (Len(rounds) - n) + i \in 2..Len(rounds)
      BY <2>1, <1>6
    <3>2. QED
      BY <3>1, <2>1
  <2> HIDE DEF r, o
  <2>3. Len(Numbers(r)) = n
    BY <2>1, <2>2, <1>1, AllNumbered
  <2>4. Len(Numbers(o)) <= Len(Numbers(r))
    <3>1. Len(Numbers(o)) \in Nat /\ Len(o) \in Nat
      BY <1>1, <1>2
    <3>2. QED
      BY <3>1, <2>3, <1>1, <1>2
  <2>5. IsEndOf(Numbers(o), Numbers(r))
    BY <2>4, <1>2, <1>3, <1>4, EndsCompare
  <2>6. QED
    BY <2>5 DEF r, o
<1>7. QED
  BY <1>5, <1>6

\* A list with a new round, cut, is the list cut one shorter, with the new round.
LEMMA NewestOfAppend ==
  ASSUME NEW rounds \in Seq(RoundType), NEW round \in RoundType, NEW n \in Nat \ {0}
  PROVE  Newest(Append(rounds, round), n) = Append(LastOf(rounds, n - 1), round)
<1> DEFINE N == Len(rounds)
           longer == Append(rounds, round)
<1>1. /\ N \in Nat /\ longer \in Seq(RoundType) /\ Len(longer) = N + 1
      /\ longer[N + 1] = round /\ \A i \in 1..N : longer[i] = rounds[i]
  BY AppendProperties
<1>2. CASE N <= n - 1
  BY <1>1, <1>2 DEF Newest, LastOf
<1>3. CASE ~(N <= n - 1)
  <2> DEFINE k == N - (n - 1)
             end == SubSeq(rounds, k + 1, N)
             cut == SubSeq(longer, k + 1, N + 1)
             more == Append(end, round)
  <2>1. k \in 0..N /\ k \in 0..N + 1 /\ N - k = n - 1 /\ (N + 1) - k = n /\ n \in Nat
        /\ (N + 1) - n = k
    BY <1>1, <1>3
  <2>2. LastOf(rounds, n - 1) = end
    BY <1>3 DEF LastOf
  <2>3. Newest(longer, n) = cut
    <3>1. ~(n = 0 \/ N + 1 <= n)
      BY <1>1, <1>3, <2>1
    <3>2. Newest(longer, n) = SubSeq(longer, (N + 1) - n + 1, N + 1)
      BY <3>1, <1>1 DEF Newest
    <3>3. QED
      BY <3>2, <2>1
  <2>4. /\ end \in Seq(RoundType) /\ Len(end) = n - 1
        /\ \A i \in 1..n - 1 : end[i] = rounds[k + i]
    BY <2>1, EndOf
  <2>5. cut \in Seq(RoundType) /\ Len(cut) = n /\ \A i \in 1..n : cut[i] = longer[k + i]
    <3> HIDE DEF longer
    <3>1. Len(longer) - k = n /\ Len(longer) = N + 1 /\ k \in 0..Len(longer)
      BY <1>1, <2>1
    <3>2. longer \in Seq(RoundType) /\ cut = SubSeq(longer, k + 1, Len(longer))
      BY <3>1, <1>1
    <3>3. /\ SubSeq(longer, k + 1, Len(longer)) \in Seq(RoundType)
          /\ Len(SubSeq(longer, k + 1, Len(longer))) = n
          /\ \A i \in 1..n : SubSeq(longer, k + 1, Len(longer))[i] = longer[k + i]
      <4> HIDE DEF cut
      <4>1. QED
        BY <3>1, <3>2, EndOf
    <3>4. QED
      BY <3>2, <3>3
  <2> HIDE DEF end, cut, longer
  <2>6. /\ more \in Seq(RoundType) /\ Len(more) = n /\ more[n] = round
        /\ \A i \in 1..n - 1 : more[i] = end[i]
    <3>1. (n - 1) + 1 = n
      BY <2>1
    <3>2. /\ more \in Seq(RoundType) /\ Len(more) = Len(end) + 1 /\ more[Len(end) + 1] = round
          /\ \A i \in 1..Len(end) : more[i] = end[i]
      BY <2>4, AppendProperties
    <3> HIDE DEF more
    <3>3. QED
      BY <3>1, <3>2, <2>4
  <2> HIDE DEF more
  <2>7. ASSUME NEW i \in 1..n PROVE cut[i] = more[i]
    <3>1. CASE i = n
      <4>1. k + n = N + 1
        BY <2>1, <1>1
      <4>2. QED
        BY <3>1, <4>1, <1>1, <2>5, <2>6
    <3>2. CASE i # n
      <4>1. i \in 1..n - 1 /\ k + i \in 1..N
        BY <3>2, <1>1, <2>1
      <4>2. QED
        BY <4>1, <1>1, <2>4, <2>5, <2>6
    <3>3. QED
      BY <3>1, <3>2
  <2>8. cut = more
    BY <2>5, <2>6, <2>7, SeqEqual
  <2>9. QED
    BY <2>2, <2>3, <2>8 DEF more, longer
<1>4. QED
  BY <1>2, <1>3

-----------------------------------------------------------------------------
(* The steps of the working memory.                                        *)

\* What a list and its marked rounds are worth to the invariant.
LEMMA RoundsFacts ==
  ASSUME RoundsInv
  PROVE  /\ file \in Seq(RoundType) /\ titled \in BOOLEAN /\ added \in Seq(RoundType)
         /\ owed \in Seq(RoundType) /\ MaxRounds \in Nat \ {0}
         /\ Numbers(file) \in Seq(Nat) /\ Numbers(added) \in Seq(Nat) /\ Numbers(owed) \in Seq(Nat)
         /\ ParseRounds \in Seq(RoundType) /\ Numbers(ParseRounds) = Numbers(file)
         /\ \A i \in 2..Len(ParseRounds) : ParseRounds[i] # Empty
<1>1. RoundsTypeOK
  BY DEF RoundsInv
<1>2. /\ file \in Seq(RoundType) /\ titled \in BOOLEAN /\ added \in Seq(RoundType)
      /\ owed \in Seq(RoundType)
  BY <1>1 DEF RoundsTypeOK
<1>3. MaxRounds \in Nat \ {0}
  BY RoundsAssumption
<1>4. QED
  BY <1>1, <1>2, <1>3, ParsedFacts, NumbersFacts

LEMMA RoundsInitially == ASSUME RoundsInit PROVE RoundsInv
<1>1. file = <<>> /\ titled \in BOOLEAN /\ added = <<>> /\ owed = <<>>
  BY DEF RoundsInit
<1>2. <<>> \in Seq(RoundType) /\ <<>> \in Seq(Nat) /\ Len(<<>>) = 0
  OBVIOUS
<1>3. IsEndOf(<<>>, <<>>)
  BY <1>2, EndsItself
<1>4. Len(<<>>) <= MaxRounds
  BY <1>2, RoundsAssumption
<1>5. QED
  BY <1>1, <1>2, <1>3, <1>4, NumbersOfNone DEF RoundsInv, RoundsTypeOK

LEMMA AddRoundKeeps == ASSUME RoundsInv, NEW text \in Texts, AddRound(text) PROVE RoundsInv'
<1> DEFINE r == Filtered(Round(Len(added) + 1, text))
           P == ParseRounds
           M == MaxRounds
<1>1. /\ added' = Append(added, r) /\ owed' = Newest(Append(owed, r), M)
      /\ file' = Newest(Append(P, r), M) /\ titled' = TRUE
  BY DEF AddRound, WriteRounds
<1>2. /\ added \in Seq(RoundType) /\ owed \in Seq(RoundType) /\ M \in Nat \ {0}
      /\ Numbers(file) \in Seq(Nat) /\ Numbers(added) \in Seq(Nat) /\ Numbers(owed) \in Seq(Nat)
      /\ P \in Seq(RoundType) /\ Numbers(P) = Numbers(file)
      /\ \A i \in 2..Len(P) : P[i] # Empty
  BY RoundsFacts
<1>3. /\ IsEndOf(Numbers(file), Numbers(added)) /\ IsEndOf(Numbers(owed), Numbers(file))
  BY DEF RoundsInv
<1>4. r \in RoundType
  <2>1. Len(added) + 1 \in Nat
    BY <1>2
  <2>2. Round(Len(added) + 1, text) \in RoundType
    BY <2>1 DEF Round, RoundType
  <2>3. QED
    BY <2>2, EmptyIsRound DEF Filtered
<1> HIDE DEF r, P, M
<1> DEFINE f == LastOf(P, M - 1)
           o == LastOf(owed, M - 1)
<1>5. M - 1 \in Nat
  BY <1>2
<1>6. file' = Append(f, r) /\ owed' = Append(o, r)
  BY <1>1, <1>2, <1>4, NewestOfAppend
<1>7. /\ f \in Seq(RoundType) /\ IsEndOf(f, P) /\ Len(f) <= M - 1
      /\ o \in Seq(RoundType)
  BY <1>2, <1>5, LastOfFacts
<1>8. IsEndOf(Numbers(o), Numbers(f))
  BY <1>2, <1>3, <1>5, CutTogether
<1> HIDE DEF f, o
<1>9. IsEndOf(Numbers(f), Numbers(added))
  <2>1. IsEndOf(Numbers(f), Numbers(P))
    BY <1>2, <1>7, NumbersOfEnd
  <2>2. QED
    BY <2>1, <1>2, <1>3, EndsTransitive
<1>10. Numbers(f) \in Seq(Nat)
  BY <1>7, NumbersFacts
<1>11. /\ IsEndOf(Numbers(file'), Numbers(added')) /\ IsEndOf(Numbers(owed'), Numbers(file'))
  <2>1. /\ Numbers(file') = IF r # Empty THEN Append(Numbers(f), r.number) ELSE Numbers(f)
        /\ Numbers(owed') = IF r # Empty THEN Append(Numbers(o), r.number) ELSE Numbers(o)
        /\ Numbers(added') = IF r # Empty THEN Append(Numbers(added), r.number)
                                          ELSE Numbers(added)
    BY <1>1, <1>2, <1>4, <1>6, <1>7, NumbersOfAppend
  <2>2. r.number \in Nat
    BY <1>4 DEF RoundType
  <2>3. /\ IsEndOf(Append(Numbers(f), r.number), Append(Numbers(added), r.number))
        /\ IsEndOf(Append(Numbers(o), r.number), Append(Numbers(f), r.number))
    BY <2>2, <1>2, <1>8, <1>9, <1>10, EndsBothGrow
  <2>4. QED
    BY <2>1, <2>3, <1>8, <1>9
<1>12. /\ file' \in Seq(RoundType) /\ owed' \in Seq(RoundType) /\ added' \in Seq(RoundType)
       /\ Len(file') = Len(f) + 1
  BY <1>1, <1>2, <1>4, <1>6, <1>7, AppendProperties
<1>13. Len(Numbers(file')) <= MaxRounds
  <2>1. Len(Numbers(file')) <= Len(file') /\ Len(Numbers(file')) \in Nat /\ Len(f) \in Nat
    BY <1>7, <1>12, NumbersFacts
  <2>2. QED
    BY <2>1, <1>2, <1>7, <1>12 DEF M
<1>14. QED
  BY <1>1, <1>11, <1>12, <1>13 DEF RoundsInv, RoundsTypeOK

LEMMA TrimKeeps == ASSUME RoundsInv, NEW n \in 0..MaxRounds, TrimToMaxRounds(n) PROVE RoundsInv'
<1> DEFINE P == ParseRounds
<1>1. /\ added \in Seq(RoundType) /\ owed \in Seq(RoundType) /\ MaxRounds \in Nat \ {0}
      /\ Numbers(file) \in Seq(Nat) /\ Numbers(added) \in Seq(Nat) /\ Numbers(owed) \in Seq(Nat)
      /\ P \in Seq(RoundType) /\ Numbers(P) = Numbers(file)
      /\ \A i \in 2..Len(P) : P[i] # Empty
  BY RoundsFacts
<1>2. /\ IsEndOf(Numbers(file), Numbers(added)) /\ IsEndOf(Numbers(owed), Numbers(file))
      /\ Len(Numbers(file)) <= MaxRounds
  BY DEF RoundsInv
<1>3. CASE ~(Len(P) > n)
  <2>1. file' = file /\ titled' = titled /\ added' = added /\ owed' = owed
    BY <1>3 DEF TrimToMaxRounds, roundVars
  <2>2. QED
    BY <2>1 DEF RoundsInv, RoundsTypeOK
<1>4. CASE Len(P) > n
  <2>1. file' = Newest(P, n) /\ titled' = TRUE /\ owed' = Newest(owed, n) /\ added' = added
    BY <1>4 DEF TrimToMaxRounds, WriteRounds
  <2> HIDE DEF P
  <2>2. CASE n = 0
    <3>1. file' = P /\ owed' = owed
      BY <2>1, <2>2 DEF Newest
    <3>2. QED
      BY <3>1, <2>1, <1>1, <1>2 DEF RoundsInv, RoundsTypeOK
  <2>3. CASE n # 0
    <3> DEFINE f == LastOf(P, n)
               o == LastOf(owed, n)
    <3>1. file' = f /\ owed' = o
      BY <2>1, <2>3 DEF Newest, LastOf
    <3>2. n \in Nat /\ n <= MaxRounds
      BY <1>1
    <3>3. f \in Seq(RoundType) /\ IsEndOf(f, P) /\ Len(f) <= n /\ o \in Seq(RoundType)
      BY <3>2, <1>1, LastOfFacts
    <3>4. IsEndOf(Numbers(o), Numbers(f))
      BY <3>2, <1>1, <1>2, CutTogether
    <3> HIDE DEF f, o
    <3>5. IsEndOf(Numbers(f), Numbers(added))
      <4>1. IsEndOf(Numbers(f), Numbers(P))
        BY <3>3, <1>1, NumbersOfEnd
      <4>2. QED
        BY <4>1, <1>1, <1>2, EndsTransitive
    <3>6. Len(Numbers(f)) <= MaxRounds
      <4>1. Len(Numbers(f)) <= Len(f) /\ Len(Numbers(f)) \in Nat /\ Len(f) \in Nat
        BY <3>3, NumbersFacts
      <4>2. QED
        BY <4>1, <3>2, <3>3, <1>1
    <3>7. QED
      BY <2>1, <3>1, <3>3, <3>4, <3>5, <3>6, <1>1 DEF RoundsInv, RoundsTypeOK
  <2>4. QED
    BY <2>2, <2>3
<1>5. QED
  BY <1>3, <1>4

LEMMA ClearRoundsKeeps == ASSUME RoundsInv, ClearRounds PROVE RoundsInv'
<1>1. file' = <<>> /\ titled' = TRUE /\ added' = <<>> /\ owed' = <<>>
  BY DEF ClearRounds
<1>2. <<>> \in Seq(RoundType) /\ <<>> \in Seq(Nat) /\ Len(<<>>) = 0
  OBVIOUS
<1>3. IsEndOf(<<>>, <<>>)
  BY <1>2, EndsItself
<1>4. Len(<<>>) <= MaxRounds
  BY <1>2, RoundsAssumption
<1>5. QED
  BY <1>1, <1>2, <1>3, <1>4, NumbersOfNone DEF RoundsInv, RoundsTypeOK

LEMMA RoundsInvariant == RoundSpec => []RoundsInv
<1>1. RoundsInit => RoundsInv
  BY RoundsInitially
<1>2. RoundsInv /\ [RoundsNext]_roundVars => RoundsInv'
  <2>1. SUFFICES ASSUME RoundsInv, [RoundsNext]_roundVars PROVE RoundsInv'
    OBVIOUS
  <2>2. CASE \E text \in Texts : AddRound(text)
    BY <2>1, <2>2, AddRoundKeeps
  <2>3. CASE \E n \in 0..MaxRounds : TrimToMaxRounds(n)
    BY <2>1, <2>3, TrimKeeps
  <2>4. CASE ClearRounds
    BY <2>1, <2>4, ClearRoundsKeeps
  <2>5. CASE UNCHANGED roundVars
    BY <2>1, <2>5 DEF RoundsInv, RoundsTypeOK, roundVars
  <2>6. QED
    BY <2>1, <2>2, <2>3, <2>4, <2>5 DEF RoundsNext
<1>3. QED
  BY <1>1, <1>2, PTL DEF RoundSpec

\* What is read back of the working memory are the newest rounds added to it, in order, all
\* that no limit has cut off and MaxRounds at most: the title, which is parsed as a round of
\* its own, costs none of them (memory/stores/working_store.py).
THEOREM WorkingMemoryKeepsTheRecent == RoundSpec => []RecentRoundsAreKept
<1>1. RoundsInv => RecentRoundsAreKept
  <2>1. SUFFICES ASSUME RoundsInv PROVE RecentRoundsAreKept
    OBVIOUS
  <2>2. /\ Numbers(file) \in Seq(Nat) /\ Numbers(added) \in Seq(Nat)
        /\ Numbers(ParseRounds) = Numbers(file)
    BY <2>1, RoundsFacts
  <2>3. IsSuffix(Numbers(file), Numbers(added)) /\ IsSuffix(Numbers(owed), Numbers(file))
    BY <2>1, <2>2, EndsFacts DEF RoundsInv
  <2>4. QED
    BY <2>1, <2>2, <2>3 DEF RecentRoundsAreKept, RoundsInv
<1>2. QED
  BY <1>1, RoundsInvariant, PTL

-----------------------------------------------------------------------------
(* The review of a call: what is found first in the sorted rules.          *)

Found(rule, actions) == rule.matches /\ rule.action \in actions

\* A rule that is found, of the highest priority among those, and the first of these.
Best(list, actions, n, i) ==
  /\ i \in 1..n /\ Found(list[i], actions)
  /\ \A j \in 1..n : Found(list[j], actions) =>
       \/ list[j].priority < list[i].priority
       \/ list[j].priority = list[i].priority /\ i <= j

Descending(list) == \A i, j \in 1..Len(list) : i < j => list[i].priority >= list[j].priority

\* What is known of the first n rules of a list when they are sorted.
SortedTo(sorted, list, actions, n) ==
  /\ sorted \in Seq(Rule) /\ Len(sorted) = n /\ Descending(sorted)
  /\ \A p \in 1..n : \E i \in 1..n : sorted[p] = list[i]
  /\ \/ (\A i \in 1..n : ~Found(list[i], actions)) /\ (\A p \in 1..n : ~Found(sorted[p], actions))
     \/ \E i \in 1..n, p \in 1..n :
          /\ Best(list, actions, n, i) /\ sorted[p] = list[i]
          /\ \A q \in 1..p - 1 : ~Found(sorted[q], actions)

\* A rule goes behind those whose priority is not lower.
Behind(others, rule) == {i \in 1..Len(others) : others[i].priority >= rule.priority}
Inserted(others, rule) ==
  Append(Keeping(others, Behind(others, rule)), rule)
    \o Keeping(others, 1..Len(others) \ Behind(others, rule))

LEMMA PriorityIsInt == ASSUME NEW rule \in Rule PROVE rule.priority \in Int
BY ReviewAssumption DEF Rule

\* Those are the first ones.
LEMMA BehindIsStart ==
  ASSUME NEW others \in Seq(Rule), Descending(others), NEW rule \in Rule
  PROVE  \E k \in 0..Len(others) : Behind(others, rule) = 1..k
<1> DEFINE N == Len(others)
           lower == {i \in 1..N + 1 : i = N + 1 \/ others[i].priority < rule.priority}
<1>1. N \in Nat /\ N + 1 \in lower
  OBVIOUS
<1>2. PICK m \in lower : \A i \in lower : m <= i
  <2>1. lower \in SUBSET Nat /\ lower # {}
    BY <1>1
  <2> HIDE DEF lower
  <2>2. QED
    BY <2>1, LeastNumber
<1>3. rule.priority \in Int /\ \A i \in 1..N : others[i].priority \in Int
  <2>1. \A i \in 1..N : others[i] \in Rule
    OBVIOUS
  <2>2. QED
    BY <2>1, PriorityIsInt
<1>4. m \in 1..N + 1
  OBVIOUS
<1>5. ASSUME NEW i \in 1..N PROVE others[i].priority >= rule.priority <=> i \in 1..m - 1
  <2>1. CASE i < m
    <3>1. i \notin lower
      BY <2>1, <1>2, <1>4
    <3>2. i \in 1..N + 1 /\ i \in 1..m - 1
      BY <2>1, <1>1, <1>4
    <3>3. ~(others[i].priority < rule.priority)
      BY <3>1, <3>2
    <3>4. QED
      BY <3>2, <3>3, <1>3
  <2>2. CASE ~(i < m)
    <3>1. m \in 1..N /\ m # N + 1 /\ m <= i
      BY <2>2, <1>1, <1>4
    <3>2. others[m].priority < rule.priority
      BY <3>1, <1>2
    <3>3. others[m].priority >= others[i].priority
      <4>1. CASE m = i
        BY <4>1, <3>1, <1>3
      <4>2. CASE m # i
        <5>1. m < i
          BY <4>2, <3>1
        <5>2. QED
          BY <5>1, <3>1 DEF Descending
      <4>3. QED
        BY <4>1, <4>2
    <3>4. i \notin 1..m - 1
      BY <2>2, <1>4
    <3>5. others[m].priority \in Int /\ others[i].priority \in Int /\ rule.priority \in Int
      BY <3>1, <1>3
    <3>6. QED
      BY <3>2, <3>3, <3>4, <3>5
  <2>3. QED
    BY <2>1, <2>2
<1>6. Behind(others, rule) = 1..m - 1
  <2>1. \A i \in 1..m - 1 : i \in 1..N
    BY <1>1, <1>4
  <2>2. QED
    BY <2>1, <1>5 DEF Behind
<1>7. m - 1 \in 0..N
  BY <1>1, <1>4
<1>8. QED
  BY <1>6, <1>7

LEMMA InsertedFacts ==
  ASSUME NEW others \in Seq(Rule), Descending(others), NEW rule \in Rule
  PROVE  /\ Inserted(others, rule) \in Seq(Rule)
         /\ Len(Inserted(others, rule)) = Len(others) + 1
         /\ \E k \in 0..Len(others) :
              /\ \A i \in 1..k : /\ Inserted(others, rule)[i] = others[i]
                                 /\ others[i].priority >= rule.priority
              /\ Inserted(others, rule)[k + 1] = rule
              /\ \A i \in k + 1..Len(others) :
                   /\ Inserted(others, rule)[i + 1] = others[i]
                   /\ others[i].priority < rule.priority
<1> DEFINE N == Len(others)
           behind == Behind(others, rule)
           before == Keeping(others, behind)
           rest == Keeping(others, 1..N \ behind)
           front == Append(before, rule)
<1>1. PICK k \in 0..N : behind = 1..k
  BY BehindIsStart
<1>2. N \in Nat /\ k \in Nat /\ k <= N /\ \A i \in 1..N : others[i] \in Rule
  OBVIOUS
<1>3. before = SubSeq(others, 1, k)
  <2>1. 1 \in 1..N + 1
    BY <1>2
  <2> HIDE DEF behind
  <2>2. QED
    BY <2>1, <1>1, KeepingInterval
<1>4. rest = SubSeq(others, k + 1, N)
  <2>1. 1..N \ behind = k + 1..N
    BY <1>1, <1>2
  <2>2. k + 1 \in 1..N + 1 /\ N \in 0..N
    BY <1>2
  <2> HIDE DEF behind
  <2>3. QED
    BY <2>1, <2>2, KeepingInterval
<1>5. /\ \A i \in 1..k : others[i].priority >= rule.priority
      /\ \A i \in k + 1..N : others[i].priority < rule.priority
  <2>1. \A i \in 1..N : i \in behind <=> others[i].priority >= rule.priority
    BY DEF Behind
  <2>2. rule.priority \in Int /\ \A i \in 1..N : others[i].priority \in Int
    BY <1>2, PriorityIsInt
  <2>3. (\A i \in 1..k : i \in 1..N) /\ (\A i \in k + 1..N : i \in 1..N /\ i \notin 1..k)
    BY <1>2
  <2> HIDE DEF behind, N
  <2>4. \A i \in 1..k : others[i].priority >= rule.priority
    BY <2>1, <2>3, <1>1
  <2>5. ASSUME NEW i \in k + 1..N PROVE others[i].priority < rule.priority
    <3>1. i \in 1..N /\ i \notin behind
      BY <2>3, <1>1
    <3>2. ~(others[i].priority >= rule.priority)
      BY <3>1, <2>1
    <3>3. rule.priority \in Int /\ others[i].priority \in Int
      BY <3>1, <2>2
    <3>4. QED
      BY <3>2, <3>3
  <2>6. QED
    BY <2>4, <2>5
<1> HIDE DEF behind
<1>6. before \in Seq(Rule) /\ Len(before) = k /\ \A i \in 1..k : before[i] = others[i]
  <2>1. \A i \in 1..k : others[i] \in Rule
    BY <1>2
  <2>2. /\ SubSeq(others, 1, k) \in Seq(Rule)
        /\ Len(SubSeq(others, 1, k)) = IF 1 <= k THEN k - 1 + 1 ELSE 0
        /\ \A i \in 1..k - 1 + 1 : SubSeq(others, 1, k)[i] = others[1 + i - 1]
    <3>1. 1 \in Int /\ k \in Int
      BY <1>2
    <3>2. QED
      BY <2>1, <3>1, SubSeqProperties
  <2>3. k - 1 + 1 = k /\ (\A i \in 1..k : 1 + i - 1 = i) /\ (1 <= k \/ k = 0)
    BY <1>2
  <2>4. QED
    BY <2>2, <2>3, <1>3
<1>7. rest \in Seq(Rule) /\ Len(rest) = N - k /\ \A i \in 1..N - k : rest[i] = others[k + i]
  <2>1. \A i \in k + 1..N : others[i] \in Rule
    BY <1>2
  <2>2. /\ SubSeq(others, k + 1, N) \in Seq(Rule)
        /\ Len(SubSeq(others, k + 1, N)) = IF k + 1 <= N THEN N - (k + 1) + 1 ELSE 0
        /\ \A i \in 1..N - (k + 1) + 1 : SubSeq(others, k + 1, N)[i] = others[(k + 1) + i - 1]
    <3>1. k + 1 \in Int /\ N \in Int
      BY <1>2
    <3>2. QED
      BY <2>1, <3>1, SubSeqProperties
  <2>3. N - (k + 1) + 1 = N - k /\ (\A i \in 1..N - k : (k + 1) + i - 1 = k + i)
        /\ (k + 1 <= N \/ N - k = 0)
    BY <1>2
  <2>4. QED
    BY <2>2, <2>3, <1>4
<1> HIDE DEF before, rest, N
<1>8. /\ front \in Seq(Rule) /\ Len(front) = k + 1 /\ front[k + 1] = rule
      /\ \A i \in 1..k : front[i] = others[i]
  BY <1>6, AppendProperties
<1> HIDE DEF front
<1> DEFINE list == front \o rest
<1>9. /\ list \in Seq(Rule) /\ Len(list) = (k + 1) + (N - k)
      /\ \A i \in 1..(k + 1) + (N - k) : list[i] = IF i <= k + 1 THEN front[i] ELSE rest[i - (k + 1)]
  <2>1. /\ list \in Seq(Rule) /\ Len(list) = Len(front) + Len(rest)
        /\ \A i \in 1..Len(front) + Len(rest) :
             list[i] = IF i <= Len(front) THEN front[i] ELSE rest[i - Len(front)]
    BY <1>7, <1>8, ConcatProperties
  <2> HIDE DEF list
  <2>2. QED
    BY <2>1, <1>7, <1>8
<1> HIDE DEF list
<1>10. (k + 1) + (N - k) = N + 1
  BY <1>2
<1>11. ASSUME NEW i \in 1..k PROVE list[i] = others[i]
  <2>1. i \in 1..(k + 1) + (N - k) /\ i <= k + 1
    BY <1>2
  <2>2. QED
    BY <2>1, <1>8, <1>9
<1>12. list[k + 1] = rule
  <2>1. k + 1 \in 1..(k + 1) + (N - k) /\ k + 1 <= k + 1
    BY <1>2
  <2>2. QED
    BY <2>1, <1>8, <1>9
<1>13. ASSUME NEW i \in k + 1..N PROVE list[i + 1] = others[i]
  <2>1. /\ i + 1 \in 1..(k + 1) + (N - k) /\ ~(i + 1 <= k + 1) /\ (i + 1) - (k + 1) \in 1..N - k
        /\ k + ((i + 1) - (k + 1)) = i
    BY <1>2
  <2>2. QED
    BY <2>1, <1>7, <1>9
<1>14. Inserted(others, rule) = list
  BY DEF Inserted, list, front, before, rest, behind, N
<1>15. /\ list \in Seq(Rule) /\ Len(list) = N + 1
       /\ \E j \in 0..N :
              /\ \A i \in 1..j : list[i] = others[i] /\ others[i].priority >= rule.priority
              /\ list[j + 1] = rule
              /\ \A i \in j + 1..N :
                   list[i + 1] = others[i] /\ others[i].priority < rule.priority
  BY <1>5, <1>9, <1>10, <1>11, <1>12, <1>13
<1>16. QED
  BY <1>14, <1>15 DEF N

\* One more rule is sorted in.
LEMMA SortsOneMore ==
  ASSUME NEW list \in Seq(Rule), NEW actions, NEW n \in 1..Len(list), NEW sorted,
         SortedTo(sorted, list, actions, n - 1)
  PROVE  SortedTo(Inserted(sorted, list[n]), list, actions, n)
<1> DEFINE rule == list[n]
           new == Inserted(sorted, rule)
           F(r) == Found(r, actions)
<1>1. /\ sorted \in Seq(Rule) /\ Len(sorted) = n - 1 /\ Descending(sorted)
      /\ \A p \in 1..n - 1 : \E i \in 1..n - 1 : sorted[p] = list[i]
      /\ \/ (\A i \in 1..n - 1 : ~F(list[i])) /\ (\A p \in 1..n - 1 : ~F(sorted[p]))
         \/ \E i \in 1..n - 1, p \in 1..n - 1 :
              /\ Best(list, actions, n - 1, i) /\ sorted[p] = list[i]
              /\ \A q \in 1..p - 1 : ~F(sorted[q])
  BY DEF SortedTo
<1>2. rule \in Rule /\ n \in Nat /\ n - 1 \in Nat
  OBVIOUS
<1>3. /\ new \in Seq(Rule) /\ Len(new) = (n - 1) + 1
      /\ \E k \in 0..n - 1 :
           /\ \A i \in 1..k : new[i] = sorted[i] /\ sorted[i].priority >= rule.priority
           /\ new[k + 1] = rule
           /\ \A i \in k + 1..n - 1 : new[i + 1] = sorted[i] /\ sorted[i].priority < rule.priority
  <2> HIDE DEF rule
  <2>1. /\ Inserted(sorted, rule) \in Seq(Rule)
        /\ Len(Inserted(sorted, rule)) = Len(sorted) + 1
        /\ \E k \in 0..Len(sorted) :
             /\ \A i \in 1..k : /\ Inserted(sorted, rule)[i] = sorted[i]
                                /\ sorted[i].priority >= rule.priority
             /\ Inserted(sorted, rule)[k + 1] = rule
             /\ \A i \in k + 1..Len(sorted) :
                  /\ Inserted(sorted, rule)[i + 1] = sorted[i]
                  /\ sorted[i].priority < rule.priority
    <3>1. sorted \in Seq(Rule) /\ Descending(sorted) /\ rule \in Rule
      BY <1>1, <1>2
    <3>2. QED
      BY ONLY <3>1, InsertedFacts
  <2>2. Len(sorted) = n - 1
    BY <1>1
  <2> HIDE DEF new
  <2>3. new = Inserted(sorted, rule)
    BY DEF new
  <2>4. QED
    BY ONLY <2>1, <2>2, <2>3
<1> HIDE DEF new
<1>4. PICK k \in 0..n - 1 :
           /\ \A i \in 1..k : new[i] = sorted[i] /\ sorted[i].priority >= rule.priority
           /\ new[k + 1] = rule
           /\ \A i \in k + 1..n - 1 : new[i + 1] = sorted[i] /\ sorted[i].priority < rule.priority
  BY <1>3
<1>5. Len(new) = n /\ k \in Nat /\ k + 1 \in 1..n
  BY <1>2, <1>3
<1>6. /\ rule.priority \in Int /\ (\A i \in 1..n - 1 : sorted[i].priority \in Int)
      /\ (\A i \in 1..n : list[i].priority \in Int)
  <2>1. (\A i \in 1..n - 1 : sorted[i] \in Rule) /\ (\A i \in 1..n : list[i] \in Rule)
    BY <1>1, <1>2
  <2>2. QED
    BY <2>1, <1>2, PriorityIsInt
<1> HIDE DEF rule
\* Where an element of the new list comes from.
<1>7. ASSUME NEW p \in 1..n
      PROVE  \/ p \in 1..k /\ p \in 1..n - 1 /\ new[p] = sorted[p]
             \/ p = k + 1 /\ new[p] = rule
             \/ p \in k + 2..n /\ p - 1 \in k + 1..n - 1 /\ p - 1 \in 1..n - 1
                /\ new[p] = sorted[p - 1]
  <2>1. CASE p <= k
    <3>1. p \in 1..k /\ p \in 1..n - 1
      BY <2>1, <1>5
    <3>2. QED
      BY <3>1, <1>4
  <2>2. CASE p = k + 1
    BY <2>2, <1>4
  <2>3. CASE p > k + 1
    <3>1. p \in k + 2..n /\ p - 1 \in k + 1..n - 1 /\ p - 1 \in 1..n - 1 /\ (p - 1) + 1 = p
      BY <2>3, <1>2, <1>5
    <3>2. new[(p - 1) + 1] = sorted[p - 1]
      BY <3>1, <1>4
    <3>3. QED
      BY <3>1, <3>2
  <2>4. QED
    BY <2>1, <2>2, <2>3, <1>5
<1>8. Descending(new)
  <2>1. ASSUME NEW p \in 1..n, NEW q \in 1..n, p < q PROVE new[p].priority >= new[q].priority
    <3>1. \A i, j \in 1..n - 1 : i < j => sorted[i].priority >= sorted[j].priority
      BY <1>1 DEF Descending
    <3>2. CASE p \in 1..k
      <4>1. p \in 1..n - 1 /\ new[p] = sorted[p] /\ sorted[p].priority >= rule.priority
        BY <3>2, <1>4, <1>5
      <4>2. CASE q \in 1..k
        <5>1. q \in 1..n - 1 /\ new[q] = sorted[q]
          BY <4>2, <1>4, <1>5
        <5>2. QED
          BY <5>1, <4>1, <3>1, <2>1
      <4>3. CASE q = k + 1
        BY <4>1, <4>3, <1>4
      <4>4. CASE q \in k + 2..n
        <5>1. q - 1 \in 1..n - 1 /\ new[q] = sorted[q - 1] /\ p < q - 1
          BY <4>4, <3>2, <1>5, <1>7
        <5>2. QED
          BY <5>1, <4>1, <3>1
      <4>5. QED
        BY <4>2, <4>3, <4>4, <1>7
    <3>3. CASE p = k + 1
      <4>1. q \in k + 2..n /\ q - 1 \in k + 1..n - 1 /\ q - 1 \in 1..n - 1 /\ (q - 1) + 1 = q
        BY <3>3, <2>1, <1>2, <1>5
      <4>2. new[q] = sorted[q - 1] /\ sorted[q - 1].priority < rule.priority
        <5>1. new[(q - 1) + 1] = sorted[q - 1] /\ sorted[q - 1].priority < rule.priority
          BY <4>1, <1>4
        <5>2. QED
          BY <5>1, <4>1
      <4>3. sorted[q - 1].priority \in Int
        BY <4>1, <1>6
      <4>4. QED
        BY <4>2, <4>3, <3>3, <1>4, <1>6
    <3>4. CASE p \in k + 2..n
      <4>1. /\ p - 1 \in 1..n - 1 /\ q - 1 \in 1..n - 1 /\ p - 1 < q - 1
            /\ q \in k + 2..n
        BY <3>4, <2>1, <1>2, <1>5
      <4>2. new[p] = sorted[p - 1] /\ new[q] = sorted[q - 1]
        BY <4>1, <3>4, <1>5, <1>7
      <4>3. QED
        BY <4>1, <4>2, <3>1
    <3>5. QED
      BY <3>2, <3>3, <3>4, <1>7
  <2>2. QED
    BY <2>1, <1>5 DEF Descending
<1>9. ASSUME NEW p \in 1..n PROVE \E i \in 1..n : new[p] = list[i]
  <2>1. \A i \in 1..n - 1 : i \in 1..n
    BY <1>2
  <2>2. n \in 1..n
    BY <1>2
  <2>3. ASSUME NEW r \in 1..n - 1 PROVE \E i \in 1..n : sorted[r] = list[i]
    BY <2>1, <1>1
  <2>4. QED
    BY <2>2, <2>3, <1>7 DEF rule
<1>10. CASE F(rule) /\ \A p \in 1..k : ~F(sorted[p])
  <2>1. Best(list, actions, n, n)
    <3>1. ASSUME NEW j \in 1..n, F(list[j])
          PROVE  \/ list[j].priority < list[n].priority
                 \/ list[j].priority = list[n].priority /\ n <= j
      <4>1. CASE j = n
        BY <4>1
      <4>2. CASE j # n
        <5>1. j \in 1..n - 1
          BY <4>2, <1>2
        <5>2. PICK i \in 1..n - 1, p \in 1..n - 1 :
                Best(list, actions, n - 1, i) /\ sorted[p] = list[i]
          BY <5>1, <3>1, <1>1
        <5>3. F(list[i]) /\ list[j].priority <= list[i].priority
          <6>1. /\ F(list[i])
                /\ \/ list[j].priority < list[i].priority
                   \/ list[j].priority = list[i].priority /\ i <= j
            BY <5>1, <5>2, <3>1 DEF Best
          <6>2. i \in 1..n
            BY <1>2
          <6>3. QED
            BY <6>1, <6>2, <1>6
        <5>4. p \notin 1..k
          BY <5>2, <5>3, <1>10
        <5>5. p \in k + 1..n - 1
          BY <5>4, <1>5
        <5>6. sorted[p].priority < rule.priority
          BY <5>5, <1>4
        <5>7. list[j].priority < list[n].priority
          <6>1. list[i].priority < list[n].priority /\ i \in 1..n /\ n \in 1..n
            BY <5>2, <5>6, <1>2 DEF rule
          <6>2. QED
            BY <6>1, <5>3, <1>6
        <5>8. QED
          BY <5>7
      <4>3. QED
        BY <4>1, <4>2
    <3>2. n \in 1..n /\ F(list[n])
      BY <1>2, <1>10 DEF rule
    <3>3. QED
      BY <3>1, <3>2 DEF Best
  <2>2. \A q \in 1..(k + 1) - 1 : ~F(new[q])
    <3>1. (k + 1) - 1 = k
      BY <1>5
    <3>2. QED
      BY <3>1, <1>4, <1>10
  <2>3. n \in 1..n /\ new[k + 1] = list[n]
    BY <1>2, <1>4 DEF rule
  <2>4. QED
    BY <2>1, <2>2, <2>3, <1>3, <1>5, <1>8, <1>9 DEF SortedTo, new, rule
<1>11. CASE ~F(rule) /\ \A i \in 1..n - 1 : ~F(list[i])
  <2>1. \A p \in 1..n - 1 : ~F(sorted[p])
    BY <1>11, <1>1 DEF Best
  <2>2. \A p \in 1..n : ~F(new[p])
    BY <2>1, <1>7, <1>11
  <2>3. ASSUME NEW i \in 1..n PROVE ~F(list[i])
    <3>1. i = n \/ i \in 1..n - 1
      BY <1>2
    <3>2. QED
      BY <3>1, <1>11 DEF rule
  <2>4. QED
    BY <2>2, <2>3, <1>3, <1>5, <1>8, <1>9 DEF SortedTo, new, rule
\* The rule that was the best is still: it comes first if the new one is not found, and
\* precedes it otherwise.
<1>12. ASSUME NEW i \in 1..n - 1, NEW p \in 1..n - 1,
              Best(list, actions, n - 1, i), sorted[p] = list[i],
              \A q \in 1..p - 1 : ~F(sorted[q]),
              ~F(rule) \/ p \in 1..k
       PROVE  SortedTo(Inserted(sorted, list[n]), list, actions, n)
  <2>1. i \in 1..n /\ F(list[i])
    BY <1>2, <1>12 DEF Best
  <2>2. Best(list, actions, n, i)
    <3>1. ASSUME NEW j \in 1..n, F(list[j])
          PROVE  \/ list[j].priority < list[i].priority
                 \/ list[j].priority = list[i].priority /\ i <= j
      <4>1. CASE j \in 1..n - 1
        BY <4>1, <3>1, <1>12 DEF Best
      <4>2. CASE j = n
        <5>1. p \in 1..k
          BY <4>2, <3>1, <1>12 DEF rule
        <5>2. list[i].priority >= list[n].priority
          BY <5>1, <1>4, <1>12 DEF rule
        <5>3. i <= n /\ n \in 1..n
          BY <1>2
        <5>4. QED
          BY <5>2, <5>3, <4>2, <2>1, <1>6
      <4>3. QED
        BY <4>1, <4>2, <1>2
    <3>2. QED
      BY <2>1, <3>1 DEF Best
  <2>3. \E r \in 1..n : new[r] = list[i] /\ \A q \in 1..r - 1 : ~F(new[q])
    <3>1. CASE p \in 1..k
      <4>1. p \in 1..n /\ new[p] = list[i]
        BY <3>1, <1>4, <1>5, <1>12
      <4>2. ASSUME NEW q \in 1..p - 1 PROVE ~F(new[q])
        <5>1. q \in 1..k
          BY <3>1, <1>5
        <5>2. QED
          BY <5>1, <1>4, <1>12
      <4>3. QED
        BY <4>1, <4>2
    <3>2. CASE p \notin 1..k
      <4>1. p \in k + 1..n - 1 /\ p + 1 \in 1..n
        BY <3>2, <1>5
      <4>2. new[p + 1] = list[i] /\ ~F(rule)
        BY <4>1, <3>2, <1>4, <1>12
      <4>3. ASSUME NEW q \in 1..(p + 1) - 1 PROVE ~F(new[q])
        <5>1. q \in 1..n /\ q <= p
          BY <4>1, <1>2
        <5>2. CASE q \in 1..k /\ new[q] = sorted[q]
          <6>1. q \in 1..p - 1
            BY <5>2, <4>1, <1>5
          <6>2. QED
            BY <5>2, <6>1, <1>12
        <5>3. CASE q = k + 1 /\ new[q] = rule
          BY <5>3, <4>2
        <5>4. CASE q \in k + 2..n /\ new[q] = sorted[q - 1]
          <6>1. q - 1 \in 1..p - 1
            BY <5>1, <5>4, <4>1, <1>5
          <6>2. QED
            BY <5>4, <6>1, <1>12
        <5>5. QED
          BY <5>1, <5>2, <5>3, <5>4, <1>7
      <4>4. QED
        BY <4>1, <4>2, <4>3
    <3>3. QED
      BY <3>1, <3>2
  <2>4. QED
    BY <2>1, <2>2, <2>3, <1>3, <1>5, <1>8, <1>9 DEF SortedTo, new, rule
<1>13. CASE ~F(rule) /\ \E i \in 1..n - 1 : F(list[i])
  <2>1. PICK i \in 1..n - 1, p \in 1..n - 1 :
          /\ Best(list, actions, n - 1, i) /\ sorted[p] = list[i]
          /\ \A q \in 1..p - 1 : ~F(sorted[q])
    BY <1>1, <1>13
  <2>2. QED
    BY <2>1, <1>12, <1>13
<1>14. CASE F(rule) /\ \E p \in 1..k : F(sorted[p])
  <2>1. PICK r \in 1..k : F(sorted[r])
    BY <1>14
  <2>2. r \in 1..n - 1
    BY <1>5
  <2>3. PICK i \in 1..n - 1, p \in 1..n - 1 :
          /\ Best(list, actions, n - 1, i) /\ sorted[p] = list[i]
          /\ \A q \in 1..p - 1 : ~F(sorted[q])
    BY <2>1, <2>2, <1>1
  <2>4. p <= r
    BY <2>1, <2>2, <2>3
  <2>5. p \in 1..k
    BY <2>4, <1>5
  <2>6. QED
    BY <2>3, <2>5, <1>12
<1>15. QED
  BY <1>10, <1>11, <1>13, <1>14

\* The sort ends with the rules in order of priority, those of one priority as they were.
LEMMA ByPriorityIsSorted ==
  ASSUME NEW list \in Seq(Rule), NEW actions
  PROVE  SortedTo(ByPriority(list), list, actions, Len(list))
<1> DEFINE N == Len(list)
           F == [n \in 1..N |-> [x \in Seq(Rule) |-> Inserted(x, list[n])]]
           Sorts(f) == f = [n \in 0..N |-> IF n = 0 THEN <<>> ELSE Inserted(f[n - 1], list[n])]
           sorted == CHOOSE f : Sorts(f)
<1>1. N \in Nat /\ <<>> \in Seq(Rule) /\ \A n \in 1..N : list[n] \in Rule
  OBVIOUS
<1>2. ASSUME NEW x \in Seq(Rule), NEW rule \in Rule PROVE Inserted(x, rule) \in Seq(Rule)
  <2>1. Keeping(x, Behind(x, rule)) \in Seq(Rule)
    BY <1>2, KeepingFrom
  <2>2. Keeping(x, 1..Len(x) \ Behind(x, rule)) \in Seq(Rule)
    BY <1>2, KeepingFrom
  <2>3. QED
    BY <2>1, <2>2 DEF Inserted
<1>3. GoesOn(F, Seq(Rule), N)
  <2>1. F \in [1..N -> [Seq(Rule) -> Seq(Rule)]]
    BY <1>1, <1>2
  <2>2. QED
    BY <1>1, <2>1 DEF GoesOn
<1>4. PICK f : Course(f, F, Seq(Rule), N, <<>>)
  <2> HIDE DEF F, N
  <2>1. QED
    BY <1>1, <1>3, CourseExists
<1>5. /\ f \in [0..N -> Seq(Rule)] /\ f[0] = <<>>
      /\ \A n \in 1..N : f[n] = F[n][f[n - 1]]
  BY <1>4 DEF Course
<1>6. Sorts(f)
  <2>1. f = [n \in 0..N |-> f[n]]
    BY <1>5
  <2>2. ASSUME NEW n \in 0..N PROVE f[n] = IF n = 0 THEN <<>> ELSE Inserted(f[n - 1], list[n])
    <3>1. CASE n = 0
      BY <3>1, <1>5
    <3>2. CASE n # 0
      <4>1. n \in 1..N /\ n - 1 \in 0..N
        BY <3>2, <1>1
      <4>2. f[n - 1] \in Seq(Rule)
        BY <4>1, <1>5
      <4>3. F[n][f[n - 1]] = Inserted(f[n - 1], list[n])
        BY <4>1, <4>2
      <4>4. QED
        BY <3>2, <4>1, <4>3, <1>5
    <3>3. QED
      BY <3>1, <3>2
  <2> HIDE DEF F
  <2>3. QED
    BY <2>1, <2>2
<1>7. Sorts(sorted)
  <2> HIDE DEF Sorts
  <2>1. QED
    BY <1>6
<1>8. ByPriority(list) = sorted[N]
  BY DEF ByPriority, Inserted, Behind
<1> HIDE DEF sorted, F
<1>9. sorted[0] = <<>> /\ \A n \in 1..N : sorted[n] = Inserted(sorted[n - 1], list[n])
  <2>1. 0 \in 0..N /\ \A n \in 1..N : n \in 0..N /\ n # 0
    BY <1>1
  <2>2. \A n \in 0..N : sorted[n] = IF n = 0 THEN <<>> ELSE Inserted(sorted[n - 1], list[n])
    BY <1>7
  <2> HIDE DEF Sorts
  <2>3. QED
    BY <2>1, <2>2
<1> DEFINE bad == {n \in 0..N : ~SortedTo(sorted[n], list, actions, n)}
<1>10. bad = {}
  <2>1. SUFFICES ASSUME bad # {} PROVE FALSE
    OBVIOUS
  <2>2. PICK n \in bad : \A m \in bad : n <= m
    <3>1. bad \in SUBSET Nat
      OBVIOUS
    <3> HIDE DEF bad
    <3>2. QED
      BY <2>1, <3>1, LeastNumber
  <2>3. n \in 0..N /\ ~SortedTo(sorted[n], list, actions, n)
    OBVIOUS
  <2>4. CASE n = 0
    <3>1. SortedTo(<<>>, list, actions, 0)
      BY <1>1 DEF SortedTo, Descending
    <3>2. QED
      BY <2>3, <2>4, <3>1, <1>9
  <2>5. CASE n # 0
    <3>1. n \in 1..N /\ n - 1 \in 0..N /\ ~(n <= n - 1)
      BY <2>3, <2>5, <1>1
    <3>2. SortedTo(sorted[n - 1], list, actions, n - 1)
      BY <3>1, <2>2
    <3> HIDE DEF bad
    <3>3. SortedTo(Inserted(sorted[n - 1], list[n]), list, actions, n)
      BY <3>1, <3>2, SortsOneMore
    <3>4. QED
      BY <2>3, <3>1, <3>3, <1>9
  <2>6. QED
    BY <2>4, <2>5
<1>11. QED
  <2>1. N \in 0..N
    BY <1>1
  <2>2. SortedTo(sorted[N], list, actions, N)
    BY <2>1, <1>10
  <2>3. QED
    BY <2>2, <1>8

\* What is found first in the sorted rules is the best of the rules.
LEMMA FirstIsBest ==
  ASSUME NEW list \in Seq(Rule), NEW actions
  PROVE  \/ /\ \A i \in 1..Len(list) : ~Found(list[i], actions)
            /\ First(ByPriority(list), actions) = "none"
         \/ \E i \in 1..Len(list) :
              /\ Best(list, actions, Len(list), i)
              /\ First(ByPriority(list), actions) = list[i].action
<1> DEFINE N == Len(list)
           sorted == ByPriority(list)
           found == {i \in 1..Len(sorted) : sorted[i].matches /\ sorted[i].action \in actions}
<1>1. SortedTo(sorted, list, actions, N)
  BY ByPriorityIsSorted
<1> HIDE DEF sorted, N
<1>2. /\ Len(sorted) = N /\ N \in Nat
      /\ found = {i \in 1..N : Found(sorted[i], actions)}
  BY <1>1 DEF SortedTo, Found, N
<1>3. First(sorted, actions) = IF found = {} THEN "none"
        ELSE sorted[CHOOSE i \in found : \A j \in found : i <= j].action
  BY DEF First
<1> HIDE DEF found
<1>4. CASE (\A i \in 1..N : ~Found(list[i], actions)) /\ (\A p \in 1..N : ~Found(sorted[p], actions))
  <2>1. found = {}
    BY <1>2, <1>4
  <2>2. QED
    BY <2>1, <1>3, <1>4 DEF N, sorted
<1>5. CASE \E i \in 1..N, p \in 1..N :
          /\ Best(list, actions, N, i) /\ sorted[p] = list[i]
          /\ \A q \in 1..p - 1 : ~Found(sorted[q], actions)
  <2>1. PICK i \in 1..N, p \in 1..N :
          /\ Best(list, actions, N, i) /\ sorted[p] = list[i]
          /\ \A q \in 1..p - 1 : ~Found(sorted[q], actions)
    BY <1>5
  <2>2. p \in found
    BY <2>1, <1>2 DEF Best
  <2>3. ASSUME NEW j \in found PROVE p <= j
    <3>1. j \in 1..N /\ j \notin 1..p - 1
      BY <2>1, <1>2
    <3>2. QED
      BY <3>1, <1>2
  <2>4. \A m \in found : (\A j \in found : m <= j) => m = p
    <3>1. \A m \in found : m \in Int /\ p \in Int
      BY <1>2
    <3>2. QED
      BY <3>1, <2>2, <2>3
  <2>5. (CHOOSE m \in found : \A j \in found : m <= j) = p
    BY <2>2, <2>3, <2>4
  <2>6. First(sorted, actions) = list[i].action
    BY <2>1, <2>2, <2>5, <1>3
  <2>7. QED
    BY <2>1, <2>6 DEF N, sorted
<1>6. QED
  BY <1>1, <1>4, <1>5 DEF SortedTo

Deciding == {"block", "warn"}

\* The review blocks exactly when a blocking rule prevails.
LEMMA BlocksWhenOnePrevails ==
  ASSUME rules \in Seq(Rule)
  PROVE  Validate = "block" <=> \E i \in 1..Len(rules) : Prevails(i)
<1> DEFINE N == Len(rules)
<1>1. /\ N \in Nat /\ \A i \in 1..N : rules[i].priority \in Int
  <2>1. \A i \in 1..N : rules[i] \in Rule
    OBVIOUS
  <2>2. QED
    BY <2>1, PriorityIsInt
<1>2. Validate = First(ByPriority(rules), Deciding)
  BY DEF Validate, Deciding
<1>3. CASE (\A i \in 1..N : ~Found(rules[i], Deciding)) /\ Validate = "none"
  BY <1>3 DEF Prevails, Found, Deciding
<1>4. ASSUME NEW i \in 1..N, Best(rules, Deciding, N, i), Validate = rules[i].action
      PROVE  Validate = "block" <=> \E m \in 1..N : Prevails(m)
  <2>1. /\ rules[i].matches /\ rules[i].action \in {"block", "warn"}
        /\ \A j \in 1..N : Found(rules[j], Deciding) =>
             \/ rules[j].priority < rules[i].priority
             \/ rules[j].priority = rules[i].priority /\ i <= j
    BY <1>4 DEF Best, Found, Deciding
  <2>2. CASE rules[i].action = "block"
    <3>1. ASSUME NEW j \in 1..N, rules[j].matches, rules[j].action = "warn"
          PROVE  \/ rules[j].priority < rules[i].priority
                 \/ rules[j].priority = rules[i].priority /\ i < j
      <4>1. Found(rules[j], Deciding) /\ j # i
        BY <2>2, <3>1 DEF Found, Deciding
      <4>2. QED
        BY <4>1, <2>1
    <3>2. Prevails(i)
      BY <2>1, <2>2, <3>1 DEF Prevails
    <3>3. QED
      BY <2>2, <3>2, <1>4
  <2>3. CASE rules[i].action = "warn"
    <3>1. ASSUME NEW m \in 1..N, Prevails(m) PROVE FALSE
      <4>1. Found(rules[m], Deciding)
        BY <3>1 DEF Prevails, Found, Deciding
      <4>2. \/ rules[m].priority < rules[i].priority
            \/ rules[m].priority = rules[i].priority /\ i <= m
        BY <4>1, <2>1
      <4>3. \/ rules[i].priority < rules[m].priority
            \/ rules[i].priority = rules[m].priority /\ m < i
        BY <2>1, <2>3, <3>1 DEF Prevails
      <4>4. rules[i].priority \in Int /\ rules[m].priority \in Int /\ i \in Int /\ m \in Int
        BY <1>1
      <4>5. QED
        BY <4>2, <4>3, <4>4
    <3>2. QED
      BY <2>3, <3>1, <1>4
  <2>4. QED
    BY <2>1, <2>2, <2>3
<1>5. QED
  BY <1>2, <1>3, <1>4, FirstIsBest

\* Where no rule allows, both reviews find the same rule.
LEMMA ReviewsDecideAlike ==
  ASSUME rules \in Seq(Rule), \A i \in 1..Len(rules) : rules[i].action # "allow"
  PROVE  Validate = CheckCommand
<1> DEFINE sorted == ByPriority(rules)
           found(actions) == {i \in 1..Len(sorted) : sorted[i].matches /\ sorted[i].action \in actions}
<1>1. SortedTo(sorted, rules, Deciding, Len(rules))
  BY ByPriorityIsSorted
<1> HIDE DEF sorted
<1>2. ASSUME NEW p \in 1..Len(sorted) PROVE sorted[p].action # "allow"
  BY <1>1 DEF SortedTo
<1>3. found({"block", "warn"}) = found({"block", "warn", "allow"})
  BY <1>2
<1>4. First(sorted, {"block", "warn"}) = First(sorted, {"block", "warn", "allow"})
  <2>1. \A actions : First(sorted, actions) =
          IF found(actions) = {} THEN "none"
          ELSE sorted[CHOOSE i \in found(actions) : \A j \in found(actions) : i <= j].action
    BY DEF First
  <2> HIDE DEF found
  <2>2. QED
    BY <2>1, <1>3
<1>5. QED
  BY <1>4 DEF Validate, CheckCommand, sorted

\* While a call's outcome stands, so do the rules that decided it.
ReviewInv ==
  /\ rules \in Seq(Rule)
  /\ outcome \in {"none", "invalid", "blocked", "run"}
  /\ outcome \in {"blocked", "run"} =>
       /\ call.tool # "other"
       /\ call.arguments.fields[Required(call.tool)] = "text"
       /\ outcome = "blocked" <=> Validate = "block"

LEMMA ReviewInvHolds == ReviewSpec => []ReviewInv
<1>1. ReviewInit => ReviewInv
  BY DEF ReviewInit, ReviewInv
<1>2. ReviewInv /\ [ReviewNext]_reviewVars => ReviewInv'
  <2> SUFFICES ASSUME ReviewInv, [ReviewNext]_reviewVars PROVE ReviewInv'
    OBVIOUS
  <2>1. rules \in Seq(Rule)
    BY DEF ReviewInv
  <2>2. ASSUME NEW rule \in Rule, AddSecurityRule(rule) PROVE ReviewInv'
    BY <2>1, <2>2 DEF AddSecurityRule, ReviewInv
  <2>3. ASSUME NEW tool \in Tools, NEW arguments,
               \/ arguments \in {Malformed, List}
               \/ \E fields \in [Fields -> FieldValues] : arguments = Object(fields),
               ExecuteToolCall(tool, arguments)
        PROVE  ReviewInv'
    <3>1. /\ rules' = rules /\ call'.tool = tool /\ call'.arguments = arguments
          /\ outcome' = IF ~Accepts(tool, arguments) THEN "invalid"
                        ELSE IF ~HasCommand(tool, arguments) THEN "missing"
                        ELSE IF Validate = "block" THEN "blocked" ELSE "run"
      BY <2>3 DEF ExecuteToolCall
    <3>2. Validate' = Validate
      BY <3>1 DEF Validate
    <3>3. CASE ~Accepts(tool, arguments)
      BY <2>1, <3>1, <3>3 DEF ReviewInv
    <3>4. CASE Accepts(tool, arguments)
      <4>1. PICK fields \in [Fields -> FieldValues] : arguments = Object(fields)
        BY <2>3, <3>4 DEF Accepts, Malformed, List
      <4>2. arguments.fields = fields
        BY <4>1 DEF Object
      <4>3. Required(tool) \in Fields
        BY DEF Required, Fields
      <4>4. tool # "other" /\ fields[Required(tool)] = "text"
        BY <3>4, <4>2, <4>3 DEF Accepts, FieldValues
      <4>5. HasCommand(tool, arguments)
        BY <4>2, <4>4 DEF HasCommand
      <4>6. outcome' = IF Validate = "block" THEN "blocked" ELSE "run"
        BY <3>1, <3>4, <4>5
      <4>7. QED
        BY <2>1, <3>1, <3>2, <4>2, <4>4, <4>6 DEF ReviewInv
    <3>5. QED
      BY <3>3, <3>4
  <2>4. CASE NextCall
    BY <2>1, <2>4 DEF NextCall, ReviewInv
  <2>5. CASE UNCHANGED reviewVars
    BY <2>5 DEF reviewVars, ReviewInv, Validate
  <2>6. QED
    BY <2>2, <2>3, <2>4, <2>5 DEF ReviewNext
<1>3. QED
  BY <1>1, <1>2, PTL DEF ReviewSpec

\* BaseExecutor.validate, with execute_tool_call before it: only a call of a known tool with
\* a text reaches the rules, it runs exactly when no blocking rule prevails, and without
\* rules that allow SecurityService would decide alike.  For any number of rules of any
\* priorities.
THEOREM CommandsAreReviewed == ReviewSpec => []CallsAreVetted
<1>1. ReviewInv => CallsAreVetted
  <2> SUFFICES ASSUME ReviewInv PROVE CallsAreVetted
    OBVIOUS
  <2>1. Validate = "block" <=> \E i \in 1..Len(rules) : Prevails(i)
    BY BlocksWhenOnePrevails DEF ReviewInv
  <2>2. (\A i \in 1..Len(rules) : rules[i].action # "allow") => Validate = CheckCommand
    BY ReviewsDecideAlike DEF ReviewInv
  <2>3. QED
    BY <2>1, <2>2 DEF ReviewInv, CallsAreVetted
<1>2. QED
  BY <1>1, ReviewInvHolds, PTL

-----------------------------------------------------------------------------
(* The bridge server: its reader thread answers every line once, in the    *)
(* order the frontend wrote them.                                          *)

LineKinds == {"message", "interrupt", "blank"} \union Ends

ServerTypeOK ==
  /\ lines \in 0..MaxLines
  /\ stdin \in Seq([kind : LineKinds, number : Nat])
  /\ line \in [kind : LineKinds \union {"none"}, number : Nat]
  /\ queue \in Seq([kind : LineKinds, number : Nat])
  /\ closed \in [1..MaxLines -> Nat]
  /\ reader \in {"off", "reading", "blocked", "taken", "resuming", "yielded", "ended"}
  /\ announced \in Nat /\ answered \in Nat

\* The lines are numbered as they are written, and the reader has taken all but those
\* that are still in the pipe.
NumberedInv ==
  /\ line.number = lines - Len(stdin)
  /\ \A i \in 1..Len(stdin) : stdin[i].number = line.number + i
  /\ line.kind = "none" <=> line.number = 0

\* The reader deals with one line at a time, and with messages in turns; between turns the
\* generator is gone.
PhaseInv ==
  /\ reader = "taken" => line.kind \in {"message", "interrupt"}
  /\ reader \in {"resuming", "yielded"} => line.kind = "message"
  /\ reader \notin {"resuming", "yielded"} => said \in {"nothing", "closed"}
  /\ main \in {"init", "starting"} => reader = "off"

\* What is looked for in the queue is only there while its own line is dealt with.
QueueInv == InterruptPending <=> reader = "taken" /\ line.kind = "interrupt"

\* The response after which the generator only ends.
LastSaid == said \in {"interrupted", "error"} \/ (said = "answer" /\ announced = 0)

Finished ==
  \/ reader \in {"off", "reading", "blocked", "ended"} /\ line.kind \in {"message", "interrupt"}
  \/ reader = "resuming" /\ LastSaid

\* Every line before the current one has given the prompt back at most once; the current one
\* has if it is dealt with, or its last response has been sent.
AnsweredInv ==
  /\ \A n \in 1..MaxLines : n > line.number => closed[n] = 0
  /\ ~broken => \A n \in 1..MaxLines : n < line.number => closed[n] <= 1
  /\ ~broken /\ line.kind # "none" => closed[line.number] = IF Finished THEN 1 ELSE 0

ServerInv == ServerTypeOK /\ NumberedInv /\ PhaseInv /\ QueueInv /\ AnsweredInv

-----------------------------------------------------------------------------

LEMMA FirstAndRest ==
  ASSUME NEW S, NEW q \in Seq(S), q # <<>>
  PROVE  /\ Len(q) \in Nat \ {0} /\ Head(q) \in S /\ Head(q) = q[1]
         /\ Tail(q) \in Seq(S) /\ Len(Tail(q)) = Len(q) - 1
         /\ \A i \in 1..Len(Tail(q)) : Tail(q)[i] = q[i + 1]
OBVIOUS

\* The line the reader has taken is one of those the frontend may write.
LEMMA CurrentLine ==
  ASSUME ServerInv, line.kind # "none"
  PROVE  line.number \in 1..MaxLines
<1>1. lines \in 0..MaxLines /\ MaxLines \in Nat /\ Len(stdin) \in Nat /\ line.number \in Nat
  BY ServerAssumption DEF ServerInv, ServerTypeOK
<1>2. line.number = lines - Len(stdin) /\ line.number # 0
  BY DEF ServerInv, NumberedInv
<1>3. QED
  BY <1>1, <1>2

LEMMA InitiallyServes == ServerInit => ServerInv
<1>1. SUFFICES ASSUME ServerInit PROVE ServerInv
  OBVIOUS
<1>2. closed = [n \in 1..MaxLines |-> 0] /\ line = [kind |-> "none", number |-> 0]
      /\ stdin = <<>> /\ queue = <<>> /\ lines = 0 /\ reader = "off" /\ said = "nothing"
      /\ main = "init" /\ announced = 0 /\ answered = 0
  BY <1>1 DEF ServerInit, TransportInit, Line, Agent!Init
<1>3. ServerTypeOK
  BY <1>2, ServerAssumption DEF ServerTypeOK
<1>4. NumberedInv /\ PhaseInv
  <2>1. Len(stdin) = 0 /\ line.number = 0 /\ line.kind = "none"
    BY <1>2
  <2>2. NumberedInv
    BY <2>1, <1>2 DEF NumberedInv
  <2>3. QED
    BY <2>2, <1>2 DEF PhaseInv
<1>5. QueueInv
  BY <1>2 DEF QueueInv, InterruptPending
<1>6. AnsweredInv
  BY <1>2 DEF AnsweredInv
<1>7. QED
  BY <1>3, <1>4, <1>5, <1>6 DEF ServerInv

-----------------------------------------------------------------------------
(* The frontend and the main thread                                        *)

\* What the invariant speaks of.
served == <<lines, stdin, line, queue, closed, reader, broken, said, announced, answered>>

LEMMA SameService ==
  ASSUME ServerInv, UNCHANGED served, main' \in {"init", "starting"} => reader = "off"
  PROVE  ServerInv'
<1>1. ServerTypeOK' /\ NumberedInv'
  BY DEF ServerInv, served, ServerTypeOK, NumberedInv
<1>2. PhaseInv' /\ QueueInv'
  BY DEF ServerInv, served, PhaseInv, QueueInv, InterruptPending
<1>3. AnsweredInv'
  BY DEF ServerInv, served, AnsweredInv, Finished, LastSaid
<1>4. QED
  BY <1>1, <1>2, <1>3 DEF ServerInv

LEMMA WriteLineServes ==
  ASSUME ServerInv, WriteLine
  PROVE  ServerInv'
<1>1. PICK kind \in {"message", "interrupt", "blank"} \union Ends :
        stdin' = Append(stdin, Line(kind, lines + 1))
  BY DEF WriteLine
<1>2. /\ stdin \in Seq([kind : LineKinds, number : Nat]) /\ Len(stdin) \in Nat
      /\ lines \in 0..MaxLines /\ MaxLines \in Nat /\ lines < MaxLines /\ lines' = lines + 1
      /\ line.number \in Nat
  BY ServerAssumption DEF ServerInv, ServerTypeOK, WriteLine
<1>3. Line(kind, lines + 1) \in [kind : LineKinds, number : Nat]
  BY <1>1, <1>2 DEF Line, LineKinds
<1>4. UNCHANGED <<line, queue, closed, reader, broken, main, said, announced, answered>>
  BY DEF WriteLine, agent
<1>5. ServerTypeOK'
  BY <1>1, <1>2, <1>3, <1>4 DEF ServerInv, ServerTypeOK
<1>6. NumberedInv'
  <2>1. Len(stdin') = Len(stdin) + 1
    BY <1>1, <1>2, <1>3
  <2>2. line.number = lines - Len(stdin)
    BY DEF ServerInv, NumberedInv
  <2>3. ASSUME NEW i \in 1..Len(stdin') PROVE stdin'[i].number = line.number + i
    <3>1. CASE i = Len(stdin) + 1
      <4>1. stdin'[i] = Line(kind, lines + 1)
        BY <1>1, <1>2, <1>3, <3>1
      <4>2. QED
        BY <4>1, <2>2, <3>1, <1>2 DEF Line
    <3>2. CASE i # Len(stdin) + 1
      <4>1. i \in 1..Len(stdin)
        BY <2>1, <2>3, <3>2, <1>2
      <4>2. stdin'[i] = stdin[i]
        BY <1>1, <1>2, <1>3, <4>1
      <4>3. QED
        BY <4>1, <4>2 DEF ServerInv, NumberedInv
    <3>3. QED
      BY <3>1, <3>2
  <2>4. line.number = lines' - Len(stdin')
    BY <2>1, <2>2, <1>2
  <2>5. QED
    BY <2>3, <2>4, <1>4 DEF ServerInv, NumberedInv
<1>7. PhaseInv' /\ QueueInv'
  BY <1>4 DEF ServerInv, PhaseInv, QueueInv, InterruptPending
<1>8. AnsweredInv'
  BY <1>4 DEF ServerInv, AnsweredInv, Finished, LastSaid
<1>9. QED
  BY <1>5, <1>6, <1>7, <1>8 DEF ServerInv

LEMMA StopsReadingServes ==
  ASSUME ServerInv, StopsReading
  PROVE  ServerInv'
<1>1. broken' /\ UNCHANGED <<lines, stdin, line, queue, closed, reader, main, said, announced, answered>>
  BY DEF StopsReading, agent
<1>2. ServerTypeOK' /\ NumberedInv' /\ PhaseInv' /\ QueueInv'
  BY <1>1 DEF ServerInv, ServerTypeOK, NumberedInv, PhaseInv, QueueInv, InterruptPending
<1>3. AnsweredInv'
  BY <1>1 DEF ServerInv, AnsweredInv
<1>4. QED
  BY <1>2, <1>3 DEF ServerInv

LEMMA MainServes ==
  ASSUME ServerInv, Main \/ KeyboardInterrupt
  PROVE  ServerInv'
<1>1. CASE StartTransport
  <2>1. /\ main = "starting" /\ main' = "started" /\ reader' = "reading"
        /\ UNCHANGED <<lines, stdin, line, queue, closed, broken, said, announced, answered>>
    BY <1>1 DEF StartTransport, frontend, agent
  <2>2. reader = "off"
    BY <2>1 DEF ServerInv, PhaseInv
  <2>3. ServerTypeOK' /\ NumberedInv' /\ PhaseInv'
    BY <2>1, <2>2 DEF ServerInv, ServerTypeOK, NumberedInv, PhaseInv
  <2>4. QueueInv' /\ AnsweredInv'
    BY <2>1, <2>2 DEF ServerInv, QueueInv, InterruptPending, AnsweredInv, Finished
  <2>5. QED
    BY <2>3, <2>4 DEF ServerInv
<1>2. CASE MakeAgent \/ BeginRunning \/ LeaveLoop \/ KeyboardInterrupt \/ Stop \/ JoinReader
  <2>1. UNCHANGED served
    BY <1>2 DEF MakeAgent, BeginRunning, LeaveLoop, KeyboardInterrupt, Stop, JoinReader,
       served, frontend, agent
  <2>2. main' \in {"init", "starting"} => main = "init"
    BY <1>2 DEF MakeAgent, BeginRunning, LeaveLoop, KeyboardInterrupt, Stop, JoinReader
  <2>3. QED
    BY <2>1, <2>2, SameService DEF ServerInv, PhaseInv
<1>3. QED
  BY <1>1, <1>2 DEF Main

-----------------------------------------------------------------------------
(* The reader thread                                                       *)

\* Reading a line: the reader is done with the one before it.
LEMMA Reading ==
  ASSUME ServerInv, reader = "blocked", stdin # <<>>,
         line' = Head(stdin), stdin' = Tail(stdin), queue' = Append(queue, Head(stdin)),
         UNCHANGED <<lines, closed, broken, main, said, announced, answered>>,
         reader' \in {"reading", "taken", "ended"},
         reader' = "taken" <=> Head(stdin).kind \in {"message", "interrupt"}
  PROVE  ServerInv'
<1>1. /\ stdin \in Seq([kind : LineKinds, number : Nat]) /\ Len(stdin) \in Nat \ {0}
      /\ queue \in Seq([kind : LineKinds, number : Nat]) /\ Len(queue) \in Nat
      /\ lines \in 0..MaxLines /\ MaxLines \in Nat
      /\ line.number \in Nat
  BY ServerAssumption DEF ServerInv, ServerTypeOK
<1>2. Head(stdin) \in [kind : LineKinds, number : Nat] /\ Head(stdin) = stdin[1]
  BY <1>1, FirstAndRest
<1>3. Tail(stdin) \in Seq([kind : LineKinds, number : Nat]) /\ Len(Tail(stdin)) = Len(stdin) - 1
      /\ \A i \in 1..Len(Tail(stdin)) : Tail(stdin)[i] = stdin[i + 1]
  BY <1>1, FirstAndRest
<1>4. line'.number = line.number + 1 /\ line'.kind \in LineKinds
  <2>1. line'.kind \in LineKinds
    BY <1>2
  <2>2. stdin[1].number = line.number + 1
    BY <1>1 DEF ServerInv, NumberedInv
  <2>3. line' = stdin[1]
    BY <1>2
  <2>4. QED
    BY <2>1, <2>2, <2>3
<1>5. ServerTypeOK'
  <2>1. queue' \in Seq([kind : LineKinds, number : Nat])
    BY <1>1, <1>2
  <2>2. line' \in [kind : LineKinds \union {"none"}, number : Nat]
    BY <1>2
  <2>3. stdin' \in Seq([kind : LineKinds, number : Nat])
    BY <1>3
  <2>4. QED
    BY <2>1, <2>2, <2>3 DEF ServerInv, ServerTypeOK
<1>6. NumberedInv'
  <2>1. line'.number = lines' - Len(stdin')
    <3>1. line.number = lines - Len(stdin)
      BY DEF ServerInv, NumberedInv
    <3>2. Len(stdin') = Len(stdin) - 1
      BY <1>3
    <3>3. QED
      BY <3>1, <3>2, <1>1, <1>4
  <2>2. ASSUME NEW i \in 1..Len(stdin') PROVE stdin'[i].number = line'.number + i
    <3>1. i + 1 \in 1..Len(stdin) /\ stdin'[i] = stdin[i + 1]
      BY <1>1, <1>3
    <3>2. stdin[i + 1].number = line.number + (i + 1)
      BY <3>1 DEF ServerInv, NumberedInv
    <3>3. i \in Int
      OBVIOUS
    <3>4. line.number \in Int
      BY <1>1
    <3>5. \A a, b \in Int : a + (b + 1) = (a + 1) + b
      OBVIOUS
    <3>6. QED
      BY <3>1, <3>2, <3>3, <3>4, <3>5, <1>4
  <2>3. line'.kind # "none" /\ line'.number # 0
    BY <1>1, <1>4 DEF LineKinds, Ends
  <2>4. QED
    BY <2>1, <2>2, <2>3 DEF NumberedInv
<1>7. PhaseInv'
  BY DEF ServerInv, PhaseInv
<1>8. QueueInv'
  <2>1. ~InterruptPending
    BY DEF ServerInv, QueueInv
  <2>2. Len(queue') = Len(queue) + 1 /\ queue'[Len(queue) + 1] = line'
        /\ \A i \in 1..Len(queue) : queue'[i] = queue[i]
    BY <1>1, <1>2
  <2>3. InterruptPending' <=> line'.kind = "interrupt"
    <3>1. ASSUME NEW i \in 1..Len(queue'), queue'[i].kind = "interrupt" PROVE i = Len(queue) + 1
      BY <2>1, <2>2, <3>1, <1>1 DEF InterruptPending
    <3>2. ASSUME line'.kind = "interrupt" PROVE InterruptPending'
      BY <2>2, <3>2, <1>1 DEF InterruptPending
    <3>3. QED
      BY <2>2, <3>1, <3>2 DEF InterruptPending
  <2>4. QED
    BY <2>3 DEF QueueInv
<1>9. AnsweredInv'
  <2>1. line'.number \in 1..MaxLines
    BY <1>1, <1>4, <1>6 DEF NumberedInv
  <2>2. closed[line'.number] = 0
    BY <2>1, <1>1, <1>4 DEF ServerInv, AnsweredInv
  <2>3. ~Finished'
    BY DEF Finished
  <2>4. ASSUME ~broken, NEW n \in 1..MaxLines, n < line'.number PROVE closed[n] <= 1
    <3>1. CASE n < line.number
      BY <2>4, <3>1 DEF ServerInv, AnsweredInv
    <3>2. CASE n = line.number
      <4>1. line.kind # "none"
        BY <3>2, <2>4 DEF ServerInv, NumberedInv
      <4>2. closed[line.number] = IF Finished THEN 1 ELSE 0
        BY <4>1, <2>4 DEF ServerInv, AnsweredInv
      <4>3. QED
        BY <4>2, <3>2
    <3>3. QED
      BY <3>1, <3>2, <2>4, <1>4, <1>1
  <2>5. ASSUME NEW n \in 1..MaxLines, n > line'.number PROVE closed[n] = 0
    BY <2>5, <1>4, <1>1 DEF ServerInv, AnsweredInv
  <2>6. QED
    BY <2>2, <2>3, <2>4, <2>5 DEF AnsweredInv
<1>10. QED
  BY <1>5, <1>6, <1>7, <1>8, <1>9 DEF ServerInv

LEMMA ReadEndServes ==
  ASSUME ServerInv, ReadEnd
  PROVE  ServerInv'
BY Reading DEF ReadEnd, agent, Ends

LEMMA ReadLineServes ==
  ASSUME ServerInv, ReadLine
  PROVE  ServerInv'
<1>1. Head(stdin).kind \in LineKinds
  <2>1. stdin \in Seq([kind : LineKinds, number : Nat]) /\ stdin # <<>>
    BY DEF ReadLine, ServerInv, ServerTypeOK
  <2>2. Head(stdin) \in [kind : LineKinds, number : Nat]
    BY <2>1, FirstAndRest
  <2>3. QED
    BY <2>2
<1>2. Head(stdin).kind \in {"message", "interrupt", "blank"}
  BY <1>1 DEF ReadLine, LineKinds
<1>3. QED
  BY <1>2, Reading DEF ReadLine, agent

\* Dealing with the current line: what is left to show when nothing but the reader, the
\* generator, the queue and the answers change.
LEMMA Dealt ==
  ASSUME ServerInv, UNCHANGED <<lines, stdin, line, broken, main>>,
         announced' \in Nat, answered' \in Nat,
         line.kind # "none", reader # "off", reader' \in {"reading", "resuming", "yielded", "ended"},
         queue' = queue \/ queue' = <<>>, QueueInv', PhaseInv',
         closed' = closed \/ closed' = [closed EXCEPT ![line.number] = @ + 1],
         ~broken => closed'[line.number] = IF Finished' THEN 1 ELSE 0
  PROVE  ServerInv'
<1>1. line.number \in 1..MaxLines
  BY CurrentLine
<1>2. ServerTypeOK' /\ NumberedInv'
  <2>1. closed' \in [1..MaxLines -> Nat]
    BY <1>1 DEF ServerInv, ServerTypeOK
  <2>2. queue' \in Seq([kind : LineKinds, number : Nat])
    <3>1. queue \in Seq([kind : LineKinds, number : Nat])
      BY DEF ServerInv, ServerTypeOK
    <3>2. <<>> \in Seq([kind : LineKinds, number : Nat])
      OBVIOUS
    <3>3. QED
      BY <3>1, <3>2
  <2>3. QED
    BY <2>1, <2>2 DEF ServerInv, ServerTypeOK, NumberedInv
<1>3. \A n \in 1..MaxLines : n # line.number => closed'[n] = closed[n]
  BY <1>1 DEF ServerInv, ServerTypeOK
<1>4. AnsweredInv'
  BY <1>1, <1>3 DEF ServerInv, AnsweredInv
<1>5. QED
  BY <1>2, <1>4 DEF ServerInv

LEMMA OnInterruptServes ==
  ASSUME ServerInv, OnInterrupt
  PROVE  ServerInv'
<1>1. /\ reader = "taken" /\ line.kind = "interrupt" /\ queue' = <<>> /\ reader' = "reading"
      /\ UNCHANGED <<lines, stdin, line, broken, main, said, announced, answered>>
  BY DEF OnInterrupt, DrainPendingInterrupts, frontend, agent
<1>2. InterruptPending
  BY <1>1 DEF ServerInv, QueueInv
<1>3. closed' = IF ~broken THEN [closed EXCEPT ![line.number] = @ + 1] ELSE closed
  BY <1>2 DEF OnInterrupt, Send, Raises, Closing
<1>4. ~broken => closed[line.number] = 0
  BY <1>1 DEF ServerInv, AnsweredInv, Finished
<1>5. ~broken => closed'[line.number] = 1
  BY <1>1, <1>3, <1>4, CurrentLine DEF ServerInv, ServerTypeOK
<1>6. Finished'
  BY <1>1 DEF Finished
<1>7. QueueInv' /\ PhaseInv'
  BY <1>1 DEF QueueInv, InterruptPending, ServerInv, PhaseInv
<1>8. announced' \in Nat /\ answered' \in Nat
  BY <1>1 DEF ServerInv, ServerTypeOK
<1>9. QED
  BY <1>1, <1>3, <1>5, <1>6, <1>7, <1>8, Dealt

LEMMA HandleInputServes ==
  ASSUME ServerInv, HandleInput
  PROVE  ServerInv'
<1>1. /\ reader = "taken" /\ line.kind = "message" /\ reader' = "resuming"
      /\ UNCHANGED <<lines, stdin, line, broken, main, said, announced, answered, queue, closed>>
  BY DEF HandleInput, frontend, agent
<1>2. said \in {"nothing", "closed"}
  BY <1>1 DEF ServerInv, PhaseInv
<1>3. ~Finished /\ ~Finished'
  BY <1>1, <1>2 DEF Finished, LastSaid
<1>4. ~broken => closed'[line.number] = 0
  BY <1>1, <1>3 DEF ServerInv, AnsweredInv
<1>5. QueueInv' /\ PhaseInv'
  BY <1>1 DEF QueueInv, InterruptPending, ServerInv, PhaseInv
<1>6. announced' \in Nat /\ answered' \in Nat
  BY <1>1 DEF ServerInv, ServerTypeOK
<1>7. QED
  BY <1>1, <1>3, <1>4, <1>5, <1>6, Dealt

LEMMA YieldServes ==
  ASSUME ServerInv, Yield
  PROVE  ServerInv'
<1>1. /\ reader = "resuming" /\ reader' = "yielded"
      /\ UNCHANGED <<lines, stdin, line, broken, main, queue, closed>>
      /\ Agent!Ask \/ Agent!Delta \/ Agent!Answer \/ Agent!Result \/ Agent!Acknowledge \/ Agent!Fail
  BY DEF Yield, frontend
<1>2. line.kind = "message"
  BY <1>1 DEF ServerInv, PhaseInv
<1>3. ~LastSaid
  BY <1>1 DEF ServerInv, ServerTypeOK, LastSaid, Agent!Ask, Agent!Delta, Agent!Answer, Agent!Result,
     Agent!Acknowledge, Agent!Fail
<1>4. announced' \in Nat /\ answered' \in Nat
  <2>1. announced \in Nat /\ answered \in Nat
    BY DEF ServerInv, ServerTypeOK
  <2>2. CASE Agent!Answer
    BY <2>2 DEF Agent!Answer
  <2>3. CASE Agent!Result
    BY <2>1, <2>3 DEF Agent!Result
  <2>4. CASE Agent!Ask \/ Agent!Delta \/ Agent!Acknowledge \/ Agent!Fail
    BY <2>4 DEF Agent!Ask, Agent!Delta, Agent!Acknowledge, Agent!Fail, Agent!Say
  <2>5. QED
    BY <1>1, <2>2, <2>3, <2>4
<1>5. ~Finished /\ ~Finished'
  BY <1>1, <1>3 DEF Finished
<1>6. ~broken => closed'[line.number] = 0
  BY <1>1, <1>2, <1>5 DEF ServerInv, AnsweredInv
<1>7. QueueInv' /\ PhaseInv'
  BY <1>1, <1>2 DEF QueueInv, InterruptPending, ServerInv, PhaseInv
<1>8. QED
  BY <1>1, <1>2, <1>5, <1>6, <1>7, <1>4, Dealt

LEMMA TurnOverServes ==
  ASSUME ServerInv, TurnOver
  PROVE  ServerInv'
<1>1. /\ reader = "resuming" /\ reader' = "reading"
      /\ UNCHANGED <<lines, stdin, line, broken, main, queue, closed>>
      /\ Agent!End
  BY DEF TurnOver, frontend
<1>2. line.kind = "message"
  BY <1>1 DEF ServerInv, PhaseInv
<1>3. LastSaid /\ said' = "nothing" /\ announced' = 0 /\ answered' = 0
  BY <1>1 DEF LastSaid, Agent!End, Agent!Say
<1>4. Finished /\ Finished'
  BY <1>1, <1>2, <1>3 DEF Finished
<1>5. ~broken => closed'[line.number] = 1
  BY <1>1, <1>2, <1>4 DEF ServerInv, AnsweredInv
<1>6. QueueInv' /\ PhaseInv'
  BY <1>1, <1>2, <1>3 DEF QueueInv, InterruptPending, ServerInv, PhaseInv
<1>7. QED
  BY <1>1, <1>2, <1>3, <1>4, <1>5, <1>6, Dealt

LEMMA BetweenLinesServes ==
  ASSUME ServerInv, AwaitLine \/ ReaderStops
  PROVE  ServerInv'
<1>1. /\ reader = "reading" /\ reader' \in {"blocked", "ended"}
      /\ UNCHANGED <<lines, stdin, line, broken, main, queue, closed, said, announced, answered>>
  BY DEF AwaitLine, ReaderStops, frontend, agent
<1>2. ServerTypeOK' /\ NumberedInv' /\ PhaseInv'
  BY <1>1 DEF ServerInv, ServerTypeOK, NumberedInv, PhaseInv
<1>3. QueueInv'
  BY <1>1 DEF ServerInv, QueueInv, InterruptPending
<1>4. AnsweredInv'
  BY <1>1 DEF ServerInv, AnsweredInv, Finished
<1>5. QED
  BY <1>2, <1>3, <1>4 DEF ServerInv

LEMMA ForwardServes ==
  ASSUME ServerInv, Forward
  PROVE  ServerInv'
<1>1. /\ reader = "yielded" /\ queue' = <<>>
      /\ UNCHANGED <<lines, stdin, line, broken, main>>
  BY DEF Forward, DrainPendingInterrupts, frontend
<1>2. line.kind = "message" /\ ~InterruptPending /\ ~Finished
  BY <1>1 DEF ServerInv, PhaseInv, QueueInv, Finished
<1>3. PICK kind \in Projections :
        /\ closed' = IF ~broken /\ kind \in {"done", "error"}
                       THEN [closed EXCEPT ![line.number] = @ + 1] ELSE closed
        /\ IF kind = "nothing" \/ ~broken
           THEN reader' = "resuming" /\ UNCHANGED <<said, announced, answered>>
           ELSE reader' = "reading" /\ said' = "closed" /\ announced' = 0 /\ answered' = 0
  BY <1>2 DEF Forward, Send, Raises, Closing, agent, Agent!Close, Agent!Say
<1>4. LastSaid <=> kind \in {"done", "error"}
  BY <1>3 DEF Projections, LastSaid
<1>5. ~broken => closed[line.number] = 0
  BY <1>2 DEF ServerInv, AnsweredInv
<1>6. ASSUME ~broken PROVE closed'[line.number] = IF Finished' THEN 1 ELSE 0
  <2>1. Finished' <=> kind \in {"done", "error"}
    BY <1>1, <1>3, <1>4, <1>6 DEF Finished, LastSaid
  <2>2. line.number \in 1..MaxLines
    BY <1>2, CurrentLine
  <2>3. QED
    BY <2>1, <2>2, <1>3, <1>5, <1>6 DEF ServerInv, ServerTypeOK
<1>7. QueueInv' /\ PhaseInv'
  BY <1>1, <1>2, <1>3 DEF QueueInv, InterruptPending, ServerInv, PhaseInv
<1>8. closed' = closed \/ closed' = [closed EXCEPT ![line.number] = @ + 1]
  BY <1>3
<1>9. reader' \in {"reading", "resuming"} /\ announced' \in Nat /\ answered' \in Nat
  BY <1>3 DEF ServerInv, ServerTypeOK
<1>10. QED
  BY <1>1, <1>2, <1>6, <1>7, <1>8, <1>9, Dealt

-----------------------------------------------------------------------------

LEMMA StepServes ==
  ASSUME ServerInv, [ServerNext]_serverVars
  PROVE  ServerInv'
<1>1. CASE UNCHANGED serverVars
  BY <1>1, SameService DEF serverVars, frontend, agent, served, ServerInv, PhaseInv
<1>2. CASE WriteLine \/ StopsReading
  BY <1>2, WriteLineServes, StopsReadingServes
<1>3. CASE KeyboardInterrupt \/ Main
  BY <1>3, MainServes
<1>4. CASE Reader
  BY <1>4, ReadEndServes, ReadLineServes, BetweenLinesServes, OnInterruptServes,
     HandleInputServes, YieldServes, TurnOverServes, ForwardServes DEF Reader
<1>5. QED
  BY <1>1, <1>2, <1>3, <1>4 DEF ServerNext

\* The reader's thread deals with one line at a time, and answers it once.
THEOREM ServerHolds == ServerSpec => []ServerInv
<1>1. QED
  BY InitiallyServes, StepServes, PTL DEF ServerSpec

\* Every line gives the prompt back once, in the order of the lines, as long as the
\* frontend reads: the draining of the queue drops none (stdio_transport.py), and no turn
\* is stopped by an interrupt (message_handler.py).
THEOREM LinesStayInOrder == ServerSpec => []LinesAreAnsweredInOrder
<1>1. ServerInv => LinesAreAnsweredInOrder
  <2>1. SUFFICES ASSUME ServerInv PROVE LinesAreAnsweredInOrder
    OBVIOUS
  <2>2. \A n \in 1..MaxLines : n > line.number => closed[n] = 0
    BY <2>1 DEF ServerInv, AnsweredInv
  <2>3. ~broken => \A n \in Read : closed[n] <= 1
    <3>1. line.number \in Nat /\ lines \in 0..MaxLines /\ MaxLines \in Nat /\ Len(stdin) \in Nat
          /\ line.number = lines - Len(stdin)
      BY <2>1, ServerAssumption DEF ServerInv, ServerTypeOK, NumberedInv
    <3>2. ASSUME ~broken, NEW n \in Read PROVE closed[n] <= 1
      <4>1. n \in 1..MaxLines /\ n <= line.number
        BY <3>1 DEF Read
      <4>2. CASE n < line.number
        BY <4>1, <4>2, <3>2, <2>1 DEF ServerInv, AnsweredInv
      <4>3. CASE n = line.number
        <5>1. line.kind # "none"
          BY <4>1, <4>3, <2>1 DEF ServerInv, NumberedInv
        <5>2. closed[n] = IF Finished THEN 1 ELSE 0
          BY <5>1, <4>3, <3>2, <2>1 DEF ServerInv, AnsweredInv
        <5>3. QED
          BY <5>2
      <4>4. QED
        BY <4>1, <4>2, <4>3, <3>1
    <3>3. QED
      BY <3>2
  <2>4. ~broken /\ ~Dealing /\ line.kind \in {"message", "interrupt"} => closed[line.number] = 1
    BY <2>1 DEF ServerInv, ServerTypeOK, AnsweredInv, Finished, Dealing
  <2>5. reader \in {"resuming", "yielded"} => ~InterruptPending
    BY <2>1 DEF ServerInv, QueueInv
  <2>6. QED
    BY <2>2, <2>3, <2>4, <2>5 DEF LinesAreAnsweredInOrder
<1>2. QED
  BY <1>1, ServerHolds, PTL
===============================================================================
