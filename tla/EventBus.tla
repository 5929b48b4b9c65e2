------------------------------ MODULE EventBus ------------------------------
(***************************************************************************)
(* core/event_bus/event_bus.py: subscriptions, once-subscriptions and      *)
(* events published at the same time.                                      *)
(*                                                                         *)
(* A publish takes a copy of the wildcard subscriptions, runs them, takes  *)
(* a copy of the event's own, runs them, and then removes those that were  *)
(* to run once.  It holds the lock only while it copies or removes, so     *)
(* several are under way at a time: one on each thread, or one within a    *)
(* handler of another.  A task may be cancelled while a handler runs, and  *)
(* its publish ends there.  One event type is modelled.                    *)
(***************************************************************************)
EXTENDS Integers, Sequences, Loops

CONSTANTS
  Publishers,        \* publishes that may be under way at a time
  Handlers,          \* what is subscribed
  MaxSubscriptions,  \* bound: subscriptions made
  MaxPublishes       \* bound: publishes begun

ASSUME BusAssumption == MaxSubscriptions \in Nat /\ MaxPublishes \in Nat

VARIABLES
  subscriptions, \* _subscriptions of the event type
  wildcards,     \* _wildcard_subscriptions
  made,          \* how many subscriptions have been made
  begun,         \* how many publishes have begun
  phase,         \* of each publisher: "idle", "wildcards", "typed"
  toRun,         \* of each publisher: what is left of its copy
  toRemove,      \* of each publisher: its to_remove
  runs,          \* history: how often each publisher ran each subscription
  cancelled      \* history: how many publishes of each publisher were cancelled

busVars ==
  <<subscriptions, wildcards, made, begun, phase, toRun, toRemove, runs, cancelled>>

Ids == 1..MaxSubscriptions

\* Subscription, a dataclass: two are equal when all but `id`, which it does not have, are.
\* It accepts every event, or has the filter that rejects them.
Subscription(handler, accepts, once) ==
  [id |-> made + 1, handler |-> handler, accepts |-> accepts, once |-> once]
Equal(s, t) == <<s.handler, s.accepts, s.once>> = <<t.handler, t.accepts, t.once>>

BusInit ==
  /\ subscriptions = <<>> /\ wildcards = <<>> /\ made = 0 /\ begun = 0
  /\ phase = [p \in Publishers |-> "idle"]
  /\ toRun = [p \in Publishers |-> <<>>] /\ toRemove = [p \in Publishers |-> <<>>]
  /\ runs = [p \in Publishers |-> [i \in Ids |-> 0]]
  /\ cancelled = [p \in Publishers |-> 0]

Publishing == <<begun, phase, toRun, toRemove, runs, cancelled>>

\* Subscribing may also be what a handler does, between two steps of its publish.
Subscribe(handler, accepts, once) ==
  /\ made < MaxSubscriptions
  /\ made' = made + 1
  /\ subscriptions' = Append(subscriptions, Subscription(handler, accepts, once))
  /\ UNCHANGED <<wildcards, Publishing>>

SubscribeWildcard(handler) ==
  /\ made < MaxSubscriptions
  /\ made' = made + 1
  /\ wildcards' = Append(wildcards, Subscription(handler, TRUE, FALSE))
  /\ UNCHANGED <<subscriptions, Publishing>>

\* What is left without a handler's subscriptions.
Others(list, handler) ==
  Keeping(list, {i \in 1..Len(list) : list[i].handler # handler})

\* unsubscribe: every subscription of the handler goes, those made since included.
Unsubscribe(handler) ==
  /\ subscriptions' = Others(subscriptions, handler)
  /\ UNCHANGED <<wildcards, made, Publishing>>

UnsubscribeWildcard(handler) ==
  /\ wildcards' = Others(wildcards, handler)
  /\ UNCHANGED <<subscriptions, made, Publishing>>

Clear ==
  /\ subscriptions' = <<>> /\ wildcards' = <<>>
  /\ UNCHANGED <<made, Publishing>>

Publish(p) ==
  /\ phase[p] = "idle" /\ begun < MaxPublishes
  /\ begun' = begun + 1
  /\ phase' = [phase EXCEPT ![p] = "wildcards"]
  /\ toRun' = [toRun EXCEPT ![p] = wildcards]
  /\ UNCHANGED <<subscriptions, wildcards, made, toRemove, runs, cancelled>>

Ran(p, s) == runs' = IF s.accepts THEN [runs EXCEPT ![p][s.id] = @ + 1] ELSE runs

\* _execute_handler and _aexecute_handler: the filter decides, and an Exception is only
\* logged.  A once-subscription is done with in any case.
ExecuteHandler(p) ==
  /\ toRun[p] # <<>>
  /\ LET s == Head(toRun[p]) IN
       /\ Ran(p, s)
       /\ toRemove' = IF s.once THEN [toRemove EXCEPT ![p] = Append(@, s)] ELSE toRemove
  /\ toRun' = [toRun EXCEPT ![p] = Tail(@)]
  /\ UNCHANGED <<subscriptions, wildcards, made, begun, phase, cancelled>>

\* A CancelledError, which is no Exception, comes out of a handler and leaves apublish as
\* well: the once-subscriptions it has run, this one included, are not removed.
CancelPublish(p) ==
  /\ toRun[p] # <<>> /\ Head(toRun[p]).accepts
  /\ Ran(p, Head(toRun[p]))
  /\ cancelled' = [cancelled EXCEPT ![p] = @ + 1]
  /\ phase' = [phase EXCEPT ![p] = "idle"]
  /\ toRun' = [toRun EXCEPT ![p] = <<>>]
  /\ toRemove' = [toRemove EXCEPT ![p] = <<>>]
  /\ UNCHANGED <<subscriptions, wildcards, made, begun>>

TakeTyped(p) ==
  /\ phase[p] = "wildcards" /\ toRun[p] = <<>>
  /\ phase' = [phase EXCEPT ![p] = "typed"]
  /\ toRun' = [toRun EXCEPT ![p] = subscriptions]
  /\ UNCHANGED <<subscriptions, wildcards, made, begun, toRemove, runs, cancelled>>

\* list.remove: the first that is equal.
WithoutFirst(list, s) ==
  LET equal == {i \in 1..Len(list) : Equal(list[i], s)}
  IN  Keeping(list, {i \in 1..Len(list) : i \in equal => \E j \in equal : j < i})

\* Mutant: of several that are equal one is removed.
Removed_OnlyFirst(list, done) == IF done = <<>> THEN list ELSE WithoutFirst(list, Head(done))
Removed(list, done) ==
  LET left[n \in 0..Len(done)] ==
        IF n = 0 THEN list ELSE WithoutFirst(left[n - 1], done[n])
  IN  left[Len(done)]

EndPublish(p) ==
  /\ phase[p] = "typed" /\ toRun[p] = <<>>
  /\ subscriptions' = Removed(subscriptions, toRemove[p])
  /\ phase' = [phase EXCEPT ![p] = "idle"]
  /\ toRemove' = [toRemove EXCEPT ![p] = <<>>]
  /\ UNCHANGED <<wildcards, made, begun, toRun, runs, cancelled>>

BusNext ==
  \/ \E h \in Handlers, accepts, once \in BOOLEAN : Subscribe(h, accepts, once)
  \/ \E h \in Handlers : SubscribeWildcard(h) \/ Unsubscribe(h) \/ UnsubscribeWildcard(h)
  \/ Clear
  \/ \E p \in Publishers :
       Publish(p) \/ ExecuteHandler(p) \/ CancelPublish(p) \/ TakeTyped(p) \/ EndPublish(p)

BusSpec == BusInit /\ [][BusNext]_busVars
-----------------------------------------------------------------------------
(* Properties                                                              *)

OnceIds ==
  LET all == {subscriptions[i] : i \in 1..Len(subscriptions)} \union
             UNION {{toRun[p][i] : i \in 1..Len(toRun[p])} \union
                    {toRemove[p][i] : i \in 1..Len(toRemove[p])} : p \in Publishers}
  IN  {s.id : s \in {t \in all : t.once}}

\* A once-subscription can be run several times, by publishes that are under way at the
\* same time, but by each publisher once only: although list.remove goes by equality, and
\* another that is equal may have been subscribed meanwhile, what a publish has run is not
\* there for the next of the same thread.  Each of its publishes that is cancelled may run
\* it once more.
OnceIsOncePerPublisher ==
  \A p \in Publishers, i \in OnceIds : runs[p][i] <= 1 + cancelled[p]
=============================================================================
