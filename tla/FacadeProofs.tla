---------------------------- MODULE FacadeProofs ----------------------------
(* What TLAPS proves of Facade for every value of its constants. *)
EXTENDS Facade, FiniteSetTheorems, TLAPS

Domains ==
  /\ DOMAIN pc = Callers /\ DOMAIN work = Callers
  /\ DOMAIN registry = Hooks /\ DOMAIN routed = Hooks

\* A webhook in the registry has been registered with the dispatcher.
Known ==
  \A h \in Hooks : registry[h] # None =>
    registry[h] \in EntryShape /\ routed[h] \in Targets

\* An update keeps the registry locked from its first write to its second,
\* and pushes what it wrote.
Pushing ==
  /\ registryLock # None => registryLock \in Callers /\ pc[registryLock] = "push"
  /\ \A c \in Callers : pc[c] = "push" =>
       /\ registryLock = c
       /\ work[c].hook \in Hooks /\ work[c].entry \in EntryShape
       /\ registry[work[c].hook] = work[c].entry

\* A webhook that has yet to be added is already routed as its entry says, and
\* nobody else adds it.
Adding ==
  \A c \in Callers : pc[c] = "add" =>
    /\ work[c].hook \in Hooks /\ work[c].entry \in EntryShape
    /\ registry[work[c].hook] = None
    /\ routed[work[c].hook] = work[c].entry.target
    /\ \A d \in Callers : pc[d] = "add" /\ work[d].hook = work[c].hook => d = c

\* The registry and the dispatcher differ only in the webhook being pushed.
Agreeing ==
  closed \/ \A h \in Hooks :
    \/ registry[h] # None => routed[h] = registry[h].target
    \/ registryLock # None /\ work[registryLock].hook = h

\* The inductive invariant behind StoresAgree.
StoresInv == Domains /\ Known /\ Pushing /\ Adding /\ Agreeing

\* Handlers other than c stand still.
OnlyMoves(c, place) ==
  /\ DOMAIN pc' = Callers /\ DOMAIN work' = Callers
  /\ pc'[c] = place
  /\ \A d \in Callers \ {c} : pc'[d] = pc[d] /\ work'[d] = work[d]

LEMMA GotoMoves ==
  ASSUME StoresInv, NEW c \in Callers, NEW place, NEW locals,
         Goto(c, place, locals)
  PROVE  /\ OnlyMoves(c, place)
         /\ place # "idle" => work'[c] = locals
BY DEF StoresInv, Domains, Goto, OnlyMoves

\* While the registry is free, nobody is pushing.
LEMMA FreeMeansNoPush ==
  ASSUME StoresInv, registryLock = None
  PROVE  \A d \in Callers : pc[d] # "push"
BY FacadeAssumption DEF StoresInv, Pushing

\* A step of one handler outside the two critical places, which leaves the
\* webhooks alone, keeps the invariant.
LEMMA HandlerKeepsStoresInv ==
  ASSUME StoresInv, NEW c \in Callers, pc[c] \notin {"push", "add"},
         NEW place, place \notin {"push", "add"}, NEW locals,
         Goto(c, place, locals), UNCHANGED <<routed, closed, hooks>>
  PROVE  StoresInv'
<1>1. UNCHANGED <<routed, closed, registry, registryLock>>
      BY DEF hooks
<1>2. OnlyMoves(c, place)
      BY GotoMoves
<1>3. registryLock # c
      BY FacadeAssumption DEF StoresInv, Pushing
<1> USE <1>1, <1>2, <1>3 DEF StoresInv, OnlyMoves
<1>4. Domains' /\ Known'  BY DEF Domains, Known
<1>5. Pushing'            BY DEF Pushing
<1>6. Adding'             BY DEF Adding
<1>7. Agreeing'           BY DEF Agreeing, Pushing
<1> QED BY <1>4, <1>5, <1>6, <1>7
-----------------------------------------------------------------------------
\* The steps of handlers that have nothing to do with the webhooks.
LEMMA OtherSteps ==
  ASSUME StoresInv, NEW c \in Callers, Proceed(c) \/ Arrive(c),
         ~AddToRegistry(c), ~PushToDispatcher(c),
         \A h \in Hooks : /\ \A entry \in Entries : ~CreateWebhook(c, h, entry)
                          /\ \A u \in Updates : ~UpdateWebhook(c, h, u)
  PROVE  StoresInv'
<1>1. CASE UNCHANGED <<pc, work, routed, closed, hooks>>
      BY <1>1 DEF StoresInv, Domains, Known, Pushing, Adding, Agreeing, hooks
<1>2. CASE /\ pc[c] \notin {"push", "add"}
           /\ \E place, locals : place \notin {"push", "add"} /\ Goto(c, place, locals)
           /\ UNCHANGED <<routed, closed, hooks>>
      BY <1>2, HandlerKeepsStoresInv
<1>3. CASE Proceed(c)
  <2>1. CASE SecondTransition(c) \/ SecondRefused(c) \/ Build(c)
        BY <2>1, <1>2 DEF SecondTransition, SecondRefused, Build
  <2>2. CASE ReadSubscribers(c) \/ RecordLast(c) \/ ReactivateQueue(c)
        BY <2>2, <1>2 DEF ReadSubscribers, RecordLast, ReactivateQueue
  <2>3. ASSUME NEW h \in Hooks, EnqueueTo(c, h) \/ ReplayTo(c, h)
        PROVE  StoresInv'
        BY <2>3, <1>2 DEF EnqueueTo, ReplayTo
  <2> QED BY <1>3, <2>1, <2>2, <2>3 DEF Proceed
<1>4. CASE Arrive(c)
  <2>1. ASSUME NEW ch \in ChargeIds, NEW due \in Times, CreatePayment(c, ch, due)
        PROVE  StoresInv'
        BY <2>1, <1>1 DEF CreatePayment
  <2>2. ASSUME NEW ch, NEW to, Trigger(c, ch, to) PROVE StoresInv'
        BY <2>2, <1>2 DEF Trigger
  <2>3. ASSUME NEW ch, OutOfOrder(c, ch) \/ Replay(c, ch) PROVE StoresInv'
        BY <2>3, <1>2 DEF OutOfOrder, Replay
  <2>4. ASSUME NEW target \in Times, ClockAdvance(c, target) PROVE StoresInv'
        BY <2>4, <1>2 DEF ClockAdvance
  <2> QED BY <1>4, <2>1, <2>2, <2>3, <2>4 DEF Arrive
<1> QED BY <1>3, <1>4

\* RegisterEndpoint for a webhook that is not in the registry yet
\* (webhook.go:256-263).
LEMMA CreateKeepsStoresInv ==
  ASSUME StoresInv, NEW c \in Callers, NEW h \in Hooks, NEW entry \in Entries,
         CreateWebhook(c, h, entry)
  PROVE  StoresInv'
<1>1. entry \in EntryShape /\ entry.target \in Targets
      BY FacadeAssumption DEF EntryShape
<1>2. /\ UNCHANGED <<closed, registry, registryLock>>
      /\ routed' = [routed EXCEPT ![h] = entry.target]
      /\ routed[h] = None /\ pc[c] = "idle"
      BY DEF CreateWebhook, hooks
<1>3. /\ OnlyMoves(c, "add")
      /\ work'[c].hook = h /\ work'[c].entry = entry
  <2>1. Goto(c, "add", [Idle EXCEPT !.hook = h, !.entry = entry])
        BY DEF CreateWebhook
  <2>2. /\ OnlyMoves(c, "add")
        /\ work'[c] = [Idle EXCEPT !.hook = h, !.entry = entry]
        BY <2>1, GotoMoves
  <2> QED BY <2>2 DEF Idle
<1>4. registry[h] = None
      BY <1>2, FacadeAssumption DEF StoresInv, Known
<1>5. registryLock # c
      BY <1>2, FacadeAssumption DEF StoresInv, Pushing
<1>6. \A d \in Callers : pc[d] = "add" => work[d].hook # h
  <2> SUFFICES ASSUME NEW d \in Callers, pc[d] = "add", work[d].hook = h
               PROVE  FALSE
      OBVIOUS
  <2>1. work[d].entry \in EntryShape /\ routed[h] = work[d].entry.target
        BY DEF StoresInv, Adding
  <2>2. work[d].entry.target \in Targets
        BY <2>1 DEF EntryShape
  <2> QED BY <1>2, <2>1, <2>2, FacadeAssumption
<1> USE DEF StoresInv, OnlyMoves
<1>7. Domains'   BY <1>2, <1>3 DEF Domains
<1>8. Known'     BY <1>1, <1>2, <1>4 DEF Known, Domains
<1>9. Pushing'   BY <1>2, <1>3, <1>5 DEF Pushing
<1>10. Adding'   BY <1>1, <1>2, <1>3, <1>4, <1>6 DEF Adding, Domains
<1>11. Agreeing'
       BY <1>2, <1>3, <1>4, <1>5 DEF Agreeing, Domains, Pushing
<1> QED BY <1>7, <1>8, <1>9, <1>10, <1>11

\* registry.add (webhook.go:265).
LEMMA AddKeepsStoresInv ==
  ASSUME StoresInv, NEW c \in Callers, AddToRegistry(c)
  PROVE  StoresInv'
<1> DEFINE h == work[c].hook
<1>1. /\ UNCHANGED <<closed, routed, registryLock>>
      /\ registry' = [registry EXCEPT ![h] = work[c].entry]
      /\ registryLock = None /\ pc[c] = "add"
      BY DEF AddToRegistry, RegistryFree
<1>2. OnlyMoves(c, "idle")
      BY GotoMoves DEF AddToRegistry
<1>3. /\ h \in Hooks /\ work[c].entry \in EntryShape
      /\ routed[h] = work[c].entry.target /\ routed[h] \in Targets
      /\ \A d \in Callers : pc[d] = "add" /\ work[d].hook = h => d = c
      BY <1>1 DEF StoresInv, Adding, EntryShape
<1>4. \A d \in Callers : pc[d] # "push"
      BY <1>1, FreeMeansNoPush
<1> HIDE DEF h
<1> USE DEF StoresInv, OnlyMoves
<1>5. Domains'  BY <1>1, <1>2 DEF Domains
<1>6. Known'    BY <1>1, <1>3 DEF Known, Domains
<1>7. Pushing'  BY <1>1, <1>2, <1>4 DEF Pushing
<1>8. Adding'   BY <1>1, <1>2, <1>3 DEF Adding, Domains
<1>9. Agreeing' BY <1>1, <1>3 DEF Agreeing, Domains
<1> QED BY <1>5, <1>6, <1>7, <1>8, <1>9

\* webhooks.update up to the call of UpdateEndpoint (webhook.go:289-313).
LEMMA UpdateKeepsStoresInv ==
  ASSUME StoresInv, NEW c \in Callers, NEW h \in Hooks, NEW u \in Updates,
         UpdateWebhook(c, h, u)
  PROVE  StoresInv'
<1> DEFINE entry == Updated(registry[h], u)
<1>1. /\ registryLock = None /\ pc[c] = "idle" /\ registry[h] # None
      /\ registry' = [registry EXCEPT ![h] = entry]
      /\ UNCHANGED <<routed, closed>>
      BY DEF UpdateWebhook, RegistryFree
<1>2. registry[h] \in EntryShape /\ routed[h] \in Targets
      BY <1>1 DEF StoresInv, Known
<1>3. entry \in EntryShape
      BY <1>2, FacadeAssumption DEF Updated, Or, EntryShape
<1>4. \A d \in Callers : pc[d] # "push"
      BY <1>1, FreeMeansNoPush
<1>5. \A d \in Callers : pc[d] = "add" => work[d].hook # h
      BY <1>1 DEF StoresInv, Adding
<1>6. CASE u.target # None
  <2>1. registryLock' = c
        BY <1>6 DEF UpdateWebhook
  <2>2. /\ OnlyMoves(c, "push")
        /\ work'[c].hook = h /\ work'[c].entry = entry
    <3> DEFINE locals == [Idle EXCEPT !.hook = h, !.entry = entry,
                                      !.resume = u.resume]
    <3>1. Goto(c, "push", locals)
          BY <1>6 DEF UpdateWebhook
    <3>2. locals.hook = h /\ locals.entry = entry
          BY DEF Idle
    <3> HIDE DEF locals
    <3>3. OnlyMoves(c, "push") /\ work'[c] = locals
          BY <3>1, GotoMoves
    <3> QED BY <3>2, <3>3
  <2> HIDE DEF entry
  <2> USE <1>1, <2>1, <2>2 DEF StoresInv, OnlyMoves
  <2>3. Domains'  BY DEF Domains
  <2>4. Known'    BY <1>2, <1>3 DEF Known, Domains
  <2>5. Pushing'  BY <1>3, <1>4 DEF Pushing, Domains
  <2>6. Adding'   BY <1>5 DEF Adding, Domains
  <2>7. Agreeing' BY FacadeAssumption DEF Agreeing, Domains
  <2> QED BY <2>3, <2>4, <2>5, <2>6, <2>7
<1>7. CASE u.target = None
  <2>1. registryLock' = None
        BY <1>1, <1>7 DEF UpdateWebhook
  <2>2. \E place \in {"resume", "idle"} : OnlyMoves(c, place)
        BY <1>7, GotoMoves DEF UpdateWebhook
  <2>3. entry.target = registry[h].target
        BY <1>7 DEF Updated, Or
  <2> HIDE DEF entry
  <2> USE <1>1, <2>1, <2>2 DEF StoresInv, OnlyMoves
  <2>4. Domains'  BY DEF Domains
  <2>5. Known'    BY <1>2, <1>3 DEF Known, Domains
  <2>6. Pushing'  BY <1>4 DEF Pushing, Domains
  <2>7. Adding'   BY <1>5 DEF Adding, Domains
  <2>8. Agreeing' BY <2>3 DEF Agreeing, Domains
  <2> QED BY <2>4, <2>5, <2>6, <2>7, <2>8
<1> QED BY <1>6, <1>7

\* UpdateEndpoint and the unlock (webhook.go:320-329, :71-72).
LEMMA PushKeepsStoresInv ==
  ASSUME StoresInv, NEW c \in Callers, PushToDispatcher(c)
  PROVE  StoresInv'
<1> DEFINE h == work[c].hook
<1>1. /\ UNCHANGED <<closed, registry>> /\ registryLock' = None
      /\ routed' = IF closed THEN routed
                   ELSE [routed EXCEPT ![h] = work[c].entry.target]
      /\ pc[c] = "push"
      BY DEF PushToDispatcher, Released, hooks
<1>2. \E place \in {"resume", "idle"} : OnlyMoves(c, place)
      BY GotoMoves DEF PushToDispatcher
<1>3. /\ registryLock = c /\ work[registryLock].hook = h /\ h \in Hooks
      /\ work[c].entry \in EntryShape /\ registry[h] = work[c].entry
      /\ work[c].entry.target \in Targets
      BY <1>1 DEF StoresInv, Pushing, EntryShape
<1>4. \A d \in Callers \ {c} : pc[d] # "push"
      BY <1>3 DEF StoresInv, Pushing
<1> HIDE DEF h
<1> USE <1>1, <1>2, <1>3 DEF StoresInv, OnlyMoves
<1>5. Domains'  BY DEF Domains
<1>6. Known'    BY DEF Known, Domains
<1>7. Pushing'  BY <1>4 DEF Pushing
<1>8. Adding'
  <2>1. \A d \in Callers : pc[d] = "add" => work[d].hook # h
        BY FacadeAssumption DEF Adding
  <2> QED BY <2>1 DEF Adding, Domains
<1>9. Agreeing' BY DEF Agreeing, Domains
<1> QED BY <1>5, <1>6, <1>7, <1>8, <1>9
-----------------------------------------------------------------------------
LEMMA StoresInvStep == StoresInv /\ [Next]_vars => StoresInv'
<1> SUFFICES ASSUME StoresInv, [Next]_vars PROVE StoresInv'
    OBVIOUS
<1> USE DEF StoresInv, Domains, Known, Pushing, Adding, Agreeing
<1>1. CASE Dispatching \/ UNCHANGED vars
      BY <1>1 DEF Dispatching, vars, hooks
<1>2. CASE CloseDispatcher
      BY <1>2 DEF CloseDispatcher, hooks
<1>3. CASE Restart
      BY <1>3 DEF Restart
<1>4. ASSUME NEW c \in Callers, Arrive(c) \/ Proceed(c) PROVE StoresInv'
      BY <1>4, OtherSteps, CreateKeepsStoresInv, AddKeepsStoresInv,
         UpdateKeepsStoresInv, PushKeepsStoresInv
<1> QED BY <1>1, <1>2, <1>3, <1>4 DEF Next

\* Whenever the registry is unlocked, it and the dispatcher agree on the URL
\* and the token of every webhook, however many updates race
\* (webhook.go:64-69).
THEOREM StoresStayTogether == Spec => []StoresAgree
<1>1. Init => StoresInv
      BY DEF Init, StoresInv, Domains, Known, Pushing, Adding, Agreeing
<1>2. StoresInv => StoresAgree
      BY DEF StoresInv, Agreeing, StoresAgree
<1> QED BY <1>1, <1>2, StoresInvStep, PTL DEF Spec
-----------------------------------------------------------------------------
(* What events say *)

\* Events that tell of the transition they were fired for.
Honest == {ev \in Events : ev.status = ev.type}

\* The locals of a handler at a place: it has what it is about to build, to
\* announce or to replay, and what it counts as sent is queued.
Truthful(place, w, queued) ==
  /\ w.todo \in Seq(Honest) /\ w.events \in Seq(Honest)
  /\ w.subs \subseteq Hooks /\ w.sent \subseteq Hooks
  /\ place = "build" => w.todo # <<>>
  /\ place \in {"second", "subscribers", "enqueue", "record", "replay"} =>
       w.events # <<>>
  /\ place \in {"enqueue", "record"} =>
       \A h \in w.sent : Head(w.events) \in ToSet(queued[h])

HandlersTold == \A c \in Callers : Truthful(pc[c], work[c], accepted)

\* What was recorded as the last event of a charge is queued.
LastTold ==
  /\ DOMAIN lastEvents = ChargeIds
  /\ \A ch \in ChargeIds : lastEvents[ch] # None =>
       /\ lastEvents[ch].event \in Honest /\ lastEvents[ch].hooks \subseteq Hooks
       /\ \A h \in lastEvents[ch].hooks :
            lastEvents[ch].event \in ToSet(accepted[h])

LedgerKeeps == DOMAIN ledger \subseteq ChargeIds /\ IsFiniteSet(DOMAIN ledger)

\* The inductive invariant behind EventsTellTheirTransition and
\* ReplaysAreReplays.
Told ==
  /\ accepted \in [Hooks -> Seq(Honest)]
  /\ HandlersTold /\ LastTold /\ LedgerKeeps

\* Queues only grow, while the process lives.
Grows ==
  /\ accepted' \in [Hooks -> Seq(Honest)]
  /\ \A h \in Hooks : ToSet(accepted[h]) \subseteq ToSet(accepted'[h])

\* An event stays queued behind a new one, and the new one is queued.
LEMMA AppendQueues ==
  ASSUME NEW q \in Seq(Honest), NEW ev \in Honest
  PROVE  /\ Append(q, ev) \in Seq(Honest)
         /\ ToSet(q) \subseteq ToSet(Append(q, ev))
         /\ ev \in ToSet(Append(q, ev))
<1> DEFINE s == Append(q, ev)
<1>1. /\ s \in Seq(Honest) /\ Len(s) = Len(q) + 1 /\ Len(q) \in Nat
      /\ DOMAIN q = 1..Len(q) /\ DOMAIN s = 1..Len(s)
      /\ \A i \in 1..Len(q) : s[i] = q[i]
      /\ s[Len(q) + 1] = ev
      OBVIOUS
<1> HIDE DEF s
<1>2. Len(q) + 1 \in DOMAIN s /\ \A i \in DOMAIN q : i \in DOMAIN s
      BY <1>1
<1>3. ToSet(q) \subseteq ToSet(s) /\ ev \in ToSet(s)
      BY <1>1, <1>2 DEF ToSet
<1> QED BY <1>1, <1>3 DEF s

\* dispatch.Enqueue, for an honest event.
LEMMA AcceptGrows ==
  ASSUME Told, NEW h \in Hooks, NEW ev \in Honest, Accepts(h, ev)
  PROVE  Grows /\ (~closed => ev \in ToSet(accepted'[h]))
<1>1. accepted \in [Hooks -> Seq(Honest)]
      BY DEF Told
<1>2. CASE closed
      BY <1>1, <1>2 DEF Accepts, queues, Grows
<1>3. CASE ~closed
  <2>1. accepted' = [accepted EXCEPT ![h] = Append(accepted[h], ev)]
        BY <1>3 DEF Accepts, Queues!Accept
  <2>2. accepted[h] \in Seq(Honest)
        BY <1>1
  <2> QED BY <1>1, <2>1, <2>2, AppendQueues DEF Grows
<1> QED BY <1>2, <1>3

\* What holds of a handler's locals goes on to hold while queues grow.
LEMMA TruthfulStays ==
  ASSUME Grows, NEW place, NEW w, Truthful(place, w, accepted)
  PROVE  Truthful(place, w, accepted')
BY DEF Grows, Truthful

\* The same holds of the last events.
LEMMA LastStays ==
  ASSUME Told, Grows, UNCHANGED lastEvents
  PROVE  LastTold'
BY DEF Told, Grows, LastTold

\* Nothing is told by a handler that has forgotten its locals.
LEMMA IdleIsTruthful ==
  ASSUME NEW queued
  PROVE  Truthful("idle", Idle, queued)
BY DEF Truthful, Idle

\* A step of one handler keeps what is told if its new locals are truthful.
LEMMA HandlerTells ==
  ASSUME Told, StoresInv, NEW c \in Callers, NEW place, NEW locals,
         Goto(c, place, locals),
         place # "idle" => Truthful(place, locals, accepted'),
         Grows, LastTold', LedgerKeeps'
  PROVE  Told'
<1>1. OnlyMoves(c, place) /\ (place # "idle" => work'[c] = locals)
      BY GotoMoves
<1>2. place = "idle" => work'[c] = Idle
      BY DEF StoresInv, Domains, Goto
<1>3. Truthful(pc'[c], work'[c], accepted')
      BY <1>1, <1>2, IdleIsTruthful DEF OnlyMoves
<1>4. \A d \in Callers \ {c} : Truthful(pc'[d], work'[d], accepted')
      BY <1>1, TruthfulStays DEF OnlyMoves, Told, HandlersTold
<1>5. HandlersTold'
      BY <1>3, <1>4 DEF HandlersTold
<1> QED BY <1>5 DEF Told, Grows

\* A step of one handler that queues nothing and leaves the charges alone.
LEMMA QuietHandlerTells ==
  ASSUME Told, StoresInv, NEW c \in Callers, NEW place, NEW locals,
         Goto(c, place, locals),
         place # "idle" => Truthful(place, locals, accepted),
         UNCHANGED <<accepted, lastEvents, ledger>>
  PROVE  Told'
<1>1. Grows
      BY DEF Told, Grows
<1>2. LastTold' /\ LedgerKeeps'
      BY <1>1, LastStays DEF Told, LedgerKeeps
<1> QED BY <1>1, <1>2, HandlerTells

\* A snapshot is honest.
LEMMA SnapshotIsHonest ==
  ASSUME NEW ch \in ChargeIds, NEW to \in Announced
  PROVE  /\ Snapshot(ch, to) \in Honest /\ Snapshot(ch, to).charge = ch
         /\ <<Snapshot(ch, to)>> \in Seq(Honest) /\ <<Snapshot(ch, to)>> # <<>>
BY DEF Snapshot, Honest, Events, Statuses

\* The ledger's operations keep the charges finite and known.
LEMMA LedgerStays ==
  ASSUME LedgerKeeps,
         \/ \E ch \in ChargeIds : \E due : Books!Open(ch, due)
         \/ \E ch, to : Books!Move(ch, to)
         \/ \E target : Books!Advance(target)
         \/ Books!Reopen
  PROVE  LedgerKeeps'
<1>1. CASE \E ch \in ChargeIds : \E due : Books!Open(ch, due)
  <2>1. PICK ch \in ChargeIds : DOMAIN ledger' = DOMAIN ledger \cup {ch}
        BY <1>1 DEF Books!Open
  <2> QED BY <2>1, FS_AddElement DEF LedgerKeeps
<1>2. CASE \/ \E ch, to : Books!Move(ch, to)
           \/ \E target : Books!Advance(target)
  <2>1. DOMAIN ledger' = DOMAIN ledger
        BY <1>2 DEF Books!Move, Books!Advance
  <2> QED BY <2>1 DEF LedgerKeeps
<1>3. CASE Books!Reopen
  <2>1. DOMAIN ledger' = DOMAIN ledger \/ DOMAIN ledger' = {}
        BY <1>3 DEF Books!Reopen
  <2> QED BY <2>1, FS_EmptySet DEF LedgerKeeps
<1> QED BY <1>1, <1>2, <1>3

\* A finite set of honest events, as a sequence.
LEMMA SequenceOfSet ==
  ASSUME NEW S \in SUBSET Honest, IsFiniteSet(S), S # {}
  PROVE  SetToSeq(S) \in Seq(Honest) /\ SetToSeq(S) # <<>>
<1> DEFINE n == Cardinality(S)
<1>1. n \in Nat /\ ExistsBijection(1..n, S) /\ n # 0
      BY FS_CardinalityType, FS_EmptySet
<1>2. \E f \in [1..n -> S] : IsInjective(f)
      BY <1>1 DEF ExistsBijection, Bijection, Injection, IsInjective
<1>3. SetToSeq(S) \in [1..n -> S]
      BY <1>2 DEF SetToSeq
<1> HIDE DEF n
<1>4. SetToSeq(S) \in Seq(S) /\ Len(SetToSeq(S)) = n
      BY <1>1, <1>3
<1> QED BY <1>1, <1>4

\* The registry names no other webhooks than there are.
LEMMA SubscribersAreHooks == \A type : Subscribers(type) \subseteq Hooks
BY DEF Subscribers

\* Requests that arrive.
LEMMA ArriveTells ==
  ASSUME Told, StoresInv, NEW c \in Callers, Arrive(c)
  PROVE  Told'
<1>1. UNCHANGED accepted => Grows
      BY DEF Told, Grows
<1>2. ASSUME UNCHANGED <<accepted, lastEvents>> PROVE Grows /\ LastTold'
      BY <1>1, <1>2, LastStays
<1>3. LedgerKeeps
      BY DEF Told
<1>4. ASSUME NEW ch \in ChargeIds, NEW due \in Times, CreatePayment(c, ch, due)
      PROVE  Told'
  <2>1. UNCHANGED <<accepted, lastEvents, pc, work>> /\ LedgerKeeps'
        BY <1>3, <1>4, LedgerStays DEF CreatePayment, queues
  <2> QED BY <1>2, <2>1 DEF Told, HandlersTold
<1>5. ASSUME NEW ch \in ChargeIds, NEW to \in {"confirmed", "received"},
             Trigger(c, ch, to)
      PROVE  Told'
  <2> DEFINE w == [Idle EXCEPT !.todo = <<Snapshot(ch, to)>>]
  <2>1. /\ UNCHANGED <<accepted, lastEvents>> /\ Goto(c, "build", w) /\ LedgerKeeps'
        BY <1>3, <1>5, LedgerStays DEF Trigger, Transition, queues
  <2>2. w.todo \in Seq(Honest) /\ w.todo # <<>>
        BY SnapshotIsHonest DEF Idle, Announced
  <2>3. Truthful("build", w, accepted')
        BY <2>2 DEF Truthful, Idle
  <2> HIDE DEF w
  <2> QED BY <1>2, <2>1, <2>3, HandlerTells
<1>6. ASSUME NEW ch \in ChargeIds, OutOfOrder(c, ch) PROVE Told'
  <2> DEFINE w == [Idle EXCEPT !.todo = <<Snapshot(ch, "confirmed")>>, !.reverse = TRUE]
  <2>1. /\ UNCHANGED <<accepted, lastEvents>> /\ Goto(c, "build", w) /\ LedgerKeeps'
        BY <1>3, <1>6, LedgerStays DEF OutOfOrder, Transition, queues
  <2>2. w.todo \in Seq(Honest) /\ w.todo # <<>>
        BY SnapshotIsHonest DEF Idle, Announced
  <2>3. Truthful("build", w, accepted')
        BY <2>2 DEF Truthful, Idle
  <2> HIDE DEF w
  <2> QED BY <1>2, <2>1, <2>3, HandlerTells
<1>7. ASSUME NEW ch \in ChargeIds, Replay(c, ch) PROVE Told'
  <2> DEFINE w == [Idle EXCEPT !.events = <<lastEvents[ch].event>>,
                               !.subs = lastEvents[ch].hooks]
  <2>1. /\ UNCHANGED <<accepted, lastEvents, ledger>> /\ Goto(c, "replay", w)
        /\ lastEvents[ch] # None
        BY <1>7 DEF Replay, queues, engine
  <2>2. /\ <<lastEvents[ch].event>> \in Seq(Honest) /\ <<lastEvents[ch].event>> # <<>>
        /\ lastEvents[ch].hooks \subseteq Hooks
        BY <2>1 DEF Told, LastTold
  <2>3. Truthful("replay", w, accepted)
        BY <2>2 DEF Truthful, Idle
  <2> HIDE DEF w
  <2> QED BY <2>1, <2>3, QuietHandlerTells
<1>8. ASSUME NEW target \in Times, ClockAdvance(c, target) PROVE Told'
  <2> DEFINE due == FallDue(target)
             S == {Snapshot(ch, "overdue") : ch \in due}
             w == [Idle EXCEPT !.todo = SetToSeq(S)]
             place == IF due = {} THEN "idle" ELSE "build"
  <2>1. /\ UNCHANGED <<accepted, lastEvents>> /\ Goto(c, place, w) /\ LedgerKeeps'
        BY <1>3, <1>8, LedgerStays DEF ClockAdvance, queues
  <2>2. ASSUME due # {} PROVE Truthful("build", w, accepted')
    <3>1. due \subseteq ChargeIds /\ IsFiniteSet(due)
          BY <1>3, FS_Subset DEF FallDue, LedgerKeeps
    <3>2. S \in SUBSET Honest /\ S # {}
          BY <2>2, <3>1, SnapshotIsHonest DEF Announced
    <3>3. IsFiniteSet(S)
      <4> DEFINE f == [ch \in due |-> Snapshot(ch, "overdue")]
      <4>1. f \in Surjection(due, S)
            BY DEF Surjection
      <4> HIDE DEF f, S, due
      <4> QED BY <3>1, <4>1, FS_Surjection
    <3> HIDE DEF S
    <3>4. SetToSeq(S) \in Seq(Honest) /\ SetToSeq(S) # <<>>
          BY <3>2, <3>3, SequenceOfSet
    <3> QED BY <3>4 DEF Truthful, Idle
  <2> HIDE DEF w, due
  <2> QED BY <1>2, <2>1, <2>2, HandlerTells
<1>9. ASSUME NEW h \in Hooks, NEW entry \in Entries, CreateWebhook(c, h, entry)
      PROVE  Told'
  <2> DEFINE w == [Idle EXCEPT !.hook = h, !.entry = entry]
  <2>1. /\ UNCHANGED <<accepted, lastEvents, ledger>> /\ Goto(c, "add", w)
        BY <1>9 DEF CreateWebhook, queues, engine
  <2>2. Truthful("add", w, accepted)
        BY DEF Truthful, Idle
  <2> HIDE DEF w
  <2> QED BY <2>1, <2>2, QuietHandlerTells
<1>10. ASSUME NEW h \in Hooks, NEW u \in Updates, UpdateWebhook(c, h, u)
       PROVE  Told'
  <2> DEFINE w == [Idle EXCEPT !.hook = h, !.entry = Updated(registry[h], u),
                               !.resume = u.resume]
  <2>1. /\ UNCHANGED <<accepted, lastEvents, ledger>>
        /\ \E place \in {"push", "resume", "idle"} : Goto(c, place, w)
        BY <1>10 DEF UpdateWebhook, queues, engine
  <2>2. \A place \in {"push", "resume", "idle"} : Truthful(place, w, accepted)
        BY DEF Truthful, Idle
  <2> HIDE DEF w
  <2> QED BY <2>1, <2>2, QuietHandlerTells
<1> QED BY <1>4, <1>5, <1>6, <1>7, <1>8, <1>9, <1>10 DEF Arrive

\* Handlers that go on.
LEMMA ProceedTells ==
  ASSUME Told, StoresInv, NEW c \in Callers, Proceed(c)
  PROVE  Told'
<1> DEFINE w == work[c]
<1>1. /\ Truthful(pc[c], w, accepted) /\ LedgerKeeps /\ LastTold
      /\ w.todo \in Seq(Honest) /\ w.events \in Seq(Honest)
      /\ w.subs \subseteq Hooks /\ w.sent \subseteq Hooks
      BY DEF Told, HandlersTold, Truthful
<1>2. UNCHANGED accepted => Grows
      BY DEF Told, Grows
<1>3. pc[c] \in {"second", "subscribers", "enqueue", "record", "replay"} =>
        /\ w.events # <<>> /\ Head(w.events) \in Honest
        /\ Tail(w.events) \in Seq(Honest) /\ Head(w.events).charge \in ChargeIds
      BY <1>1 DEF Truthful, Honest, Events
<1>4. CASE SecondTransition(c)
  <2> DEFINE ch == Head(w.events).charge
             v == [w EXCEPT !.todo = <<Snapshot(ch, "received")>>]
  <2>1. /\ UNCHANGED <<accepted, lastEvents>> /\ Goto(c, "build", v) /\ LedgerKeeps'
        /\ pc[c] = "second"
        BY <1>1, <1>4, LedgerStays DEF SecondTransition, Transition, queues
  <2>2. /\ <<Snapshot(ch, "received")>> \in Seq(Honest)
        /\ <<Snapshot(ch, "received")>> # <<>>
        BY <1>3, <2>1, SnapshotIsHonest DEF Announced
  <2>3. Truthful("build", v, accepted')
    <3> HIDE DEF ch
    <3> QED BY <1>1, <2>2 DEF Truthful
  <2>4. Grows /\ LastTold'
        BY <1>2, <2>1, LastStays
  <2> HIDE DEF v
  <2> QED BY <2>1, <2>3, <2>4, HandlerTells
<1>5. CASE SecondRefused(c)
  <2>1. /\ UNCHANGED <<accepted, lastEvents, ledger>> /\ Goto(c, "subscribers", w)
        /\ pc[c] = "second"
        BY <1>5 DEF SecondRefused, queues, engine
  <2>2. Truthful("subscribers", w, accepted)
        BY <1>1, <1>3, <2>1 DEF Truthful
  <2> QED BY <2>1, <2>2, QuietHandlerTells
<1>6. CASE Build(c)
  <2> DEFINE events == <<Head(w.todo)>> \o w.events
             v == [w EXCEPT !.todo = Tail(@), !.events = events]
  <2>1. /\ UNCHANGED <<accepted, lastEvents, ledger>> /\ pc[c] = "build"
        /\ \E place \in {"second", "subscribers"} : Goto(c, place, v)
        BY <1>6 DEF Build, Announce, Built, queues, engine
  <2>2. w.todo # <<>> /\ Head(w.todo) \in Honest /\ Tail(w.todo) \in Seq(Honest)
        BY <1>1, <2>1 DEF Truthful
  <2>3. events \in Seq(Honest) /\ events # <<>>
        BY <1>1, <2>2
  <2>4. \A place \in {"second", "subscribers"} : Truthful(place, v, accepted)
    <3> HIDE DEF events
    <3> QED BY <1>1, <2>2, <2>3 DEF Truthful
  <2> HIDE DEF v
  <2> QED BY <2>1, <2>4, QuietHandlerTells
<1>7. CASE ReadSubscribers(c)
  <2> DEFINE subs == Subscribers(Head(w.events).type)
             v == [w EXCEPT !.subs = subs, !.sent = {}]
  <2>1. /\ UNCHANGED <<accepted, lastEvents, ledger>> /\ pc[c] = "subscribers"
        /\ \E place \in {"record", "enqueue"} : Goto(c, place, v)
        BY <1>7 DEF ReadSubscribers, queues, engine
  <2>2. subs \subseteq Hooks
        BY SubscribersAreHooks
  <2>3. \A place \in {"record", "enqueue"} : Truthful(place, v, accepted)
    <3> HIDE DEF subs
    <3> QED BY <1>1, <1>3, <2>1, <2>2 DEF Truthful
  <2> HIDE DEF v
  <2> QED BY <2>1, <2>3, QuietHandlerTells
<1>8. CASE RecordLast(c)
  <2> DEFINE ev == Head(w.events)
             rest == Tail(w.events)
             v == [w EXCEPT !.events = rest, !.sent = {}]
             place == IF rest # <<>> THEN "subscribers"
                      ELSE IF w.todo # <<>> THEN "build" ELSE "idle"
  <2>1. /\ UNCHANGED <<accepted, ledger>> /\ pc[c] = "record" /\ Goto(c, place, v)
        /\ \/ lastEvents' = lastEvents
           \/ lastEvents' = [lastEvents EXCEPT ![ev.charge] =
                               [event |-> ev, hooks |-> w.sent]]
        BY <1>8 DEF RecordLast, Others, queues, engine
  <2>2. /\ ev \in Honest /\ ev.charge \in ChargeIds
        /\ \A h \in w.sent : ev \in ToSet(accepted[h])
        BY <1>1, <1>3, <2>1 DEF Truthful
  <2>3. Grows /\ LedgerKeeps'
        BY <1>1, <1>2, <2>1 DEF LedgerKeeps
  <2>4. LastTold'
    <3>1. CASE lastEvents' = lastEvents
          BY <2>3, <3>1, LastStays
    <3>2. CASE lastEvents' = [lastEvents EXCEPT ![ev.charge] =
                                [event |-> ev, hooks |-> w.sent]]
      <4> HIDE DEF ev
      <4>1. /\ DOMAIN lastEvents' = ChargeIds
            /\ lastEvents'[ev.charge] = [event |-> ev, hooks |-> w.sent]
            /\ \A ch \in ChargeIds \ {ev.charge} : lastEvents'[ch] = lastEvents[ch]
            BY <1>1, <2>2, <3>2 DEF LastTold
      <4>2. SUFFICES ASSUME NEW ch \in ChargeIds, lastEvents'[ch] # None
                     PROVE  /\ lastEvents'[ch].event \in Honest
                            /\ lastEvents'[ch].hooks \subseteq Hooks
                            /\ \A h \in lastEvents'[ch].hooks :
                                 lastEvents'[ch].event \in ToSet(accepted'[h])
            BY <4>1 DEF LastTold
      <4>3. CASE ch = ev.charge
        <5>1. lastEvents'[ch].event = ev /\ lastEvents'[ch].hooks = w.sent
              BY <4>1, <4>3
        <5> QED BY <1>1, <2>1, <2>2, <5>1
      <4>4. CASE ch # ev.charge
        <5>1. lastEvents'[ch] = lastEvents[ch]
              BY <4>1, <4>4
        <5> QED BY <1>1, <2>1, <4>2, <5>1 DEF LastTold
      <4> QED BY <4>3, <4>4
    <3> QED BY <2>1, <3>1, <3>2
  <2>5. place # "idle" => Truthful(place, v, accepted')
    <3>1. rest \in Seq(Honest)
          BY <1>3, <2>1
    <3> HIDE DEF rest
    <3> QED BY <1>1, <3>1 DEF Truthful
  <2> HIDE DEF v, place
  <2> QED BY <2>1, <2>3, <2>4, <2>5, HandlerTells
<1>9. ASSUME NEW h \in Hooks, EnqueueTo(c, h) PROVE Told'
  <2> DEFINE v == [w EXCEPT !.subs = w.subs \ {h}, !.sent = Reached(@, h)]
             place == IF w.subs \ {h} = {} THEN "record" ELSE "enqueue"
  <2>1. /\ UNCHANGED <<lastEvents, ledger>> /\ pc[c] = "enqueue"
        /\ Accepts(h, Head(w.events)) /\ Goto(c, place, v)
        BY <1>9 DEF EnqueueTo, engine
  <2>2. Grows /\ (~closed => Head(w.events) \in ToSet(accepted'[h]))
        BY <1>3, <2>1, AcceptGrows
  <2>3. /\ v.subs \subseteq Hooks /\ v.sent \subseteq Hooks
        /\ v.todo = w.todo /\ v.events = w.events
        /\ \A g \in v.sent : Head(w.events) \in ToSet(accepted'[g])
    <3>1. /\ v.subs = w.subs \ {h} /\ v.sent = Reached(w.sent, h)
          /\ v.todo = w.todo /\ v.events = w.events
          BY <1>9 DEF Truthful
    <3> QED BY <1>1, <2>1, <2>2, <3>1 DEF Truthful, Reached, Grows
  <2>4. Truthful(place, v, accepted')
    <3> HIDE DEF v
    <3> QED BY <1>1, <1>3, <2>1, <2>3 DEF Truthful
  <2>5. LastTold' /\ LedgerKeeps'
        BY <1>1, <2>1, <2>2, LastStays DEF LedgerKeeps
  <2> HIDE DEF v, place
  <2> QED BY <2>1, <2>2, <2>4, <2>5, HandlerTells
<1>10. ASSUME NEW h \in Hooks, ReplayTo(c, h) PROVE Told'
  <2> DEFINE v == [w EXCEPT !.subs = w.subs \ {h}]
             place == IF w.subs \ {h} = {} THEN "idle" ELSE "replay"
  <2>1. /\ UNCHANGED <<lastEvents, ledger>> /\ pc[c] = "replay"
        /\ Accepts(h, Head(w.events)) /\ Goto(c, place, v)
        BY <1>10 DEF ReplayTo, engine
  <2>2. Grows
        BY <1>3, <2>1, AcceptGrows
  <2>3. place # "idle" => Truthful(place, v, accepted')
        BY <1>1, <1>3, <2>1 DEF Truthful
  <2>4. LastTold' /\ LedgerKeeps'
        BY <1>1, <2>1, <2>2, LastStays DEF LedgerKeeps
  <2> HIDE DEF v, place
  <2> QED BY <2>1, <2>2, <2>3, <2>4, HandlerTells
<1>11. CASE AddToRegistry(c) \/ PushToDispatcher(c) \/ ReactivateQueue(c)
  <2>1. /\ UNCHANGED <<accepted, lastEvents, ledger>>
        /\ \/ Goto(c, "idle", Idle)
           \/ \E place \in {"resume", "idle"} : Goto(c, place, w)
        BY <1>11 DEF AddToRegistry, PushToDispatcher, ReactivateQueue, queues,
                     engine, Queues!Resume
  <2>2. Truthful("resume", w, accepted)
        BY <1>1 DEF Truthful
  <2> QED BY <2>1, <2>2, QuietHandlerTells
<1> QED BY <1>4, <1>5, <1>6, <1>7, <1>8, <1>9, <1>10, <1>11 DEF Proceed

\* Every step of the facade keeps what is told true.
LEMMA ToldStep == Told /\ StoresInv /\ [Next]_vars => Told'
<1> SUFFICES ASSUME Told, StoresInv, [Next]_vars PROVE Told'
    OBVIOUS
<1>1. CASE Dispatching \/ CloseDispatcher \/ UNCHANGED vars
  <2>1. UNCHANGED <<accepted, lastEvents, ledger, pc, work>>
        BY <1>1 DEF Dispatching, CloseDispatcher, vars, engine, queues,
                    Queues!Deliver, Queues!Fail
  <2> QED BY <2>1 DEF Told, HandlersTold, LastTold, LedgerKeeps
<1>2. CASE Restart
  <2>1. LedgerKeeps'
        BY <1>2, LedgerStays DEF Restart, Told
  <2>2. HandlersTold'
        BY <1>2, IdleIsTruthful DEF Restart, HandlersTold
  <2> QED BY <1>2, <2>1, <2>2 DEF Restart, Told, LastTold
<1>3. ASSUME NEW c \in Callers, Arrive(c) \/ Proceed(c) PROVE Told'
      BY <1>3, ArriveTells, ProceedTells
<1> QED BY <1>1, <1>2, <1>3 DEF Next

\* What is told is true in every reachable state.
LEMMA ToldAlways == Spec => []Told
<1>1. Init => Told /\ StoresInv
  <2> SUFFICES ASSUME Init PROVE Told /\ StoresInv
      OBVIOUS
  <2>1. StoresInv
        BY DEF Init, StoresInv, Domains, Known, Pushing, Adding, Agreeing
  <2>2. LedgerKeeps
        BY FS_EmptySet DEF Init, Books!LedgerInit, LedgerKeeps
  <2>3. HandlersTold
        BY IdleIsTruthful DEF Init, HandlersTold
  <2>4. accepted \in [Hooks -> Seq(Honest)]
        BY DEF Init, Queues!QueueInit
  <2> QED BY <2>1, <2>2, <2>3, <2>4 DEF Init, Told, LastTold
<1> QED BY <1>1, ToldStep, StoresInvStep, PTL DEF Spec

\* An event carries the status of the transition that fired it, whatever the
\* charge became before the event was built (engine.go:267-272).
THEOREM EventsAreHonest == Spec => []EventsTellTheirTransition
<1>1. Told => EventsTellTheirTransition
  <2> SUFFICES ASSUME Told, NEW h \in Hooks, NEW i \in DOMAIN accepted[h]
               PROVE  accepted[h][i].status = accepted[h][i].type
      BY DEF EventsTellTheirTransition
  <2>1. accepted[h] \in Seq(Honest)
        BY DEF Told
  <2>2. accepted[h][i] \in Honest
        BY <2>1
  <2> QED BY <2>2 DEF Honest
<1> QED BY <1>1, ToldAlways, PTL

\* Duplicate-delivery repeats only what was queued before, where it was queued
\* (chaos.go:54-86).
THEOREM ReplaysRepeat == Spec => []ReplaysAreReplays
<1>1. Told => ReplaysAreReplays
      BY DEF Told, LastTold, ReplaysAreReplays
<1> QED BY <1>1, ToldAlways, PTL
-----------------------------------------------------------------------------
(* Types *)

\* Queues as far as deliveries move them: a running queue is below the threshold.
Queueing ==
  /\ delivered \in [Hooks -> Seq(Events)]
  /\ streak \in [Hooks -> 0..FailureThreshold] /\ paused \in [Hooks -> BOOLEAN]
  /\ \A h \in Hooks : ~paused[h] => streak[h] < FailureThreshold

\* What only some steps change.
Bookkeeping ==
  /\ time \in Times /\ closed \in BOOLEAN
  /\ routed \in [Hooks -> Targets \cup {None}]
  /\ pc \in [Callers -> Places]
  /\ entitled \in [ChargeIds \X Announced -> SUBSET Hooks]
  /\ reversed \subseteq ChargeIds
  /\ replays \in 0..MaxReplays /\ restarts \in 0..MaxRestarts

\* An event is recorded only if it went somewhere (webhook.go:158-160).
Recorded ==
  \A ch \in ChargeIds : lastEvents[ch] # None =>
    lastEvents[ch] \in [event : Events, hooks : (SUBSET Hooks) \ {{}}]

\* The inductive invariant behind TypeOK, StoresInv and Told included.
TypeInv == StoresInv /\ Told /\ Queueing /\ Bookkeeping /\ Recorded

\* The next undelivered event joins the delivered ones.
LEMMA NextDelivered ==
  ASSUME NEW q \in Seq(Events), NEW a \in Seq(Honest), Len(q) < Len(a)
  PROVE  Append(q, a[Len(q) + 1]) \in Seq(Events)
<1>1. Len(q) \in Nat /\ Len(a) \in Nat
      OBVIOUS
<1>2. Len(q) + 1 \in 1..Len(a)
      BY <1>1
<1>3. a[Len(q) + 1] \in Honest
      BY <1>2
<1> QED BY <1>3 DEF Honest

LEMMA QueueingStep == Queueing /\ Told /\ [Next]_vars => Queueing'
<1> SUFFICES ASSUME Queueing, Told, [Next]_vars PROVE Queueing'
    OBVIOUS
<1>1. CASE UNCHANGED <<delivered, streak, paused>>
      BY <1>1 DEF Queueing
<1>2. ASSUME NEW h \in Hooks, Queues!Deliver(h) PROVE Queueing'
  <2>1. Append(delivered[h], accepted[h][Len(delivered[h]) + 1]) \in Seq(Events)
        BY <1>2, NextDelivered DEF Queues!Deliver, Queues!Ready, Queueing, Told
  <2> QED BY <1>2, <2>1, FacadeAssumption DEF Queues!Deliver, Queueing
<1>3. ASSUME NEW h \in Hooks, Queues!Fail(h) PROVE Queueing'
      BY <1>3, FacadeAssumption DEF Queues!Fail, Queues!Ready, Queueing
<1>4. ASSUME NEW h, Queues!Resume(h) PROVE Queueing'
  <2>1. 0 \in 0..FailureThreshold /\ 0 < FailureThreshold
        BY FacadeAssumption
  <2>2. /\ streak' \in [Hooks -> 0..FailureThreshold] /\ paused' \in [Hooks -> BOOLEAN]
        /\ UNCHANGED delivered
        BY <1>4, <2>1 DEF Queues!Resume, Queueing
  <2>3. \A g \in Hooks : g # h => streak'[g] = streak[g] /\ paused'[g] = paused[g]
        BY <1>4 DEF Queues!Resume, Queueing
  <2>4. h \in Hooks => streak'[h] = 0
        BY <1>4 DEF Queues!Resume, Queueing
  <2> QED BY <2>1, <2>2, <2>3, <2>4 DEF Queueing
<1>5. CASE Restart
      BY <1>5, FacadeAssumption DEF Restart, Queueing
<1>6. ASSUME NEW c \in Callers, Arrive(c) PROVE Queueing'
      BY <1>1, <1>6 DEF Arrive, CreatePayment, Trigger, OutOfOrder, Replay, ClockAdvance,
         CreateWebhook, UpdateWebhook, queues
<1>7. ASSUME NEW c \in Callers, Proceed(c) PROVE Queueing'
      BY <1>1, <1>4, <1>7 DEF Proceed, SecondTransition, SecondRefused, Build,
         ReadSubscribers, RecordLast, EnqueueTo, ReplayTo, Accepts, Queues!Accept,
         AddToRegistry, PushToDispatcher, ReactivateQueue, queues
<1> QED BY <1>1, <1>2, <1>3, <1>5, <1>6, <1>7
        DEF Next, Dispatching, CloseDispatcher, vars, queues

LEMMA RecordedStep == Recorded /\ Told /\ [Next]_vars => Recorded'
<1> SUFFICES ASSUME Recorded, Told, [Next]_vars PROVE Recorded'
    OBVIOUS
<1>1. CASE UNCHANGED lastEvents
      BY <1>1 DEF Recorded
<1>2. ASSUME NEW c \in Callers, RecordLast(c) PROVE Recorded'
  <2> DEFINE last == [event |-> Head(work[c].events), hooks |-> work[c].sent]
  <2>1. Truthful("record", work[c], accepted)
        BY <1>2 DEF RecordLast, Told, HandlersTold
  <2>2. Head(work[c].events) \in Events /\ work[c].sent \subseteq Hooks
        BY <2>1 DEF Truthful, Honest
  <2>3. CASE work[c].sent # {}
    <3>1. last \in [event : Events, hooks : (SUBSET Hooks) \ {{}}]
          BY <2>2, <2>3
    <3>2. lastEvents' = [lastEvents EXCEPT ![Head(work[c].events).charge] = last]
          BY <1>2, <2>3 DEF RecordLast, Recordable
    <3> HIDE DEF last
    <3> QED BY <3>1, <3>2 DEF Recorded, Told, LastTold
  <2>4. CASE work[c].sent = {}
        BY <1>1, <1>2, <2>4 DEF RecordLast, Recordable
  <2> QED BY <2>3, <2>4
<1>3. ASSUME NEW c \in Callers, Arrive(c) \/ Proceed(c), ~RecordLast(c) PROVE Recorded'
      BY <1>1, <1>3 DEF Arrive, CreatePayment, Trigger, OutOfOrder, Replay, ClockAdvance,
         CreateWebhook, UpdateWebhook, Proceed, SecondTransition, SecondRefused, Build,
         ReadSubscribers, EnqueueTo, ReplayTo, AddToRegistry, PushToDispatcher,
         ReactivateQueue
<1>4. CASE Restart
      BY <1>4 DEF Restart, Recorded
<1> QED BY <1>1, <1>2, <1>3, <1>4 DEF Next, Dispatching, CloseDispatcher, vars

LEMMA BookkeepingStep ==
  Bookkeeping /\ StoresInv /\ Told /\ [Next]_vars => Bookkeeping'
<1> SUFFICES ASSUME Bookkeeping, StoresInv, Told, [Next]_vars PROVE Bookkeeping'
    OBVIOUS
<1>1. CASE Dispatching \/ CloseDispatcher \/ UNCHANGED vars
      BY <1>1 DEF Dispatching, CloseDispatcher, vars, engine, history, budgets, Bookkeeping
<1>2. CASE Restart
  <2>1. restarts' \in 0..MaxRestarts
        BY <1>2, FacadeAssumption DEF Restart, Bookkeeping
  <2>2. /\ entitled' \in [ChargeIds \X Announced -> SUBSET Hooks]
        /\ pc' \in [Callers -> Places] /\ routed' \in [Hooks -> Targets \cup {None}]
        BY <1>2 DEF Restart, Places
  <2> QED BY <1>2, <2>1, <2>2 DEF Restart, Books!Reopen, Bookkeeping
<1>3. ASSUME NEW c \in Callers, Arrive(c) PROVE Bookkeeping'
  <2>1. time' = time \/ time' \in Times
        BY <1>3 DEF Arrive, CreatePayment, Trigger, OutOfOrder, Replay,
           ClockAdvance, CreateWebhook, UpdateWebhook, Transition, Books!Open, Books!Move,
           Books!Advance, engine
  <2>2. replays' = replays \/ (replays < MaxReplays /\ replays' = replays + 1)
        BY <1>3 DEF Arrive, CreatePayment, Trigger, OutOfOrder, Replay,
           ClockAdvance, CreateWebhook, UpdateWebhook, budgets
  <2>3. replays' \in 0..MaxReplays
        BY <2>2, FacadeAssumption DEF Bookkeeping
  <2>4. routed' \in [Hooks -> Targets \cup {None}]
        BY <1>3, FacadeAssumption DEF Arrive, CreatePayment, Trigger, OutOfOrder, Replay,
           ClockAdvance, CreateWebhook, UpdateWebhook, Bookkeeping, EntryShape
  <2>5. pc' \in [Callers -> Places]
        BY <1>3 DEF Arrive, CreatePayment, Trigger, OutOfOrder, Replay,
           ClockAdvance, CreateWebhook, UpdateWebhook, Bookkeeping, Goto, Places
  <2>6. entitled' \in [ChargeIds \X Announced -> SUBSET Hooks]
    <3>1. CASE \E ch, to : Trigger(c, ch, to) \/ OutOfOrder(c, ch)
      <4>1. \E t, type : entitled' = [entitled EXCEPT ![t] = Subscribers(type)]
            BY <3>1 DEF Trigger, OutOfOrder, Transition
      <4>2. PICK t, type : entitled' = [entitled EXCEPT ![t] = Subscribers(type)]
            BY <4>1
      <4>3. Subscribers(type) \in SUBSET Hooks
            BY SubscribersAreHooks
      <4> QED BY <4>2, <4>3 DEF Bookkeeping
    <3>2. CASE \E target : ClockAdvance(c, target)
          BY <3>2, SubscribersAreHooks DEF ClockAdvance, Bookkeeping
    <3>3. CASE \E h, u : UpdateWebhook(c, h, u)
          BY <3>3 DEF UpdateWebhook, Bookkeeping
    <3>4. CASE \/ \E ch : Replay(c, ch) \/ \E due : CreatePayment(c, ch, due)
               \/ \E h, entry : CreateWebhook(c, h, entry)
          BY <3>4 DEF CreatePayment, Replay, CreateWebhook, history, Bookkeeping
    <3> QED BY <1>3, <3>1, <3>2, <3>3, <3>4 DEF Arrive
  <2>7. UNCHANGED <<closed, reversed, restarts>>
        BY <1>3 DEF Arrive, CreatePayment, Trigger, OutOfOrder, Replay,
           ClockAdvance, CreateWebhook, UpdateWebhook, history, budgets
  <2> QED BY <2>1, <2>3, <2>4, <2>5, <2>6, <2>7 DEF Bookkeeping
<1>4. ASSUME NEW c \in Callers, Proceed(c) PROVE Bookkeeping'
  <2>1. UNCHANGED <<time, closed, replays, restarts>>
        BY <1>4 DEF Proceed, SecondTransition, SecondRefused, Build, ReadSubscribers,
           RecordLast, EnqueueTo, ReplayTo, AddToRegistry, PushToDispatcher,
           ReactivateQueue, Transition, Books!Move, engine, budgets
  <2>2. routed' \in [Hooks -> Targets \cup {None}]
        BY <1>4 DEF Proceed, SecondTransition, SecondRefused, Build, ReadSubscribers,
           RecordLast, EnqueueTo, ReplayTo, AddToRegistry, PushToDispatcher,
           ReactivateQueue, Bookkeeping, StoresInv, Pushing, EntryShape
  <2>3. pc' \in [Callers -> Places]
        BY <1>4 DEF Proceed, SecondTransition, SecondRefused, Build, ReadSubscribers,
           RecordLast, EnqueueTo, ReplayTo, AddToRegistry, PushToDispatcher,
           ReactivateQueue, Bookkeeping, Goto, Places
  <2>4. /\ entitled' \in [ChargeIds \X Announced -> SUBSET Hooks]
        /\ reversed' \subseteq ChargeIds
    <3>1. CASE SecondTransition(c)
      <4>1. Truthful("second", work[c], accepted)
            BY <3>1 DEF SecondTransition, Told, HandlersTold
      <4>2. Head(work[c].events).charge \in ChargeIds
            BY <4>1 DEF Truthful, Honest, Events
      <4> QED BY <3>1, <4>2, SubscribersAreHooks DEF SecondTransition, Transition, Bookkeeping
    <3>2. CASE ~SecondTransition(c)
          BY <1>4, <3>2 DEF Proceed, SecondRefused, Build, ReadSubscribers, RecordLast,
             EnqueueTo, ReplayTo, AddToRegistry, PushToDispatcher, ReactivateQueue,
             Bookkeeping, history
    <3> QED BY <3>1, <3>2
  <2> QED BY <2>1, <2>2, <2>3, <2>4 DEF Bookkeeping
<1> QED BY <1>1, <1>2, <1>3, <1>4 DEF Next

LEMMA InitTypeInv == Init => Queueing /\ Bookkeeping /\ Recorded
<1> SUFFICES ASSUME Init PROVE Queueing /\ Bookkeeping /\ Recorded
    OBVIOUS
<1>1. Queueing
      BY FacadeAssumption DEF Init, Queues!QueueInit, Queueing
<1>2. Bookkeeping
  <2>1. /\ entitled \in [ChargeIds \X Announced -> SUBSET Hooks]
        /\ pc \in [Callers -> Places] /\ routed \in [Hooks -> Targets \cup {None}]
        BY DEF Init, Places
  <2>2. replays \in 0..MaxReplays /\ restarts \in 0..MaxRestarts
        BY FacadeAssumption DEF Init
  <2> QED BY <2>1, <2>2 DEF Init, Books!LedgerInit, Bookkeeping
<1>3. Recorded
      BY DEF Init, Recorded
<1> QED BY <1>1, <1>2, <1>3

LEMMA TypeInvAlways == Spec => []TypeInv
<1>1. Spec => []StoresInv
  <2>1. Init => StoresInv
        BY DEF Init, StoresInv, Domains, Known, Pushing, Adding, Agreeing
  <2> QED BY <2>1, StoresInvStep, PTL DEF Spec
<1> QED BY <1>1, ToldAlways, InitTypeInv, QueueingStep, BookkeepingStep, RecordedStep, PTL
        DEF Spec, TypeInv

\* Every variable of the facade keeps its type: a queue's streak never passes
\* the threshold, and a last event names at least one webhook.
THEOREM FacadeTypes == Spec => []TypeOK
<1>1. TypeInv => TypeOK
  <2> SUFFICES ASSUME TypeInv PROVE TypeOK
      OBVIOUS
  <2>1. accepted \in [Hooks -> Seq(Events)]
    <3>1. accepted \in [Hooks -> Seq(Honest)] /\ Honest \subseteq Events
          BY DEF TypeInv, Told, Honest
    <3>2. \A q \in Seq(Honest) : q \in Seq(Events)
          BY <3>1
    <3> QED BY <3>1, <3>2
  <2>2. registryLock \in Callers \cup {None}
        BY DEF TypeInv, StoresInv, Pushing
  <2> QED BY <2>1, <2>2 DEF TypeInv, TypeOK, StoresInv, Known, Told, LedgerKeeps, Queueing,
          Bookkeeping, Recorded
<1> QED BY <1>1, TypeInvAlways, PTL
-----------------------------------------------------------------------------
(* The facade on top of the two abstract specifications *)

LEMMA FacadeLedgerSteps == Told /\ [Next]_vars => [Books!LedgerNext]_engine
<1> SUFFICES ASSUME Told, [Next]_vars, ~UNCHANGED engine PROVE Books!LedgerNext
    OBVIOUS
<1>1. ASSUME NEW ch, NEW to \in {"confirmed", "received"}, Transition(ch, to)
      PROVE  Books!LedgerNext
  <2>1. Books!Move(ch, to) /\ to \in Books!Statuses
        BY <1>1 DEF Transition, Books!Statuses
  <2>2. ch \in ChargeIds
        BY <2>1 DEF Books!Move, Told, LedgerKeeps
  <2> QED BY <2>1, <2>2 DEF Books!LedgerNext
<1>2. ASSUME NEW c \in Callers, Arrive(c) PROVE Books!LedgerNext
      BY <1>1, <1>2 DEF Arrive, CreatePayment, Trigger, OutOfOrder, Replay, ClockAdvance,
         CreateWebhook, UpdateWebhook, Books!LedgerNext
<1>3. ASSUME NEW c \in Callers, Proceed(c) PROVE Books!LedgerNext
      BY <1>1, <1>3 DEF Proceed, SecondTransition, SecondRefused, Build, ReadSubscribers,
         RecordLast, EnqueueTo, ReplayTo, AddToRegistry, PushToDispatcher, ReactivateQueue
<1>4. CASE Restart
      BY <1>4 DEF Restart, Books!LedgerNext
<1> QED BY <1>2, <1>3, <1>4 DEF Next, Dispatching, CloseDispatcher, vars

\* Whatever handlers do to the engine are operations the engine offers, each in
\* one step of one handler: what Engine implements is what Facade relies on
\* (payment.go:155, chaos.go:199-206, admin.go:225,299).
THEOREM FacadeKeepsToLedger == Spec => Books!LedgerSpec
<1>1. Init => Books!LedgerInit
      BY DEF Init
<1> QED BY <1>1, FacadeLedgerSteps, ToldAlways, PTL
        DEF Spec, Books!LedgerSpec, engine

LEMMA FacadeQueueSteps ==
  Told /\ Queueing /\ [Next]_vars => [Queues!QueueNext \/ Restart]_queues
<1> SUFFICES ASSUME Told, Queueing, [Next]_vars, ~UNCHANGED queues, ~Restart
             PROVE  Queues!QueueNext
    BY DEF queues
<1>1. ASSUME NEW c \in Callers, NEW h \in Hooks, Accepts(h, Head(work[c].events)),
             pc[c] \in {"enqueue", "replay"}
      PROVE  Queues!QueueNext
  <2>1. work[c].events \in Seq(Honest) /\ work[c].events # <<>>
        BY <1>1 DEF Told, HandlersTold, Truthful
  <2>2. Head(work[c].events) \in Events
        BY <2>1 DEF Honest
  <2>3. Queues!Accept(h, Head(work[c].events))
        BY <1>1 DEF Accepts
  <2> QED BY <2>2, <2>3 DEF Queues!QueueNext
<1>2. ASSUME NEW c \in Callers, ReactivateQueue(c) PROVE Queues!QueueNext
  <2>1. Queues!Resume(work[c].hook)
        BY <1>2 DEF ReactivateQueue
  <2>2. work[c].hook \in Hooks
        BY <2>1 DEF Queues!Resume, Queueing, queues
  <2> QED BY <2>1, <2>2 DEF Queues!QueueNext
<1>3. ASSUME NEW c \in Callers, Arrive(c) PROVE UNCHANGED queues
      BY <1>3 DEF Arrive, CreatePayment, Trigger, OutOfOrder, Replay, ClockAdvance,
         CreateWebhook, UpdateWebhook
<1>4. ASSUME NEW c \in Callers, Proceed(c) PROVE Queues!QueueNext
      BY <1>1, <1>2, <1>4 DEF Proceed, SecondTransition, SecondRefused, Build,
         ReadSubscribers, RecordLast, EnqueueTo, ReplayTo, AddToRegistry, PushToDispatcher
<1>5. CASE Dispatching
      BY <1>5 DEF Dispatching, Queues!QueueNext
<1> QED BY <1>3, <1>4, <1>5 DEF Next, CloseDispatcher, vars

\* As long as the process lives, the queues of the facade are queues as the
\* dispatcher promises them: handlers only append events and resume
\* (webhook.go:158, 341).
THEOREM FacadeKeepsToQueues ==
  Spec => Queues!QueueInit /\ [][Queues!QueueNext \/ Restart]_queues
<1>1. Init => Queues!QueueInit
      BY DEF Init
<1>2. TypeInv => Told /\ Queueing
      BY DEF TypeInv
<1> QED BY <1>1, <1>2, FacadeQueueSteps, TypeInvAlways, PTL DEF Spec
=============================================================================
