------------------------- MODULE AnnouncementProofs -------------------------
(***************************************************************************)
(* What TLAPS proves of the announcements of Facade, for every value of    *)
(* its constants: that none vanishes, and that out-of-order reverses two.  *)
(***************************************************************************)
EXTENDS FacadeProofs, ProgressProofs

(* Elements of sequences *)

LEMMA ElementsOfTuples ==
  /\ ToSet(<<>>) = {}
  /\ \A a : ToSet(<<a>>) = {a}
  /\ \A a, b : ToSet(<<a, b>>) = {a, b}
BY DEF ToSet

LEMMA Tuples ==
  ASSUME NEW a, NEW b
  PROVE  /\ <<a>> # <<>> /\ Head(<<a>>) = a /\ Tail(<<a>>) = <<>>
         /\ Head(<<a, b>>) = a /\ Tail(<<a, b>>) = <<b>>
         /\ <<a>> \o <<>> = <<a>> /\ <<a>> \o <<b>> = <<a, b>>
<1>1. <<a>> # <<>> /\ Head(<<a>>) = a /\ Tail(<<a>>) = <<>>
      OBVIOUS
<1>2. Head(<<a, b>>) = a /\ Tail(<<a, b>>) = <<b>>
      OBVIOUS
<1>3. <<a>> \o <<>> = <<a>>
      OBVIOUS
<1>4. <<a>> \o <<b>> = <<a, b>>
  <2> DEFINE s == <<a>> \o <<b>>
             t == <<a, b>>
  <2>1. s \in Seq({a, b}) /\ Len(s) = 2 /\ s[1] = a /\ s[2] = b
        OBVIOUS
  <2>2. t \in Seq({a, b}) /\ Len(t) = 2 /\ t[1] = a /\ t[2] = b
        OBVIOUS
  <2> HIDE DEF s, t
  <2>3. \A i \in 1..2 : s[i] = t[i]
        BY <2>1, <2>2
  <2>4. s = t
        BY <2>1, <2>2, <2>3
  <2> QED BY <2>4 DEF s, t
<1> QED BY <1>1, <1>2, <1>3, <1>4

LEMMA ElementsOfRest ==
  ASSUME NEW s \in Seq(Honest), s # <<>>
  PROVE  ToSet(s) = {Head(s)} \cup ToSet(Tail(s))
<1> DEFINE t == Tail(s)
<1>1. /\ Len(s) \in Nat \ {0} /\ DOMAIN s = 1..Len(s)
      /\ Len(t) = Len(s) - 1 /\ DOMAIN t = 1..(Len(s) - 1)
      /\ \A i \in 1..(Len(s) - 1) : t[i] = s[i + 1]
      /\ Head(s) = s[1]
      OBVIOUS
<1> HIDE DEF t
<1>2. \A i \in DOMAIN s : i = 1 \/ (i - 1 \in DOMAIN t /\ t[i - 1] = s[i])
      BY <1>1
<1>3. \A i \in DOMAIN t : i + 1 \in DOMAIN s /\ t[i] = s[i + 1]
      BY <1>1
<1>4. 1 \in DOMAIN s
      BY <1>1
<1>5. ToSet(s) \subseteq {Head(s)} \cup ToSet(t)
      BY <1>1, <1>2 DEF ToSet
<1>6. {Head(s)} \cup ToSet(t) \subseteq ToSet(s)
      BY <1>1, <1>3, <1>4 DEF ToSet
<1> QED BY <1>5, <1>6 DEF t

LEMMA ElementsInFront ==
  ASSUME NEW s \in Seq(Honest), NEW ev \in Honest
  PROVE  /\ Head(<<ev>> \o s) = ev /\ Tail(<<ev>> \o s) = s
         /\ ToSet(<<ev>> \o s) = {ev} \cup ToSet(s)
<1> DEFINE t == <<ev>> \o s
<1>1. t \in Seq(Honest) /\ t # <<>> /\ Head(t) = ev /\ Tail(t) = s
      OBVIOUS
<1> HIDE DEF t
<1> QED BY <1>1, ElementsOfRest DEF t

LEMMA ElementsBehind ==
  ASSUME NEW s \in Seq(Honest), NEW ev \in Honest
  PROVE  ToSet(Append(s, ev)) = ToSet(s) \cup {ev}
<1> DEFINE t == Append(s, ev)
<1>1. /\ Len(s) \in Nat /\ DOMAIN s = 1..Len(s) /\ DOMAIN t = 1..(Len(s) + 1)
      /\ \A i \in 1..Len(s) : t[i] = s[i]
      /\ t[Len(s) + 1] = ev
      OBVIOUS
<1> HIDE DEF t
<1>2. DOMAIN t = DOMAIN s \cup {Len(s) + 1}
      BY <1>1
<1> QED BY <1>1, <1>2 DEF ToSet, t

\* A finite set as a sequence has the same elements.
LEMMA ElementsOfSet ==
  ASSUME NEW S, IsFiniteSet(S)
  PROVE  ToSet(SetToSeq(S)) = S
<1> DEFINE n == Cardinality(S)
           f == SetToSeq(S)
<1>1. n \in Nat /\ ExistsBijection(1..n, S)
      BY FS_CardinalityType
<1>2. \E g \in [1..n -> S] : IsInjective(g)
      BY <1>1 DEF ExistsBijection, Bijection, Injection, IsInjective
<1>3. f \in [1..n -> S] /\ IsInjective(f)
      BY <1>2 DEF SetToSeq
<1> HIDE DEF f
<1>4. IsFiniteSet(1..n) /\ Cardinality(1..n) = n
      BY <1>1, FS_Interval
<1>5. f \in Surjection(1..n, S)
      BY <1>3, <1>4, FS_Injection DEF Injection, IsInjective
<1> QED BY <1>3, <1>5 DEF Surjection, ToSet, f
-----------------------------------------------------------------------------
(* Where a handler is with its events *)

\* Out-of-order with charge ch: CONFIRMED built and held back, then RECEIVED
\* built and put in front (chaos.go:201-219).
Order(place, w, ch) ==
  LET confirmed == Snapshot(ch, "confirmed")
      received  == Snapshot(ch, "received")
  IN \/ place = "build" /\ w.todo = <<confirmed>> /\ w.events = <<>>
     \/ place = "second" /\ w.todo = <<>> /\ w.events = <<confirmed>>
     \/ place = "build" /\ w.todo = <<received>> /\ w.events = <<confirmed>>
     \/ /\ place \in {"subscribers", "enqueue", "record"} /\ w.todo = <<>>
        /\ w.events = <<received, confirmed>> \/ w.events = <<confirmed>>

\* Handlers that announce nothing have no events, and one that replays has one.
Shaped(place, w) ==
  /\ w.reverse \in BOOLEAN
  /\ w.reverse => \E ch \in ChargeIds : Order(place, w, ch)
  /\ place = "second" => w.reverse
  /\ place \in {"idle", "add", "push", "resume"} => w.todo = <<>> /\ w.events = <<>>
  /\ place = "replay" => w.todo = <<>> /\ Tail(w.events) = <<>>

HandlersShaped == \A c \in Callers : Shaped(pc[c], work[c])

LEMMA HandlerShapes ==
  ASSUME HandlersShaped, StoresInv, NEW c \in Callers, NEW place, NEW v,
         Goto(c, place, v), place # "idle" => Shaped(place, v)
  PROVE  HandlersShaped'
<1>1. OnlyMoves(c, place) /\ (place # "idle" => work'[c] = v)
      BY GotoMoves
<1>2. place = "idle" => work'[c] = Idle
      BY DEF StoresInv, Domains, Goto
<1>3. Shaped("idle", Idle)
      BY DEF Shaped, Idle
<1>4. Shaped(pc'[c], work'[c])
      BY <1>1, <1>2, <1>3 DEF OnlyMoves
<1> QED BY <1>1, <1>4 DEF OnlyMoves, HandlersShaped

LEMMA ShapesStep ==
  HandlersShaped /\ StoresInv /\ Told /\ [Next]_vars => HandlersShaped'
<1> SUFFICES ASSUME HandlersShaped, StoresInv, Told, [Next]_vars PROVE HandlersShaped'
    OBVIOUS
<1>1. CASE UNCHANGED <<pc, work>>
      BY <1>1 DEF HandlersShaped
<1>2. CASE Restart
      BY <1>2 DEF Restart, HandlersShaped, Shaped, Idle
<1>3. ASSUME NEW c \in Callers, NEW place, NEW v, Goto(c, place, v),
             v.todo = <<>>, v.events = <<>>, v.reverse = FALSE,
             place \in {"idle", "add", "push", "resume"}
      PROVE  HandlersShaped'
      BY <1>3, HandlerShapes DEF Shaped
<1>4. ASSUME NEW c \in Callers, Arrive(c) PROVE HandlersShaped'
  <2>1. ASSUME NEW ch \in ChargeIds, NEW due \in Times, CreatePayment(c, ch, due)
        PROVE  HandlersShaped'
        BY <1>1, <2>1 DEF CreatePayment
  <2>2. ASSUME NEW place, NEW v, Goto(c, place, v), place \in {"build", "idle"},
               v.reverse = FALSE
        PROVE  HandlersShaped'
        BY <2>2, HandlerShapes DEF Shaped
  <2>3. ASSUME NEW ch \in ChargeIds, NEW to, Trigger(c, ch, to) PROVE HandlersShaped'
    <3> DEFINE v == [Idle EXCEPT !.todo = <<Snapshot(ch, to)>>]
    <3>1. Goto(c, "build", v) /\ v.reverse = FALSE
          BY <2>3 DEF Trigger, Idle
    <3> HIDE DEF v
    <3> QED BY <2>2, <3>1
  <2>4. ASSUME NEW ch \in ChargeIds, OutOfOrder(c, ch) PROVE HandlersShaped'
    <3> DEFINE v == [Idle EXCEPT !.todo = <<Snapshot(ch, "confirmed")>>, !.reverse = TRUE]
    <3>1. /\ Goto(c, "build", v) /\ v.reverse = TRUE
          /\ v.todo = <<Snapshot(ch, "confirmed")>> /\ v.events = <<>>
          BY <2>4 DEF OutOfOrder, Idle
    <3> HIDE DEF v
    <3>2. Shaped("build", v)
          BY <3>1 DEF Shaped, Order
    <3> QED BY <3>1, <3>2, HandlerShapes
  <2>5. ASSUME NEW ch \in ChargeIds, Replay(c, ch) PROVE HandlersShaped'
    <3> DEFINE v == [Idle EXCEPT !.events = <<lastEvents[ch].event>>,
                                 !.subs = lastEvents[ch].hooks]
    <3>1. /\ Goto(c, "replay", v) /\ v.reverse = FALSE
          /\ v.todo = <<>> /\ Tail(v.events) = <<>>
          BY <2>5 DEF Replay, Idle
    <3> HIDE DEF v
    <3> QED BY <3>1, HandlerShapes DEF Shaped
  <2>6. ASSUME NEW target \in Times, ClockAdvance(c, target) PROVE HandlersShaped'
    <3> DEFINE due == FallDue(target)
               v == [Idle EXCEPT !.todo =
                       SetToSeq({Snapshot(ch, "overdue") : ch \in due})]
    <3>1. Goto(c, IF due = {} THEN "idle" ELSE "build", v) /\ v.reverse = FALSE
          BY <2>6 DEF ClockAdvance, Idle
    <3> HIDE DEF v, due
    <3> QED BY <2>2, <3>1
  <2>7. ASSUME NEW h \in Hooks, NEW entry \in Entries, CreateWebhook(c, h, entry)
        PROVE  HandlersShaped'
    <3> DEFINE v == [Idle EXCEPT !.hook = h, !.entry = entry]
    <3>1. Goto(c, "add", v) /\ v.reverse = FALSE /\ v.todo = <<>> /\ v.events = <<>>
          BY <2>7 DEF CreateWebhook, Idle
    <3> HIDE DEF v
    <3> QED BY <1>3, <3>1
  <2>8. ASSUME NEW h \in Hooks, NEW u \in Updates, UpdateWebhook(c, h, u)
        PROVE  HandlersShaped'
    <3> DEFINE v == [Idle EXCEPT !.hook = h, !.entry = Updated(registry[h], u),
                                 !.resume = u.resume]
    <3>1. /\ \E place \in {"push", "resume", "idle"} : Goto(c, place, v)
          /\ v.reverse = FALSE /\ v.todo = <<>> /\ v.events = <<>>
          BY <2>8 DEF UpdateWebhook, Idle
    <3> HIDE DEF v
    <3> QED BY <1>3, <3>1
  <2> QED BY <1>4, <2>1, <2>3, <2>4, <2>5, <2>6, <2>7, <2>8 DEF Arrive
<1>5. ASSUME NEW c \in Callers, Proceed(c) PROVE HandlersShaped'
  <2> DEFINE w == work[c]
  <2>1. Shaped(pc[c], w) /\ Truthful(pc[c], w, accepted)
        BY DEF HandlersShaped, Told, HandlersTold
  <2>2. CASE SecondTransition(c) \/ SecondRefused(c)
    <3>1. PICK ch \in ChargeIds : w.todo = <<>> /\ w.events = <<Snapshot(ch, "confirmed")>>
          BY <2>1, <2>2 DEF SecondTransition, SecondRefused, Shaped, Order
    <3>2. w.reverse = TRUE
          BY <2>1, <2>2 DEF SecondTransition, SecondRefused, Shaped
    <3>3. CASE SecondTransition(c)
      <4> DEFINE v == [w EXCEPT !.todo = <<Snapshot(ch, "received")>>]
      <4>1. Head(w.events).charge = ch
            BY <3>1 DEF Snapshot
      <4>2. /\ Goto(c, "build", v)
            /\ v.events = w.events /\ v.reverse = w.reverse
            /\ v.todo = <<Snapshot(ch, "received")>>
            BY <3>3, <4>1 DEF SecondTransition
      <4> HIDE DEF v
      <4>3. Shaped("build", v)
            BY <3>1, <3>2, <4>2 DEF Shaped, Order
      <4> QED BY <4>2, <4>3, HandlerShapes
    <3>4. CASE SecondRefused(c)
      <4>1. Goto(c, "subscribers", w)
            BY <3>4 DEF SecondRefused
      <4>2. Shaped("subscribers", w)
            BY <3>1, <3>2 DEF Shaped, Order
      <4> QED BY <4>1, <4>2, HandlerShapes
    <3> QED BY <2>2, <3>3, <3>4
  <2>3. CASE Build(c)
    <3> DEFINE place == IF w.reverse /\ w.events = <<>> THEN "second" ELSE "subscribers"
               v == [w EXCEPT !.todo = Tail(@), !.events = Announce(@, Built(Head(w.todo)))]
    <3>1. /\ pc[c] = "build" /\ Goto(c, place, v)
          /\ v.reverse = w.reverse /\ v.todo = Tail(w.todo)
          /\ v.events = <<Head(w.todo)>> \o w.events
          BY <2>3 DEF Build, Announce, Built
    <3> HIDE DEF v
    <3>2. CASE w.reverse = FALSE
          BY <3>1, <3>2, HandlerShapes DEF Shaped
    <3>3. CASE w.reverse = TRUE
      <4>1. PICK ch \in ChargeIds : Order("build", w, ch)
            BY <2>1, <3>1, <3>3 DEF Shaped
      <4>2. Order(place, v, ch)
        <5>1. CASE w.todo = <<Snapshot(ch, "confirmed")>> /\ w.events = <<>>
          <6>1. v.todo = <<>> /\ v.events = <<Snapshot(ch, "confirmed")>> /\ place = "second"
                BY <3>1, <3>3, <5>1
          <6> QED BY <6>1 DEF Order
        <5>2. CASE /\ w.todo = <<Snapshot(ch, "received")>>
                   /\ w.events = <<Snapshot(ch, "confirmed")>>
          <6>1. /\ v.todo = <<>> /\ place = "subscribers"
                /\ v.events = <<Snapshot(ch, "received"), Snapshot(ch, "confirmed")>>
                BY <3>1, <3>3, <5>2, Tuples
          <6> QED BY <6>1 DEF Order
        <5> QED BY <4>1, <5>1, <5>2 DEF Order
      <4> HIDE DEF place
      <4>3. place \in {"second", "subscribers"}
            BY DEF place
      <4>4. Shaped(place, v)
            BY <3>1, <3>3, <4>2, <4>3 DEF Shaped
      <4> QED BY <3>1, <4>4, HandlerShapes
    <3> QED BY <2>1, <3>2, <3>3 DEF Shaped
  <2>4. ASSUME NEW place \in {"subscribers", "enqueue", "record"}, NEW v,
               pc[c] \in {"subscribers", "enqueue", "record"},
               Goto(c, place, v), v.todo = w.todo, v.events = w.events,
               v.reverse = w.reverse
        PROVE  HandlersShaped'
    <3>1. Shaped(place, v)
          BY <2>1, <2>4 DEF Shaped, Order
    <3> QED BY <2>4, <3>1, HandlerShapes
  <2>5. CASE ReadSubscribers(c)
    <3> DEFINE subs == Subscribers(Head(w.events).type)
               v == [w EXCEPT !.subs = subs, !.sent = {}]
    <3>1. /\ Goto(c, IF subs = {} THEN "record" ELSE "enqueue", v) /\ pc[c] = "subscribers"
          /\ v.todo = w.todo /\ v.events = w.events /\ v.reverse = w.reverse
          BY <2>5 DEF ReadSubscribers
    <3> HIDE DEF v, subs
    <3> QED BY <2>4, <3>1
  <2>6. ASSUME NEW h \in Hooks, EnqueueTo(c, h) PROVE HandlersShaped'
    <3> DEFINE left == w.subs \ {h}
               v == [w EXCEPT !.subs = left, !.sent = Reached(@, h)]
    <3>1. /\ Goto(c, IF left = {} THEN "record" ELSE "enqueue", v) /\ pc[c] = "enqueue"
          /\ v.todo = w.todo /\ v.events = w.events /\ v.reverse = w.reverse
          BY <2>6 DEF EnqueueTo
    <3> HIDE DEF v, left
    <3> QED BY <2>4, <3>1
  <2>7. CASE RecordLast(c)
    <3> DEFINE rest == Tail(w.events)
               v == [w EXCEPT !.events = rest, !.sent = {}]
               place == IF rest # <<>> THEN "subscribers"
                        ELSE IF w.todo # <<>> THEN "build" ELSE "idle"
    <3>1. /\ Goto(c, place, v) /\ pc[c] = "record"
          /\ v.todo = w.todo /\ v.events = rest /\ v.reverse = w.reverse
          BY <2>7 DEF RecordLast, Others
    <3> HIDE DEF v
    <3>2. CASE w.reverse = FALSE
          BY <3>1, <3>2, HandlerShapes DEF Shaped
    <3>3. CASE w.reverse = TRUE
      <4>1. PICK ch \in ChargeIds : Order("record", w, ch)
            BY <2>1, <3>1, <3>3 DEF Shaped
      <4>2. place # "idle" => place = "subscribers" /\ Order(place, v, ch)
        <5> DEFINE C == Snapshot(ch, "confirmed")
                   R == Snapshot(ch, "received")
        <5>1. w.todo = <<>> /\ (w.events = <<R, C>> \/ w.events = <<C>>)
              BY <4>1 DEF Order
        <5>2. Tail(<<R, C>>) = <<C>> /\ Tail(<<C>>) = <<>>
              BY Tuples
        <5>3. w.todo = <<>> /\ (rest = <<>> \/ rest = <<C>>)
              BY <5>1, <5>2
        <5> QED BY <3>1, <5>3 DEF Order
      <4> HIDE DEF place
      <4>3. place # "idle" => Shaped(place, v)
            BY <3>1, <3>3, <4>2 DEF Shaped
      <4> QED BY <3>1, <4>3, HandlerShapes
    <3> QED BY <2>1, <3>2, <3>3 DEF Shaped
  <2>8. ASSUME NEW h \in Hooks, ReplayTo(c, h) PROVE HandlersShaped'
    <3> DEFINE left == w.subs \ {h}
               v == [w EXCEPT !.subs = left]
    <3>1. /\ Goto(c, IF left = {} THEN "idle" ELSE "replay", v) /\ pc[c] = "replay"
          /\ v.todo = w.todo /\ v.events = w.events /\ v.reverse = w.reverse
          BY <2>8 DEF ReplayTo
    <3>2. w.reverse = FALSE
          BY <2>1, <3>1 DEF Shaped, Order
    <3> HIDE DEF v, left
    <3>3. Shaped("replay", v)
          BY <2>1, <3>1, <3>2 DEF Shaped
    <3> QED BY <3>1, <3>3, HandlerShapes
  <2>9. CASE AddToRegistry(c) \/ PushToDispatcher(c) \/ ReactivateQueue(c)
    <3>1. /\ \/ Goto(c, "idle", Idle)
             \/ \E place \in {"resume", "idle"} : Goto(c, place, w)
          /\ pc[c] \in {"add", "push", "resume"}
          BY <2>9 DEF AddToRegistry, PushToDispatcher, ReactivateQueue
    <3>2. w.todo = <<>> /\ w.events = <<>> /\ w.reverse = FALSE
          BY <2>1, <3>1 DEF Shaped, Order
    <3>3. Idle.todo = <<>> /\ Idle.events = <<>> /\ Idle.reverse = FALSE
          BY DEF Idle
    <3> QED BY <1>3, <3>1, <3>2, <3>3
  <2> QED BY <1>5, <2>2, <2>3, <2>5, <2>6, <2>7, <2>8, <2>9 DEF Proceed
<1> QED BY <1>1, <1>2, <1>4, <1>5 DEF Next, Dispatching, CloseDispatcher, vars
-----------------------------------------------------------------------------
(* No announcement vanishes *)

\* An event is queued at every webhook in wanted.
Arrived(ev, wanted, queued) == \A h \in wanted : ev \in ToSet(queued[h])

\* A handler has yet to enqueue ev, at least where it is wanted and not queued.
Owes(place, w, ev, wanted, queued) ==
  /\ place # "replay"
  /\ \/ ev \in ToSet(w.todo)
     \/ w.events # <<>> /\ ev \in ToSet(Tail(w.events))
     \/ /\ w.events # <<>> /\ ev = Head(w.events)
        /\ place = "enqueue" => Arrived(ev, wanted \ w.subs, queued)
        /\ place = "record" => Arrived(ev, wanted, queued)

\* Who was entitled to a status is still subscribed to it.
EntitledListed ==
  \A ch \in ChargeIds, status \in Announced :
    entitled[<<ch, status>>] \subseteq Subscribers(status)

Carried(c, ch, status) ==
  Owes(pc[c], work[c], Snapshot(ch, status), entitled[<<ch, status>>], accepted)

\* The inductive invariant behind WantedEventsArrive.
Announcing ==
  ~closed => \A ch \in ChargeIds, status \in Announced :
    \/ Arrived(Snapshot(ch, status), entitled[<<ch, status>>], accepted)
    \/ \E c \in Callers : Carried(c, ch, status)

\* What a handler that moves to place with locals v leaves of an announcement.
AnnouncedNext(place, v, ch, status) ==
  \/ Arrived(Snapshot(ch, status), entitled'[<<ch, status>>], accepted')
  \/ /\ place # "idle"
     /\ Owes(place, v, Snapshot(ch, status), entitled'[<<ch, status>>], accepted')

LEMMA OwesStays ==
  ASSUME Grows, NEW place, NEW w, NEW ev, NEW wanted \in SUBSET Hooks,
         NEW less \in SUBSET wanted
  PROVE  /\ Arrived(ev, wanted, accepted) => Arrived(ev, less, accepted')
         /\ Owes(place, w, ev, wanted, accepted) => Owes(place, w, ev, less, accepted')
BY DEF Grows, Owes, Arrived

\* A step of one handler keeps the announcements if it goes on owing what it
\* owed, and takes over what has become wanted.
LEMMA HandlerAnnounces ==
  ASSUME Announcing, StoresInv, Bookkeeping, Grows,
         NEW c \in Callers, NEW place, NEW v, Goto(c, place, v),
         closed' = closed,
         \A ch \in ChargeIds, status \in Announced :
           \/ ~closed => AnnouncedNext(place, v, ch, status)
           \/ /\ entitled'[<<ch, status>>] \subseteq entitled[<<ch, status>>]
              /\ ~Carried(c, ch, status)
  PROVE  Announcing'
<1> SUFFICES ASSUME ~closed, NEW ch \in ChargeIds, NEW status \in Announced
             PROVE  \/ Arrived(Snapshot(ch, status), entitled'[<<ch, status>>], accepted')
                    \/ \E d \in Callers : Carried(d, ch, status)'
    BY DEF Announcing, Snapshot
<1>1. OnlyMoves(c, place) /\ (place # "idle" => work'[c] = v)
      BY GotoMoves
<1>2. CASE AnnouncedNext(place, v, ch, status)
  <2>1. CASE place # "idle" /\ Owes(place, v, Snapshot(ch, status),
                                   entitled'[<<ch, status>>], accepted')
        BY <1>1, <2>1 DEF OnlyMoves, Carried, Snapshot
  <2> QED BY <1>2, <2>1 DEF AnnouncedNext
<1>3. CASE /\ entitled'[<<ch, status>>] \subseteq entitled[<<ch, status>>]
           /\ ~Carried(c, ch, status)
  <2>1. entitled[<<ch, status>>] \in SUBSET Hooks
        BY DEF Bookkeeping
  <2>2. CASE Arrived(Snapshot(ch, status), entitled[<<ch, status>>], accepted)
        BY <1>3, <2>1, <2>2, OwesStays
  <2>3. ASSUME NEW d \in Callers, Carried(d, ch, status)
        PROVE  Carried(d, ch, status)'
    <3>1. d # c
          BY <1>3, <2>3
    <3>2. pc'[d] = pc[d] /\ work'[d] = work[d]
          BY <1>1, <3>1 DEF OnlyMoves
    <3>3. Owes(pc[d], work[d], Snapshot(ch, status), entitled'[<<ch, status>>], accepted')
          BY <1>3, <2>1, <2>3, OwesStays DEF Carried
    <3> QED BY <3>2, <3>3 DEF Carried, Snapshot
  <2> QED BY <2>2, <2>3 DEF Announcing
<1> QED BY <1>2, <1>3

LEMMA IdleOwesNothing ==
  ASSUME HandlersShaped, NEW c \in Callers,
         pc[c] \in {"idle", "add", "push", "resume", "replay"}
  PROVE  \A ch, status : ~Carried(c, ch, status)
<1>1. pc[c] # "replay" => work[c].todo = <<>> /\ work[c].events = <<>>
      BY DEF HandlersShaped, Shaped
<1> QED BY <1>1, ElementsOfTuples DEF Carried, Owes

\* A handler that announces nothing, and entitles nobody.
LEMMA SilentSteps ==
  ASSUME Announcing, StoresInv, Bookkeeping, HandlersShaped, Grows,
         NEW c \in Callers, pc[c] \in {"idle", "add", "push", "resume", "replay"},
         NEW place, NEW v, Goto(c, place, v), closed' = closed,
         \A t \in ChargeIds \X Announced : entitled'[t] \subseteq entitled[t]
  PROVE  Announcing'
BY IdleOwesNothing, HandlerAnnounces

\* A handler that starts to announce what it did to the charges in started.
LEMMA StartsAnnouncing ==
  ASSUME Announcing, StoresInv, Bookkeeping, HandlersShaped, Grows,
         NEW c \in Callers, pc[c] = "idle", closed' = closed,
         NEW v, Goto(c, "build", v),
         \A ch \in ChargeIds, status \in Announced :
           \/ entitled'[<<ch, status>>] = entitled[<<ch, status>>]
           \/ Snapshot(ch, status) \in ToSet(v.todo)
  PROVE  Announcing'
<1>1. \A ch \in ChargeIds, status \in Announced :
        Snapshot(ch, status) \in ToSet(v.todo) => AnnouncedNext("build", v, ch, status)
      BY DEF AnnouncedNext, Owes
<1> QED BY <1>1, IdleOwesNothing, HandlerAnnounces

LEMMA ArrivalsAnnounce ==
  ASSUME Announcing, StoresInv, Told, Bookkeeping, HandlersShaped,
         NEW c \in Callers, Arrive(c)
  PROVE  Announcing'
<1>1. UNCHANGED accepted => Grows
      BY DEF Told, Grows
<1>2. ASSUME NEW ch \in ChargeIds, NEW due \in Times, CreatePayment(c, ch, due)
      PROVE  Announcing'
      BY <1>2 DEF CreatePayment, queues, history, Announcing, Arrived, Carried, Owes,
             Snapshot
<1>3. ASSUME NEW ch \in ChargeIds, NEW to \in Announced, NEW v, pc[c] = "idle",
             Transition(ch, to), Goto(c, "build", v), v.todo = <<Snapshot(ch, to)>>,
             UNCHANGED <<accepted, closed>>
      PROVE  Announcing'
  <2>1. Snapshot(ch, to) \in ToSet(v.todo)
        BY <1>3, ElementsOfTuples
  <2>2. \A k \in ChargeIds, status \in Announced :
          \/ entitled'[<<k, status>>] = entitled[<<k, status>>]
          \/ k = ch /\ status = to
        BY <1>3 DEF Transition, Bookkeeping
  <2> QED BY <1>1, <1>3, <2>1, <2>2, StartsAnnouncing
<1>4. ASSUME NEW ch \in ChargeIds, NEW to, Trigger(c, ch, to) PROVE Announcing'
  <2> DEFINE v == [Idle EXCEPT !.todo = <<Snapshot(ch, to)>>]
  <2>1. /\ Goto(c, "build", v) /\ v.todo = <<Snapshot(ch, to)>> /\ to \in Announced
        /\ pc[c] = "idle" /\ Transition(ch, to) /\ UNCHANGED <<accepted, closed>>
        BY <1>4 DEF Trigger, Idle, Announced, queues
  <2> HIDE DEF v
  <2> QED BY <2>1, <1>3
<1>5. ASSUME NEW ch \in ChargeIds, OutOfOrder(c, ch) PROVE Announcing'
  <2> DEFINE v == [Idle EXCEPT !.todo = <<Snapshot(ch, "confirmed")>>, !.reverse = TRUE]
  <2>1. /\ Goto(c, "build", v) /\ v.todo = <<Snapshot(ch, "confirmed")>>
        /\ pc[c] = "idle" /\ Transition(ch, "confirmed") /\ UNCHANGED <<accepted, closed>>
        BY <1>5 DEF OutOfOrder, Idle, queues
  <2> HIDE DEF v
  <2> QED BY <2>1, <1>3 DEF Announced
<1>6. ASSUME NEW target \in Times, ClockAdvance(c, target) PROVE Announcing'
  <2> DEFINE due == FallDue(target)
             S == {Snapshot(ch, "overdue") : ch \in due}
             v == [Idle EXCEPT !.todo = SetToSeq(S)]
  <2>1. /\ pc[c] = "idle" /\ UNCHANGED <<accepted, closed>>
        /\ Goto(c, IF due = {} THEN "idle" ELSE "build", v) /\ v.todo = SetToSeq(S)
        BY <1>6 DEF ClockAdvance, Idle, queues
  <2>2. IsFiniteSet(due)
        BY FS_Subset DEF FallDue, Told, LedgerKeeps
  <2>3. IsFiniteSet(S)
    <3> DEFINE f == [ch \in due |-> Snapshot(ch, "overdue")]
    <3>1. f \in Surjection(due, S)
          BY DEF Surjection
    <3> HIDE DEF f, S, due
    <3> QED BY <2>2, <3>1, FS_Surjection
  <2>4. \A ch \in ChargeIds, status \in Announced :
          \/ entitled'[<<ch, status>>] = entitled[<<ch, status>>]
          \/ ch \in due /\ status = "overdue"
    <3>1. \A ch \in DOMAIN ledger : ledger[ch].status # ledger'[ch].status => ch \in due
          BY <1>6 DEF ClockAdvance, Books!Advance, FallDue
    <3> HIDE DEF due
    <3> QED BY <1>6, <3>1 DEF ClockAdvance, Bookkeeping
  <2>5. \A ch \in due : Snapshot(ch, "overdue") \in S
        OBVIOUS
  <2> HIDE DEF v, S, due
  <2>6. ToSet(v.todo) = S
        BY <2>1, <2>3, ElementsOfSet
  <2>7. CASE due = {}
        BY <1>1, <2>1, <2>4, <2>7, SilentSteps
  <2>8. CASE due # {}
    <3>1. \A ch \in ChargeIds, status \in Announced :
            \/ entitled'[<<ch, status>>] = entitled[<<ch, status>>]
            \/ Snapshot(ch, status) \in ToSet(v.todo)
          BY <2>4, <2>5, <2>6
    <3> QED BY <1>1, <2>1, <2>8, <3>1, StartsAnnouncing
  <2> QED BY <2>7, <2>8
<1>7. CASE \/ \E ch : Replay(c, ch)
           \/ \E h, entry : CreateWebhook(c, h, entry)
           \/ \E h, u : UpdateWebhook(c, h, u)
  <2>1. /\ pc[c] = "idle" /\ UNCHANGED <<accepted, closed>>
        /\ \E place, v : Goto(c, place, v)
        BY <1>7 DEF Replay, CreateWebhook, UpdateWebhook, queues
  <2>2. \A t \in ChargeIds \X Announced : entitled'[t] \subseteq entitled[t]
        BY <1>7 DEF Replay, CreateWebhook, UpdateWebhook, history, Bookkeeping
  <2> QED BY <1>1, <2>1, <2>2, SilentSteps
<1> QED BY <1>2, <1>4, <1>5, <1>6, <1>7 DEF Arrive

\* A handler that goes on, entitling nobody: it owes next what it owed.
LEMMA GoesOnAnnouncing ==
  ASSUME Announcing, StoresInv, Bookkeeping, Grows,
         NEW c \in Callers, NEW place, NEW v, Goto(c, place, v),
         UNCHANGED <<closed, entitled>>,
         \A ch \in ChargeIds, status \in Announced :
           ~closed /\ Carried(c, ch, status) => AnnouncedNext(place, v, ch, status)
  PROVE  Announcing'
BY HandlerAnnounces

\* What a handler owes is among its events.
LEMMA OwedEvents ==
  ASSUME Told, NEW c \in Callers, NEW ch, NEW status, Carried(c, ch, status)
  PROVE  \/ Snapshot(ch, status) \in ToSet(work[c].todo)
         \/ work[c].events # <<>> /\ Snapshot(ch, status) \in ToSet(work[c].events)
<1>1. work[c].events \in Seq(Honest)
      BY DEF Told, HandlersTold, Truthful
<1> QED BY <1>1, ElementsOfRest DEF Carried, Owes

LEMMA ProceedingAnnounces ==
  ASSUME Announcing, EntitledListed, StoresInv, Told, Bookkeeping, HandlersShaped,
         NEW c \in Callers, Proceed(c)
  PROVE  Announcing'
<1> DEFINE w == work[c]
<1>1. UNCHANGED accepted => Grows
      BY DEF Told, Grows
<1>2. /\ Shaped(pc[c], w) /\ Truthful(pc[c], w, accepted)
      /\ w.todo \in Seq(Honest) /\ w.events \in Seq(Honest)
      BY DEF HandlersShaped, Told, HandlersTold, Truthful
<1>3. pc[c] \in {"second", "subscribers", "enqueue", "record", "replay"} =>
        /\ w.events # <<>> /\ Head(w.events) \in Honest
        /\ Tail(w.events) \in Seq(Honest)
      BY <1>2 DEF Truthful
<1>4. CASE SecondTransition(c)
  <2>1. PICK k \in ChargeIds : w.todo = <<>> /\ w.events = <<Snapshot(k, "confirmed")>>
        BY <1>2, <1>4 DEF SecondTransition, Shaped, Order
  <2> DEFINE v == [w EXCEPT !.todo = <<Snapshot(k, "received")>>]
  <2>2. Head(w.events).charge = k
        BY <2>1 DEF Snapshot
  <2>3. /\ Goto(c, "build", v) /\ v.events = w.events
        /\ v.todo = <<Snapshot(k, "received")>> /\ pc[c] = "second"
        /\ Transition(k, "received") /\ UNCHANGED <<accepted, closed>>
        BY <1>4, <2>2 DEF SecondTransition, queues
  <2> HIDE DEF v
  <2>4. ASSUME NEW ch \in ChargeIds, NEW status \in Announced
        PROVE  \/ AnnouncedNext("build", v, ch, status)
               \/ /\ entitled'[<<ch, status>>] \subseteq entitled[<<ch, status>>]
                  /\ ~Carried(c, ch, status)
    <3>1. CASE ch = k /\ status = "received"
          BY <2>3, <3>1, ElementsOfTuples DEF AnnouncedNext, Owes
    <3>2. CASE ~(ch = k /\ status = "received")
      <4>1. entitled'[<<ch, status>>] = entitled[<<ch, status>>]
            BY <2>3, <3>2 DEF Transition, Bookkeeping
      <4>2. Carried(c, ch, status) => AnnouncedNext("build", v, ch, status)
            BY <2>1, <2>3, ElementsOfTuples DEF Carried, Owes, AnnouncedNext
      <4> QED BY <4>1, <4>2
    <3> QED BY <3>1, <3>2
  <2> QED BY <1>1, <2>3, <2>4, HandlerAnnounces
<1>5. CASE SecondRefused(c)
  <2>1. /\ Goto(c, "subscribers", w) /\ pc[c] = "second"
        /\ UNCHANGED <<accepted, closed, entitled>>
        BY <1>5 DEF SecondRefused, queues, history
  <2>2. \A ch, status : Carried(c, ch, status) =>
          AnnouncedNext("subscribers", w, ch, status)
        BY <2>1 DEF Carried, Owes, AnnouncedNext
  <2> QED BY <1>1, <2>1, <2>2, GoesOnAnnouncing
<1>6. CASE Build(c)
  <2> DEFINE ev == Head(w.todo)
             v == [w EXCEPT !.todo = Tail(@), !.events = Announce(@, Built(ev))]
  <2>1. /\ \E place \in {"second", "subscribers"} : Goto(c, place, v)
        /\ pc[c] = "build" /\ v.todo = Tail(w.todo) /\ v.events = <<ev>> \o w.events
        /\ UNCHANGED <<accepted, closed, entitled>>
        BY <1>6 DEF Build, Announce, Built, queues, history
  <2>2. w.todo # <<>> /\ ev \in Honest
        BY <1>2, <2>1 DEF Truthful
  <2>3. /\ ToSet(w.todo) = {ev} \cup ToSet(v.todo)
        /\ Head(v.events) = ev /\ Tail(v.events) = w.events /\ v.events # <<>>
        BY <1>2, <2>1, <2>2, ElementsOfRest, ElementsInFront
  <2> HIDE DEF v, ev
  <2>4. ASSUME NEW ch \in ChargeIds, NEW status \in Announced, Carried(c, ch, status),
               NEW place \in {"second", "subscribers"}
        PROVE  AnnouncedNext(place, v, ch, status)
        BY <2>3, <2>4, OwedEvents DEF AnnouncedNext, Owes
  <2> QED BY <1>1, <2>1, <2>4, GoesOnAnnouncing
<1>7. CASE ReadSubscribers(c)
  <2> DEFINE subs == Subscribers(Head(w.events).type)
             v == [w EXCEPT !.subs = subs, !.sent = {}]
             place == IF subs = {} THEN "record" ELSE "enqueue"
  <2>1. /\ Goto(c, place, v) /\ pc[c] = "subscribers"
        /\ v.todo = w.todo /\ v.events = w.events /\ v.subs = subs
        /\ UNCHANGED <<accepted, closed, entitled>>
        BY <1>7 DEF ReadSubscribers, queues, history
  <2> HIDE DEF v
  <2>2. ASSUME NEW ch \in ChargeIds, NEW status \in Announced, Carried(c, ch, status)
        PROVE  AnnouncedNext(place, v, ch, status)
    <3>1. Snapshot(ch, status) = Head(w.events) => entitled'[<<ch, status>>] \subseteq subs
          BY <2>1 DEF EntitledListed, Snapshot
    <3> HIDE DEF subs
    <3> QED BY <2>1, <2>2, <3>1 DEF Carried, Owes, AnnouncedNext, Arrived
  <2> HIDE DEF place
  <2> QED BY <1>1, <2>1, <2>2, GoesOnAnnouncing
<1>8. ASSUME NEW h \in Hooks, EnqueueTo(c, h) PROVE Announcing'
  <2> DEFINE left == w.subs \ {h}
             v == [w EXCEPT !.subs = left, !.sent = Reached(@, h)]
             place == IF left = {} THEN "record" ELSE "enqueue"
  <2>1. /\ Goto(c, place, v) /\ pc[c] = "enqueue" /\ Accepts(h, Head(w.events))
        /\ v.todo = w.todo /\ v.events = w.events /\ v.subs = left
        /\ UNCHANGED <<closed, entitled>>
        BY <1>8 DEF EnqueueTo, history
  <2>2. Grows /\ (~closed => Head(w.events) \in ToSet(accepted'[h]))
        BY <1>3, <2>1, AcceptGrows
  <2> HIDE DEF v
  <2>3. ASSUME NEW ch \in ChargeIds, NEW status \in Announced, Carried(c, ch, status),
               ~closed
        PROVE  AnnouncedNext(place, v, ch, status)
    <3> DEFINE wanted == entitled[<<ch, status>>]
               ev == Snapshot(ch, status)
    <3>1. wanted \subseteq Hooks
          BY DEF Bookkeeping
    <3>2. ASSUME ev = Head(w.events), Arrived(ev, wanted \ w.subs, accepted)
          PROVE  Arrived(ev, wanted \ left, accepted')
          BY <2>2, <2>3, <3>1, <3>2 DEF Arrived, Grows
    <3> HIDE DEF ev, wanted
    <3>3. Owes("enqueue", w, ev, wanted, accepted) => Owes(place, v, ev, wanted, accepted')
          BY <2>1, <3>2 DEF Owes, Arrived
    <3>4. Owes("enqueue", w, ev, wanted, accepted) /\ entitled' = entitled
          BY <2>1, <2>3 DEF Carried, ev, wanted
    <3> QED BY <3>3, <3>4 DEF AnnouncedNext, ev, wanted
  <2> HIDE DEF place
  <2> QED BY <2>1, <2>2, <2>3, GoesOnAnnouncing
<1>9. CASE RecordLast(c)
  <2> DEFINE rest == Tail(w.events)
             v == [w EXCEPT !.events = rest, !.sent = {}]
             place == IF rest # <<>> THEN "subscribers"
                      ELSE IF w.todo # <<>> THEN "build" ELSE "idle"
  <2>1. /\ Goto(c, place, v) /\ pc[c] = "record"
        /\ v.todo = w.todo /\ v.events = rest
        /\ UNCHANGED <<accepted, closed, entitled>>
        BY <1>9 DEF RecordLast, Others, queues, history
  <2> HIDE DEF v
  <2>2. ASSUME NEW ch \in ChargeIds, NEW status \in Announced, Carried(c, ch, status)
        PROVE  AnnouncedNext(place, v, ch, status)
    <3> DEFINE wanted == entitled[<<ch, status>>]
               ev == Snapshot(ch, status)
    <3>1. \/ ev \in ToSet(w.todo)
          \/ ev \in ToSet(rest)
          \/ Arrived(ev, wanted, accepted)
          BY <2>1, <2>2 DEF Carried, Owes
    <3>2. /\ w.todo = <<>> => ev \notin ToSet(w.todo)
          /\ rest = <<>> => ev \notin ToSet(rest)
          BY ElementsOfTuples
    <3>3. rest \in Seq(Honest)
          BY <1>3, <2>1
    <3>4. rest # <<>> => ToSet(rest) = {Head(rest)} \cup ToSet(Tail(rest))
          BY <3>3, ElementsOfRest
    <3> HIDE DEF ev, rest
    <3>5. \/ Arrived(ev, wanted, accepted)
          \/ place # "idle" /\ Owes(place, v, ev, wanted, accepted)
          BY <2>1, <3>1, <3>2, <3>4 DEF Owes
    <3> QED BY <2>1, <3>5 DEF AnnouncedNext, ev
  <2> HIDE DEF place
  <2> QED BY <1>1, <2>1, <2>2, GoesOnAnnouncing
<1>10. ASSUME NEW h \in Hooks, ReplayTo(c, h) PROVE Announcing'
  <2>1. /\ pc[c] = "replay" /\ Accepts(h, Head(w.events))
        /\ \E place, v : Goto(c, place, v)
        /\ UNCHANGED <<closed, entitled>>
        BY <1>10 DEF ReplayTo, history
  <2>2. Grows
        BY <1>3, <2>1, AcceptGrows
  <2> QED BY <2>1, <2>2, SilentSteps
<1>11. CASE AddToRegistry(c) \/ PushToDispatcher(c) \/ ReactivateQueue(c)
  <2>1. /\ pc[c] \in {"add", "push", "resume"} /\ \E place, v : Goto(c, place, v)
        /\ UNCHANGED <<accepted, closed, entitled>>
        BY <1>11 DEF AddToRegistry, PushToDispatcher, ReactivateQueue, queues, history,
                     Queues!Resume
  <2> QED BY <1>1, <2>1, SilentSteps
<1> QED BY <1>4, <1>5, <1>6, <1>7, <1>8, <1>9, <1>10, <1>11 DEF Proceed

LEMMA AnnouncingStep ==
  /\ Announcing /\ EntitledListed /\ StoresInv /\ Told /\ Bookkeeping /\ HandlersShaped
  /\ [Next]_vars
  => Announcing'
<1> SUFFICES ASSUME Announcing, EntitledListed, StoresInv, Told, Bookkeeping,
                    HandlersShaped, [Next]_vars
             PROVE  Announcing'
    OBVIOUS
<1>1. CASE Dispatching \/ UNCHANGED vars
  <2>1. UNCHANGED <<accepted, closed, entitled, pc, work>>
        BY <1>1 DEF Dispatching, vars, queues, history, Queues!Deliver, Queues!Fail
  <2> QED BY <2>1 DEF Announcing, Carried, Snapshot, Arrived, Owes
<1>2. CASE CloseDispatcher
      BY <1>2 DEF CloseDispatcher, Announcing
<1>3. CASE Restart
  <2>1. \A ch \in ChargeIds, status \in Announced : entitled'[<<ch, status>>] = {}
        BY <1>3 DEF Restart
  <2> QED BY <2>1 DEF Announcing, Arrived
<1> QED BY <1>1, <1>2, <1>3, ArrivalsAnnounce, ProceedingAnnounces DEF Next


\* The registry loses a subscriber only by an update, which ends what the webhook
\* was entitled to (webhook.go:280-319).
LEMMA EntitledStep ==
  EntitledListed /\ StoresInv /\ Bookkeeping /\ [Next]_vars => EntitledListed'
<1> SUFFICES ASSUME EntitledListed, StoresInv, Bookkeeping, [Next]_vars
             PROVE  EntitledListed'
    OBVIOUS
<1>1. ASSUME UNCHANGED registry PROVE \A type : Subscribers(type)' = Subscribers(type)
      BY <1>1 DEF Subscribers
<1>2. CASE UNCHANGED <<registry, entitled>>
      BY <1>1, <1>2 DEF EntitledListed
<1>3. ASSUME NEW ch, NEW to, Transition(ch, to), UNCHANGED registry
      PROVE  EntitledListed'
  <2>1. entitled' = [entitled EXCEPT ![<<ch, to>>] = Subscribers(to)]
        BY <1>3 DEF Transition
  <2> SUFFICES ASSUME NEW k \in ChargeIds, NEW status \in Announced
               PROVE  entitled'[<<k, status>>] \subseteq Subscribers(status)
      BY <1>1, <1>3 DEF EntitledListed
  <2>2. CASE k = ch /\ status = to
        BY <2>1, <2>2 DEF Bookkeeping
  <2>3. CASE ~(k = ch /\ status = to)
    <3>1. entitled'[<<k, status>>] = entitled[<<k, status>>]
          BY <2>1, <2>3 DEF Bookkeeping
    <3> QED BY <3>1 DEF EntitledListed
  <2> QED BY <2>2, <2>3
<1>4. ASSUME NEW c, NEW target, ClockAdvance(c, target) PROVE EntitledListed'
  <2>1. UNCHANGED registry
        BY <1>4 DEF ClockAdvance, hooks
  <2>2. \A k \in ChargeIds, status \in Announced :
          \/ entitled'[<<k, status>>] = entitled[<<k, status>>]
          \/ status = "overdue" /\ entitled'[<<k, status>>] = Subscribers("overdue")
        BY <1>4 DEF ClockAdvance, Bookkeeping
  <2> QED BY <1>1, <2>1, <2>2 DEF EntitledListed
<1>5. ASSUME NEW c, NEW h \in Hooks, NEW u, UpdateWebhook(c, h, u) PROVE EntitledListed'
  <2>1. \A g \in Hooks \ {h} : registry'[g] = registry[g]
        BY <1>5 DEF UpdateWebhook, StoresInv, Domains
  <2>2. \A type : Subscribers(type) \ {h} \subseteq Subscribers(type)'
        BY <2>1 DEF Subscribers
  <2>3. \A t \in ChargeIds \X Announced : entitled'[t] = entitled[t] \ {h}
        BY <1>5 DEF UpdateWebhook, Bookkeeping
  <2> QED BY <2>2, <2>3 DEF EntitledListed
<1>6. ASSUME NEW c \in Callers, AddToRegistry(c) PROVE EntitledListed'
  <2>1. /\ registry[work[c].hook] = None /\ UNCHANGED entitled
        /\ registry' = [registry EXCEPT ![work[c].hook] = work[c].entry]
        BY <1>6 DEF AddToRegistry, history, StoresInv, Adding
  <2>2. \A type : Subscribers(type) \subseteq Subscribers(type)'
        BY <2>1 DEF Subscribers, StoresInv, Domains
  <2> QED BY <2>1, <2>2 DEF EntitledListed
<1>7. CASE Restart
      BY <1>7 DEF Restart, EntitledListed
<1>8. ASSUME NEW c \in Callers, Arrive(c) PROVE EntitledListed'
  <2>1. ASSUME NEW ch \in ChargeIds,
               \/ \E to : Trigger(c, ch, to)
               \/ OutOfOrder(c, ch)
        PROVE  EntitledListed'
        BY <1>3, <2>1 DEF Trigger, OutOfOrder, hooks
  <2>2. CASE \/ \E ch, due : CreatePayment(c, ch, due)
             \/ \E ch : Replay(c, ch)
             \/ \E h, entry : CreateWebhook(c, h, entry)
        BY <1>2, <2>2 DEF CreatePayment, Replay, CreateWebhook, hooks, history
  <2> QED BY <1>4, <1>5, <1>8, <2>1, <2>2 DEF Arrive
<1>9. ASSUME NEW c \in Callers, Proceed(c) PROVE EntitledListed'
  <2>1. CASE SecondTransition(c)
        BY <1>3, <2>1 DEF SecondTransition, hooks
  <2>2. CASE ~SecondTransition(c) /\ ~AddToRegistry(c)
        BY <1>2, <1>9, <2>2 DEF Proceed, SecondRefused, Build, ReadSubscribers, RecordLast,
           EnqueueTo, ReplayTo, PushToDispatcher, ReactivateQueue, hooks, history
  <2> QED BY <1>6, <2>1, <2>2
<1> QED BY <1>2, <1>7, <1>8, <1>9
        DEF Next, Dispatching, CloseDispatcher, vars, hooks, history

LEMMA AnnouncingAlways == Spec => [](Announcing /\ EntitledListed /\ HandlersShaped)
<1>1. Init => Announcing /\ EntitledListed /\ HandlersShaped
  <2> SUFFICES ASSUME Init PROVE Announcing /\ EntitledListed /\ HandlersShaped
      OBVIOUS
  <2>1. \A ch \in ChargeIds, status \in Announced : entitled[<<ch, status>>] = {}
        BY DEF Init
  <2>2. Shaped("idle", Idle)
        BY DEF Shaped, Idle
  <2>3. HandlersShaped
        BY <2>2 DEF Init, HandlersShaped
  <2> QED BY <2>1, <2>3 DEF Announcing, EntitledListed, Arrived
<1> QED BY <1>1, AnnouncingStep, EntitledStep, ShapesStep, TypeInvAlways, PTL
        DEF Spec, TypeInv

\* No announcement vanishes: whoever wanted a status when a charge took it, and
\* was left alone since, has the event queued once no handler owes it any more,
\* whatever handlers, updates and webhooks come in between (webhook.go:97-160,
\* chaos.go:208-214).
THEOREM AnnouncementsArrive == Spec => []WantedEventsArrive
<1>1. Announcing /\ Told => WantedEventsArrive
  <2> SUFFICES ASSUME Announcing, Told, ~closed, NEW ch \in ChargeIds,
                      NEW status \in Announced, NEW c \in Callers, Carried(c, ch, status)
               PROVE  Carries(c, ch, status)
      BY DEF WantedEventsArrive, Announcing, Arrived
  <2>1. Snapshot(ch, status) \in ToSet(work[c].todo) \cup ToSet(work[c].events)
        BY OwedEvents
  <2>2. pc[c] # "replay"
        BY DEF Carried, Owes
  <2> QED BY <2>1, <2>2 DEF Carries, Snapshot
<1> QED BY <1>1, AnnouncingAlways, ToldAlways, PTL
-----------------------------------------------------------------------------
(* Out-of-order reverses its two events *)

\* What a charge can be once it has been announced as status.
After(status) ==
  {"received", "refunded"}
    \cup IF status = "received" THEN {}
         ELSE IF status = "confirmed" THEN {"confirmed"} ELSE {"overdue", "confirmed"}

\* The charge took that status, and may have moved on.
Took(ch, status) == ch \in DOMAIN ledger /\ ledger[ch].status \in After(status)

Contents(c) == ToSet(work[c].todo) \cup ToSet(work[c].events)

Queued(ev) == \E h \in Hooks : ev \in ToSet(accepted[h])

\* No event runs ahead of its charge.
StatusesTaken ==
  \A ch \in ChargeIds, status \in Announced :
    \/ Queued(Snapshot(ch, status))
    \/ \E c \in Callers : Snapshot(ch, status) \in Contents(c)
    => Took(ch, status)

\* Nobody but c knows of ev.
Unseen(c, ev) == ~Queued(ev) /\ \A d \in Callers \ {c} : ev \notin Contents(d)

\* Out-of-order holds CONFIRMED back until RECEIVED is built.
HeldBack ==
  \A c \in Callers : \A ch \in ChargeIds :
    /\ pc[c] \in {"build", "second"} /\ work[c].reverse
    /\ Snapshot(ch, "confirmed") \in Contents(c)
    => Unseen(c, Snapshot(ch, "confirmed"))

\* While RECEIVED is not announced everywhere, CONFIRMED is behind it.
InOrder ==
  \A c \in Callers : \A ch \in reversed :
    pc[c] # "replay" /\ Snapshot(ch, "received") \in Contents(c)
      => work[c].reverse /\ Unseen(c, Snapshot(ch, "confirmed"))

MovedTwice == \A ch \in reversed : Took(ch, "received")

\* What is replayed is queued where it is sent.
ReplayQueued ==
  \A c \in Callers : pc[c] = "replay" =>
    \A h \in work[c].subs : Head(work[c].events) \in ToSet(accepted[h])

\* The inductive invariant behind OutOfOrderReverses.
OrderInv ==
  StatusesTaken /\ HeldBack /\ InOrder /\ MovedTwice /\ ReplayQueued /\ OutOfOrderReverses

\* Snapshots are told apart by charge and type.
LEMMA SnapshotsDiffer ==
  \A ch, k, to, type : Snapshot(ch, to) = Snapshot(k, type) => ch = k /\ to = type
BY DEF Snapshot

Charges == [due : Times, status : Statuses, updatedAt : Times]

LedgerTyped == \A ch \in DOMAIN ledger : ledger[ch] \in Charges

LEMMA MoveMoves ==
  ASSUME LedgerTyped, Bookkeeping, NEW ch, NEW to, Books!Move(ch, to)
  PROVE  /\ ch \in DOMAIN ledger /\ DOMAIN ledger' = DOMAIN ledger
         /\ to \in Books!Allowed[ledger[ch].status]
         /\ ledger'[ch].status = to /\ ledger'[ch] \in Charges
         /\ \A k \in DOMAIN ledger : k # ch => ledger'[k] = ledger[k]
<1> DEFINE r == ledger[ch]
           changed == [r EXCEPT !.status = to]
           moved == [changed EXCEPT !.updatedAt = time]
<1>1. r \in Charges /\ ch \in DOMAIN ledger /\ to \in Books!Allowed[r.status]
      BY DEF LedgerTyped, Books!Move
<1>2. to \in Statuses
      BY <1>1 DEF Charges, Statuses, Announced, Books!Allowed
<1>3. time \in Times
      BY DEF Bookkeeping
<1>4. ledger' = [ledger EXCEPT ![ch] = moved]
      BY <1>1 DEF Books!Move
<1> HIDE DEF r
<1>5. changed \in Charges /\ changed.status = to
      BY <1>1, <1>2 DEF Charges
<1> HIDE DEF changed
<1>6. moved \in Charges /\ moved.status = to
      BY <1>3, <1>5 DEF Charges
<1> HIDE DEF moved
<1>7. ledger'[ch] = moved
      BY <1>1, <1>4
<1> QED BY <1>1, <1>4, <1>6, <1>7 DEF r

LEMMA LedgerTypedStep ==
  LedgerTyped /\ Bookkeeping /\ [Next]_vars => LedgerTyped'
<1> SUFFICES ASSUME LedgerTyped, Bookkeeping, [Next]_vars PROVE LedgerTyped'
    OBVIOUS
<1>1. time \in Times
      BY DEF Bookkeeping
<1>2. CASE UNCHANGED ledger
      BY <1>2 DEF LedgerTyped
<1>3. ASSUME NEW ch, NEW due \in Times, Books!Open(ch, due) PROVE LedgerTyped'
      BY <1>1, <1>3 DEF LedgerTyped, Charges, Books!Open, Statuses
<1>4. ASSUME NEW ch, NEW to, Books!Move(ch, to) PROVE LedgerTyped'
      BY <1>4, MoveMoves DEF LedgerTyped
<1>5. ASSUME NEW target \in Times, Books!Advance(target) PROVE LedgerTyped'
  <2> SUFFICES ASSUME NEW ch \in DOMAIN ledger PROVE ledger'[ch] \in Charges
      BY <1>5 DEF LedgerTyped, Books!Advance
  <2> DEFINE r == ledger[ch]
             changed == [r EXCEPT !.status = "overdue"]
             moved == [changed EXCEPT !.updatedAt = target]
  <2>1. r \in Charges /\ (ledger'[ch] = moved \/ ledger'[ch] = r)
        BY <1>5 DEF LedgerTyped, Books!Advance
  <2> HIDE DEF r
  <2>2. changed \in Charges
        BY <2>1 DEF Charges, Statuses, Announced
  <2> HIDE DEF changed
  <2>3. moved \in Charges
        BY <1>5, <2>2 DEF Charges
  <2> QED BY <2>1, <2>3 DEF r
<1>6. CASE Restart
      BY <1>6 DEF Restart, Books!Reopen, LedgerTyped
<1>7. ASSUME NEW c \in Callers, Arrive(c) PROVE LedgerTyped'
      BY <1>2, <1>3, <1>4, <1>5, <1>7 DEF Arrive, CreatePayment, Trigger, OutOfOrder, Replay,
         ClockAdvance, CreateWebhook, UpdateWebhook, Transition, engine
<1>8. ASSUME NEW c \in Callers, Proceed(c) PROVE LedgerTyped'
      BY <1>2, <1>4, <1>8 DEF Proceed, SecondTransition, SecondRefused, Build,
         ReadSubscribers, RecordLast, EnqueueTo, ReplayTo, AddToRegistry, PushToDispatcher,
         ReactivateQueue, Transition, engine
<1> QED BY <1>2, <1>6, <1>7, <1>8 DEF Next, Dispatching, CloseDispatcher, vars, engine

LEMMA StatusesMoveOn ==
  ASSUME LedgerTyped, Bookkeeping,
         \/ UNCHANGED ledger
         \/ \E k, due : Books!Open(k, due)
         \/ \E k, to : Books!Move(k, to)
         \/ \E target : Books!Advance(target),
         NEW ch, NEW status \in Announced, Took(ch, status)
  PROVE  Took(ch, status)'
<1>1. CASE UNCHANGED ledger
      BY <1>1 DEF Took
<1>2. CASE \E k, due : Books!Open(k, due)
      BY <1>2 DEF Took, Books!Open
<1>3. ASSUME NEW k, NEW to, Books!Move(k, to) PROVE Took(ch, status)'
  <2>1. CASE k # ch
        BY <1>3, <2>1, MoveMoves DEF Took
  <2>2. CASE k = ch
    <3>1. to \in Books!Allowed[ledger[ch].status]
          BY <1>3, <2>2, MoveMoves
    <3>2. to \in After(status)
          BY <3>1 DEF Took, After, Books!Allowed, Announced
    <3>3. DOMAIN ledger' = DOMAIN ledger /\ ledger'[ch].status = to
          BY <1>3, <2>2, MoveMoves
    <3> QED BY <3>2, <3>3 DEF Took
  <2> QED BY <2>1, <2>2
<1>4. CASE \E target : Books!Advance(target)
  <2>1. "created" \notin After(status)
        BY DEF After
  <2> QED BY <1>4, <2>1 DEF Took, Books!Advance
<1> QED BY <1>1, <1>2, <1>3, <1>4

\* A transition is to a status the charge had not taken.
LEMMA TransitionIsNew ==
  ASSUME LedgerTyped, Bookkeeping, NEW ch, NEW to \in Announced,
         Books!Move(ch, to)
  PROVE  ~Took(ch, to) /\ Took(ch, to)'
<1>1. /\ ch \in DOMAIN ledger /\ to \in Books!Allowed[ledger[ch].status]
      /\ DOMAIN ledger' = DOMAIN ledger /\ ledger'[ch].status = to
      BY MoveMoves
<1>2. to \in After(to)
      BY DEF After, Announced
<1>3. ledger[ch].status \notin After(to)
      BY <1>1 DEF After, Announced, Books!Allowed
<1> QED BY <1>1, <1>2, <1>3 DEF Took

\* The event of a transition made by this very step.
Announces(ev) ==
  \E ch \in ChargeIds, to \in Announced :
    ev = Snapshot(ch, to) /\ ~Took(ch, to) /\ Took(ch, to)'

LEMMA GotoContents ==
  ASSUME StoresInv, NEW c \in Callers, NEW place, NEW v, Goto(c, place, v)
  PROVE  /\ pc'[c] = place /\ OnlyMoves(c, pc'[c])
         /\ place # "idle" => /\ work'[c] = v
                              /\ Contents(c)' = ToSet(v.todo) \cup ToSet(v.events)
         /\ place = "idle" => ~work'[c].reverse /\ Contents(c)' = {}
<1>1. OnlyMoves(c, place) /\ (place # "idle" => work'[c] = v)
      BY GotoMoves
<1>2. place = "idle" => work'[c] = Idle
      BY DEF StoresInv, Domains, Goto
<1>3. Idle.reverse = FALSE /\ ToSet(Idle.todo) \cup ToSet(Idle.events) = {}
      BY ElementsOfTuples DEF Idle
<1> QED BY <1>1, <1>2, <1>3 DEF OnlyMoves, Contents

\* A request that arrives brings the event of its transition, or a queued one.
Arrives(c) ==
  /\ UNCHANGED <<accepted, reversed>> /\ OnlyMoves(c, pc'[c])
  /\ \A ev \in Contents(c)' : Announces(ev) \/ (pc'[c] = "replay" /\ Queued(ev))
  /\ pc'[c] = "replay" =>
       \A h \in work'[c].subs : Head(work'[c].events) \in ToSet(accepted[h])

LEMMA ArrivingArrives ==
  ASSUME StoresInv, Told, Recorded, Bookkeeping, LedgerTyped, HandlersShaped,
         NEW c \in Callers, Arrive(c)
  PROVE  Arrives(c)
<1>1. /\ UNCHANGED <<accepted, reversed>> /\ pc[c] = "idle"
      BY DEF Arrive, CreatePayment, Trigger, OutOfOrder, Replay, ClockAdvance,
         CreateWebhook, UpdateWebhook, queues, history
<1>2. Contents(c) = {}
      BY <1>1, ElementsOfTuples DEF HandlersShaped, Shaped, Contents
<1>3. ASSUME NEW place, NEW v, Goto(c, place, v), place # "replay",
             place = "idle" \/ \A ev \in ToSet(v.todo) : Announces(ev), v.events = <<>>
      PROVE  Arrives(c)
  <2>1. /\ pc'[c] = place /\ OnlyMoves(c, pc'[c])
        /\ place # "idle" => Contents(c)' = ToSet(v.todo) \cup ToSet(v.events)
        /\ place = "idle" => Contents(c)' = {}
        BY <1>3, GotoContents
  <2> QED BY <1>1, <1>3, <2>1, ElementsOfTuples DEF Arrives
<1>4. ASSUME NEW ch \in ChargeIds, NEW to \in Announced, NEW v, Books!Move(ch, to),
             Goto(c, "build", v), v.todo = <<Snapshot(ch, to)>>, v.events = <<>>
      PROVE  Arrives(c)
  <2>1. Announces(Snapshot(ch, to))
        BY <1>4, TransitionIsNew DEF Announces
  <2>2. ToSet(v.todo) = {Snapshot(ch, to)}
        BY <1>4, ElementsOfTuples
  <2>3. \A ev \in ToSet(v.todo) : Announces(ev)
        BY <2>1, <2>2
  <2> QED BY <1>3, <1>4, <2>3
<1>5. ASSUME NEW ch \in ChargeIds, NEW due, CreatePayment(c, ch, due) PROVE Arrives(c)
  <2>1. UNCHANGED <<pc, work>>
        BY <1>5 DEF CreatePayment
  <2> QED BY <1>1, <1>2, <2>1 DEF Arrives, OnlyMoves, Contents, StoresInv, Domains
<1>6. ASSUME NEW ch \in ChargeIds, NEW to, Trigger(c, ch, to) PROVE Arrives(c)
  <2> DEFINE v == [Idle EXCEPT !.todo = <<Snapshot(ch, to)>>]
  <2>1. /\ Goto(c, "build", v) /\ v.todo = <<Snapshot(ch, to)>> /\ v.events = <<>>
        /\ to \in Announced /\ Books!Move(ch, to)
        BY <1>6 DEF Trigger, Transition, Idle, Announced
  <2> HIDE DEF v
  <2> QED BY <2>1, <1>4
<1>7. ASSUME NEW ch \in ChargeIds, OutOfOrder(c, ch) PROVE Arrives(c)
  <2> DEFINE v == [Idle EXCEPT !.todo = <<Snapshot(ch, "confirmed")>>, !.reverse = TRUE]
  <2>1. /\ Goto(c, "build", v) /\ v.todo = <<Snapshot(ch, "confirmed")>> /\ v.events = <<>>
        /\ Books!Move(ch, "confirmed")
        BY <1>7 DEF OutOfOrder, Transition, Idle
  <2> HIDE DEF v
  <2> QED BY <2>1, <1>4 DEF Announced
<1>8. ASSUME NEW target \in Times, ClockAdvance(c, target) PROVE Arrives(c)
  <2> DEFINE due == FallDue(target)
             S == {Snapshot(ch, "overdue") : ch \in due}
             v == [Idle EXCEPT !.todo = SetToSeq(S)]
  <2>1. /\ Goto(c, IF due = {} THEN "idle" ELSE "build", v)
        /\ v.todo = SetToSeq(S) /\ v.events = <<>> /\ Books!Advance(target)
        BY <1>8 DEF ClockAdvance, Idle
  <2>2. IsFiniteSet(due) /\ due \subseteq ChargeIds
        BY FS_Subset DEF FallDue, Told, LedgerKeeps
  <2>3. IsFiniteSet(S)
    <3> DEFINE f == [ch \in due |-> Snapshot(ch, "overdue")]
    <3>1. f \in Surjection(due, S)
          BY DEF Surjection
    <3> HIDE DEF f, S, due
    <3> QED BY <2>2, <3>1, FS_Surjection
  <2>4. ASSUME NEW ch \in due PROVE Announces(Snapshot(ch, "overdue"))
    <3>1. /\ ch \in DOMAIN ledger /\ ledger[ch].status = "created" /\ ledger[ch].due <= target
          /\ ledger[ch] \in Charges
          BY DEF FallDue, LedgerTyped
    <3>2. /\ DOMAIN ledger' = DOMAIN ledger
          /\ ledger'[ch] = [ledger[ch] EXCEPT !.status = "overdue", !.updatedAt = target]
          BY <2>1, <3>1 DEF Books!Advance
    <3>3. ledger'[ch].status = "overdue"
          BY <3>1, <3>2 DEF Charges
    <3>4. ~Took(ch, "overdue") /\ Took(ch, "overdue")'
          BY <3>1, <3>2, <3>3 DEF Took, After
    <3> QED BY <2>2, <3>4 DEF Announces, Announced
  <2>5. \A ev \in S : Announces(ev)
        BY <2>4
  <2> HIDE DEF v, S, due
  <2>6. ToSet(v.todo) = S
        BY <2>1, <2>3, ElementsOfSet
  <2> QED BY <1>3, <2>1, <2>5, <2>6
<1>9. ASSUME NEW ch \in ChargeIds, Replay(c, ch) PROVE Arrives(c)
  <2> DEFINE last == lastEvents[ch]
             v == [Idle EXCEPT !.events = <<last.event>>, !.subs = last.hooks]
  <2>1. /\ Goto(c, "replay", v) /\ last # None
        /\ v.todo = <<>> /\ v.events = <<last.event>> /\ v.subs = last.hooks
        BY <1>9 DEF Replay, Idle
  <2>2. /\ last.hooks \subseteq Hooks /\ last.hooks # {}
        /\ \A h \in last.hooks : last.event \in ToSet(accepted[h])
        BY <2>1 DEF Told, LastTold, Recorded
  <2> HIDE DEF v, last
  <2>3. /\ pc'[c] = "replay" /\ OnlyMoves(c, pc'[c]) /\ work'[c] = v
        /\ Contents(c)' = ToSet(v.todo) \cup ToSet(v.events)
        BY <2>1, GotoContents
  <2>4. Contents(c)' = {last.event} /\ Head(v.events) = last.event
        BY <2>1, <2>3, ElementsOfTuples
  <2> QED BY <1>1, <2>1, <2>2, <2>3, <2>4 DEF Arrives, Queued
<1>10. ASSUME NEW h \in Hooks, NEW entry \in Entries, CreateWebhook(c, h, entry)
       PROVE  Arrives(c)
  <2> DEFINE v == [Idle EXCEPT !.hook = h, !.entry = entry]
  <2>1. Goto(c, "add", v) /\ v.todo = <<>> /\ v.events = <<>>
        BY <1>10 DEF CreateWebhook, Idle
  <2> HIDE DEF v
  <2> QED BY <1>3, <2>1, ElementsOfTuples
<1>11. ASSUME NEW h \in Hooks, NEW u \in Updates, UpdateWebhook(c, h, u) PROVE Arrives(c)
  <2> DEFINE v == [Idle EXCEPT !.hook = h, !.entry = Updated(registry[h], u),
                               !.resume = u.resume]
  <2>1. /\ \E place \in {"push", "resume", "idle"} : Goto(c, place, v)
        /\ v.todo = <<>> /\ v.events = <<>>
        BY <1>11 DEF UpdateWebhook, Idle
  <2> HIDE DEF v
  <2> QED BY <1>3, <2>1, ElementsOfTuples
<1> QED BY <1>5, <1>6, <1>7, <1>8, <1>9, <1>10, <1>11 DEF Arrive

\* One more event of c in the queue of h.
Sends(c, h) ==
  /\ pc[c] \in {"enqueue", "replay"} /\ h \in work[c].subs
  /\ accepted' = [accepted EXCEPT ![h] = Append(@, Head(work[c].events))]

\* A handler goes on with the events it has, in the order it has chosen.
Continues(c) ==
  /\ UNCHANGED reversed /\ OnlyMoves(c, pc'[c])
  /\ Contents(c)' \subseteq Contents(c)
  /\ Contents(c)' = {} \/ work'[c].reverse = work[c].reverse
  /\ pc[c] = "replay" => pc'[c] = "replay" \/ Contents(c)' = {}
  /\ pc'[c] = "replay" => /\ pc[c] = "replay" /\ work'[c].events = work[c].events
                          /\ work'[c].subs \subseteq work[c].subs
  /\ pc'[c] \in {"build", "second"} /\ work'[c].reverse =>
       pc[c] \in {"build", "second"} /\ UNCHANGED accepted
  /\ UNCHANGED accepted \/ \E h \in Hooks : Sends(c, h)

LEMMA ProceedingContinues ==
  ASSUME StoresInv, Told, HandlersShaped, NEW c \in Callers, Proceed(c),
         ~SecondTransition(c)
  PROVE  Continues(c)
<1> DEFINE w == work[c]
<1>1. /\ Shaped(pc[c], w) /\ Truthful(pc[c], w, accepted)
      /\ w.todo \in Seq(Honest) /\ w.events \in Seq(Honest)
      BY DEF HandlersShaped, Told, HandlersTold, Truthful
<1>2. pc[c] \in {"second", "subscribers", "enqueue", "record", "replay"} =>
        w.events # <<>> /\ Tail(w.events) \in Seq(Honest)
      BY <1>1 DEF Truthful
<1>3. Contents(c) = ToSet(w.todo) \cup ToSet(w.events)
      BY DEF Contents
<1>4. ASSUME NEW place, NEW v, Goto(c, place, v), UNCHANGED reversed,
             place = "idle" \/
               /\ v.reverse = w.reverse
               /\ ToSet(v.todo) \cup ToSet(v.events) \subseteq Contents(c)
               /\ place # "replay" /\ pc[c] # "replay"
               /\ place \in {"build", "second"} /\ v.reverse =>
                    pc[c] = "build" /\ UNCHANGED accepted,
             UNCHANGED accepted \/ \E h \in Hooks : Sends(c, h)
      PROVE  Continues(c)
  <2>1. /\ pc'[c] = place /\ OnlyMoves(c, pc'[c])
        /\ place # "idle" => /\ work'[c] = v
                             /\ Contents(c)' = ToSet(v.todo) \cup ToSet(v.events)
        /\ place = "idle" => ~work'[c].reverse /\ Contents(c)' = {}
        BY <1>4, GotoContents
  <2> QED BY <1>4, <2>1 DEF Continues
<1>5. CASE SecondRefused(c)
      BY <1>3, <1>4, <1>5 DEF SecondRefused, queues, history
<1>6. CASE Build(c)
  <2> DEFINE v == [w EXCEPT !.todo = Tail(@), !.events = Announce(@, Built(Head(w.todo)))]
             place == IF w.reverse /\ w.events = <<>> THEN "second" ELSE "subscribers"
  <2>1. /\ pc[c] = "build" /\ Goto(c, place, v) /\ UNCHANGED <<accepted, reversed>>
        /\ v.reverse = w.reverse /\ v.todo = Tail(w.todo)
        /\ v.events = <<Head(w.todo)>> \o w.events
        BY <1>6 DEF Build, Announce, Built, queues, history
  <2>2. w.todo # <<>> /\ Head(w.todo) \in Honest
        BY <1>1, <2>1 DEF Truthful
  <2> HIDE DEF v
  <2>3. ToSet(v.todo) \cup ToSet(v.events) \subseteq Contents(c)
        BY <1>1, <1>3, <2>1, <2>2, ElementsOfRest, ElementsInFront
  <2> QED BY <1>4, <2>1, <2>3
<1>7. CASE ReadSubscribers(c)
  <2> DEFINE subs == Subscribers(Head(w.events).type)
             v == [w EXCEPT !.subs = subs, !.sent = {}]
  <2>1. /\ Goto(c, IF subs = {} THEN "record" ELSE "enqueue", v) /\ pc[c] = "subscribers"
        /\ v.todo = w.todo /\ v.events = w.events /\ v.reverse = w.reverse
        /\ UNCHANGED <<accepted, reversed>>
        BY <1>7 DEF ReadSubscribers, queues, history
  <2> HIDE DEF v, subs
  <2> QED BY <1>3, <1>4, <2>1
<1>8. ASSUME NEW h \in Hooks, Accepts(h, Head(w.events)),
             pc[c] \in {"enqueue", "replay"}, h \in w.subs
      PROVE  UNCHANGED accepted \/ Sends(c, h)
      BY <1>8 DEF Accepts, Sends, Queues!Accept, queues
<1>9. ASSUME NEW h \in Hooks, EnqueueTo(c, h) PROVE Continues(c)
  <2> DEFINE left == w.subs \ {h}
             v == [w EXCEPT !.subs = left, !.sent = Reached(@, h)]
  <2>1. /\ Goto(c, IF left = {} THEN "record" ELSE "enqueue", v) /\ pc[c] = "enqueue"
        /\ v.todo = w.todo /\ v.events = w.events /\ v.reverse = w.reverse
        /\ Accepts(h, Head(w.events)) /\ h \in w.subs /\ UNCHANGED reversed
        BY <1>9 DEF EnqueueTo, history
  <2>2. UNCHANGED accepted \/ Sends(c, h)
        BY <1>8, <2>1
  <2> HIDE DEF v, left
  <2> QED BY <1>3, <1>4, <2>1, <2>2
<1>10. CASE RecordLast(c)
  <2> DEFINE rest == Tail(w.events)
             v == [w EXCEPT !.events = rest, !.sent = {}]
             place == IF rest # <<>> THEN "subscribers"
                      ELSE IF w.todo # <<>> THEN "build" ELSE "idle"
  <2>1. /\ Goto(c, place, v) /\ pc[c] = "record"
        /\ v.todo = w.todo /\ v.events = rest /\ v.reverse = w.reverse
        /\ UNCHANGED <<accepted, reversed>>
        BY <1>10 DEF RecordLast, Others, queues, history
  <2> HIDE DEF v
  <2>2. ToSet(v.todo) \cup ToSet(v.events) \subseteq Contents(c)
        BY <1>1, <1>2, <1>3, <2>1, ElementsOfRest
  <2>3. w.reverse => place # "build" /\ place # "second"
        BY <1>1, <2>1 DEF Shaped, Order
  <2>4. place \in {"subscribers", "build", "idle"}
        OBVIOUS
  <2> HIDE DEF place
  <2> QED BY <1>4, <2>1, <2>2, <2>3, <2>4
<1>11. ASSUME NEW h \in Hooks, ReplayTo(c, h) PROVE Continues(c)
  <2> DEFINE left == w.subs \ {h}
             v == [w EXCEPT !.subs = left]
             place == IF left = {} THEN "idle" ELSE "replay"
  <2>1. /\ Goto(c, place, v) /\ pc[c] = "replay"
        /\ v.todo = w.todo /\ v.events = w.events /\ v.reverse = w.reverse /\ v.subs = left
        /\ Accepts(h, Head(w.events)) /\ h \in w.subs /\ UNCHANGED reversed
        BY <1>11 DEF ReplayTo, history
  <2>2. UNCHANGED accepted \/ Sends(c, h)
        BY <1>8, <2>1
  <2> HIDE DEF v
  <2>3. /\ pc'[c] = place /\ OnlyMoves(c, pc'[c])
        /\ place # "idle" => /\ work'[c] = v
                             /\ Contents(c)' = ToSet(v.todo) \cup ToSet(v.events)
        /\ place = "idle" => ~work'[c].reverse /\ Contents(c)' = {}
        BY <2>1, GotoContents
  <2> QED BY <1>3, <2>1, <2>2, <2>3 DEF Continues
<1>12. CASE AddToRegistry(c) \/ PushToDispatcher(c) \/ ReactivateQueue(c)
  <2>1. /\ UNCHANGED <<accepted, reversed>> /\ pc[c] # "replay"
        /\ \/ Goto(c, "idle", Idle)
           \/ \E place \in {"resume", "idle"} : Goto(c, place, w)
        BY <1>12 DEF AddToRegistry, PushToDispatcher, ReactivateQueue, queues,
                     history, Queues!Resume
  <2> QED BY <1>3, <1>4, <2>1
<1> QED BY <1>5, <1>6, <1>7, <1>9, <1>10, <1>11, <1>12 DEF Proceed

\* Out-of-order takes its charge a step further, and reverses from now on.
Doubles(c, k) ==
  /\ Books!Move(k, "received") /\ OnlyMoves(c, pc'[c]) /\ pc'[c] = "build"
  /\ UNCHANGED accepted /\ reversed' = reversed \cup {k}
  /\ pc[c] = "second" /\ work[c].reverse /\ work'[c].reverse
  /\ Contents(c) = {Snapshot(k, "confirmed")}
  /\ Contents(c)' = {Snapshot(k, "received"), Snapshot(k, "confirmed")}

LEMMA SecondDoubles ==
  ASSUME StoresInv, HandlersShaped, NEW c \in Callers, SecondTransition(c)
  PROVE  \E k \in ChargeIds : Doubles(c, k)
<1> DEFINE w == work[c]
<1>1. pc[c] = "second" /\ Shaped("second", w)
      BY DEF SecondTransition, HandlersShaped
<1>2. PICK k \in ChargeIds : w.todo = <<>> /\ w.events = <<Snapshot(k, "confirmed")>>
      BY <1>1 DEF Shaped, Order
<1> DEFINE v == [w EXCEPT !.todo = <<Snapshot(k, "received")>>]
<1>3. Head(w.events).charge = k
      BY <1>2 DEF Snapshot
<1>4. /\ Goto(c, "build", v) /\ Books!Move(k, "received")
      /\ reversed' = reversed \cup {k} /\ UNCHANGED accepted
      /\ v.events = w.events /\ v.todo = <<Snapshot(k, "received")>>
      /\ v.reverse = w.reverse
      BY <1>3 DEF SecondTransition, Transition, queues
<1> HIDE DEF v
<1>5. /\ pc'[c] = "build" /\ OnlyMoves(c, pc'[c]) /\ work'[c] = v
      /\ Contents(c)' = ToSet(v.todo) \cup ToSet(v.events)
      BY <1>4, GotoContents
<1>6. Contents(c)' = {Snapshot(k, "received"), Snapshot(k, "confirmed")}
      BY <1>2, <1>4, <1>5, ElementsOfTuples
<1>7. Contents(c) = {Snapshot(k, "confirmed")}
      BY <1>2, ElementsOfTuples DEF Contents
<1>8. w.reverse
      BY <1>1 DEF Shaped
<1> QED BY <1>1, <1>4, <1>5, <1>6, <1>7, <1>8 DEF Doubles

LEMMA HandlersMoveCharges ==
  ASSUME NEW c \in Callers, Arrive(c) \/ Proceed(c)
  PROVE  \/ UNCHANGED ledger
         \/ \E k, due : Books!Open(k, due)
         \/ \E k, to : Books!Move(k, to)
         \/ \E target : Books!Advance(target)
<1>1. CASE Arrive(c)
      BY <1>1 DEF Arrive, CreatePayment, Trigger, OutOfOrder, Replay, ClockAdvance,
         CreateWebhook, UpdateWebhook, Transition, engine
<1>2. CASE Proceed(c)
      BY <1>2 DEF Proceed, SecondTransition, SecondRefused, Build, ReadSubscribers,
         RecordLast, EnqueueTo, ReplayTo, AddToRegistry, PushToDispatcher,
         ReactivateQueue, Transition, engine
<1> QED BY <1>1, <1>2

\* What is queued after a step that sends, was before or is what is sent.
LEMMA SentIsQueued ==
  ASSUME Told, NEW c \in Callers, NEW h \in Hooks, Sends(c, h)
  PROVE  /\ Head(work[c].events) \in Contents(c) \cap Honest
         /\ accepted' \in [Hooks -> Seq(Honest)]
         /\ ToSet(accepted'[h]) = ToSet(accepted[h]) \cup {Head(work[c].events)}
         /\ \A g \in Hooks \ {h} : accepted'[g] = accepted[g]
<1> DEFINE first == Head(work[c].events)
           q == accepted[h]
           r == Append(q, first)
<1>1. /\ accepted \in [Hooks -> Seq(Honest)] /\ q \in Seq(Honest)
      /\ work[c].events \in Seq(Honest) /\ work[c].events # <<>>
      /\ first \in Honest
      BY DEF Told, HandlersTold, Truthful, Sends
<1>2. first \in Contents(c)
      BY <1>1, ElementsOfRest DEF Contents
<1>3. accepted' = [accepted EXCEPT ![h] = r]
      BY DEF Sends
<1> HIDE DEF first
<1>4. ToSet(r) = ToSet(q) \cup {first} /\ r \in Seq(Honest)
      BY <1>1, ElementsBehind
<1> HIDE DEF r
<1> QED BY <1>1, <1>2, <1>3, <1>4 DEF first

\* The three kinds of step a handler makes, as far as events are concerned.
Handles(c) == Arrives(c) \/ Continues(c) \/ \E k \in ChargeIds : Doubles(c, k)

\* Events come from transitions made now, from queues, or from where they were.
Spreads(c) ==
  /\ OnlyMoves(c, pc'[c]) /\ Grows
  /\ \A ev \in Contents(c)' : ev \in Contents(c) \/ Announces(ev) \/ Queued(ev)
  /\ \A ev : Queued(ev)' => Queued(ev) \/ ev \in Contents(c)
  /\ \A ch \in ChargeIds, status \in Announced : Took(ch, status) => Took(ch, status)'

LEMMA HandlesSpreads ==
  ASSUME Told, LedgerTyped, Bookkeeping, NEW c \in Callers, Arrive(c) \/ Proceed(c),
         Handles(c)
  PROVE  Spreads(c)
<1>1. \A ch \in ChargeIds, status \in Announced : Took(ch, status) => Took(ch, status)'
      BY HandlersMoveCharges, StatusesMoveOn
<1>2. UNCHANGED accepted => Grows
      BY DEF Told, Grows
<1>3. UNCHANGED accepted => \A ev : Queued(ev)' => Queued(ev)
      BY DEF Queued
<1>4. CASE Arrives(c)
      BY <1>1, <1>2, <1>3, <1>4 DEF Arrives, Spreads
<1>5. ASSUME NEW k \in ChargeIds, Doubles(c, k) PROVE Spreads(c)
  <2>1. Announces(Snapshot(k, "received"))
        BY <1>5, TransitionIsNew DEF Doubles, Announces, Announced
  <2> QED BY <1>1, <1>2, <1>3, <1>5, <2>1 DEF Doubles, Spreads
<1>6. CASE Continues(c)
  <2>1. ASSUME NEW h \in Hooks, Sends(c, h)
        PROVE  Grows /\ \A ev : Queued(ev)' => Queued(ev) \/ ev \in Contents(c)
    <3>1. \A g \in Hooks : ToSet(accepted[g]) \subseteq ToSet(accepted'[g])
          BY <2>1, SentIsQueued
    <3>2. ASSUME NEW g \in Hooks, NEW ev \in ToSet(accepted'[g])
          PROVE  ev \in ToSet(accepted[g]) \cup Contents(c)
      <4>1. CASE g = h
            BY <2>1, <3>2, <4>1, SentIsQueued
      <4>2. CASE g # h
        <5>1. accepted'[g] = accepted[g]
              BY <2>1, <4>2, SentIsQueued
        <5> QED BY <3>2, <5>1
      <4> QED BY <4>1, <4>2
    <3> QED BY <2>1, <3>1, <3>2, SentIsQueued DEF Grows, Queued
  <2> QED BY <1>1, <1>2, <1>3, <1>6, <2>1 DEF Continues, Spreads
<1> QED BY <1>4, <1>5, <1>6 DEF Handles

\* Statuses come in the order of the lifecycle.
LEMMA TookEarlier == \A ch : Took(ch, "received") => Took(ch, "confirmed")
BY DEF Took, After

LEMMA OthersStandStill ==
  ASSUME NEW c \in Callers, OnlyMoves(c, pc'[c]), NEW d \in Callers \ {c}
  PROVE  pc'[d] = pc[d] /\ work'[d] = work[d] /\ Contents(d)' = Contents(d)
BY DEF OnlyMoves, Contents

\* An event that others do not know of cannot come to them.
LEMMA UnseenStays ==
  ASSUME NEW d \in Callers, Spreads(d), NEW c \in Callers, c # d,
         NEW ch \in ChargeIds, NEW status \in Announced,
         Unseen(c, Snapshot(ch, status)), Took(ch, status)
  PROVE  Unseen(c, Snapshot(ch, status))'
<1> DEFINE ev == Snapshot(ch, status)
<1>1. ~Announces(ev)
      BY SnapshotsDiffer DEF Announces
<1>2. ~Queued(ev) /\ \A e \in Callers \ {c} : ev \notin Contents(e)
      BY DEF Unseen
<1> HIDE DEF ev
<1>3. ~Queued(ev)'
      BY <1>2 DEF Spreads
<1>4. ev \notin Contents(d)'
      BY <1>1, <1>2 DEF Spreads
<1>5. \A e \in Callers \ {c} : ev \notin Contents(e)'
      BY <1>2, <1>4, OthersStandStill DEF Spreads
<1>6. ev' = ev
      BY DEF ev, Snapshot
<1> QED BY <1>3, <1>5, <1>6 DEF Unseen, ev

\* ... as long as its handler does not send it.
LEMMA UnseenOwn ==
  ASSUME NEW c \in Callers, OnlyMoves(c, pc'[c]), NEW ch, NEW status,
         Unseen(c, Snapshot(ch, status)), ~Queued(Snapshot(ch, status))'
  PROVE  Unseen(c, Snapshot(ch, status))'
BY OthersStandStill DEF Unseen, Snapshot

LEMMA StatusesTakenStep ==
  ASSUME StatusesTaken, NEW c \in Callers, Spreads(c)
  PROVE  StatusesTaken'
<1> SUFFICES ASSUME NEW ch \in ChargeIds, NEW status \in Announced,
                    \/ Queued(Snapshot(ch, status))'
                    \/ \E d \in Callers : Snapshot(ch, status) \in Contents(d)'
             PROVE  Took(ch, status)'
    BY DEF StatusesTaken, Snapshot
<1> DEFINE ev == Snapshot(ch, status)
<1>1. Announces(ev) => Took(ch, status)'
      BY SnapshotsDiffer DEF Announces
<1>2. Queued(ev) \/ (\E d \in Callers : ev \in Contents(d)) => Took(ch, status)'
      BY DEF StatusesTaken, Spreads
<1> HIDE DEF ev
<1>3. ev' = ev
      BY DEF ev, Snapshot
<1>4. Queued(ev)' => Took(ch, status)'
      BY <1>2 DEF Spreads
<1>5. ASSUME NEW d \in Callers, ev \in Contents(d)' PROVE Took(ch, status)'
      BY <1>1, <1>2, <1>5, OthersStandStill DEF Spreads
<1> QED BY <1>3, <1>4, <1>5 DEF ev

\* Once moved twice, a charge is never announced anew as either.
LEMMA MovedTwiceStep ==
  ASSUME MovedTwice, LedgerTyped, Bookkeeping, NEW c \in Callers, Spreads(c), Handles(c)
  PROVE  MovedTwice'
<1>1. \A ch \in reversed : Took(ch, "received")'
      BY DEF MovedTwice, Spreads, Bookkeeping, Announced
<1>2. ASSUME NEW k \in ChargeIds, Doubles(c, k) PROVE Took(k, "received")'
      BY <1>2, TransitionIsNew DEF Doubles, Announced
<1>3. ASSUME NEW ch \in reversed' PROVE Took(ch, "received")'
      BY <1>1, <1>2, <1>3 DEF Handles, Arrives, Continues, Doubles
<1> QED BY <1>3 DEF MovedTwice

LEMMA HeldBackStep ==
  ASSUME HeldBack, StatusesTaken, NEW c \in Callers, Spreads(c), Handles(c)
  PROVE  HeldBack'
<1> SUFFICES ASSUME NEW d \in Callers, NEW ch \in ChargeIds,
                    pc'[d] \in {"build", "second"}, work'[d].reverse,
                    Snapshot(ch, "confirmed") \in Contents(d)'
             PROVE  Unseen(d, Snapshot(ch, "confirmed"))'
    BY DEF HeldBack, Snapshot
<1> DEFINE C == Snapshot(ch, "confirmed")
<1>1. CASE d # c
  <2>1. /\ pc[d] \in {"build", "second"} /\ work[d].reverse /\ C \in Contents(d)
        BY <1>1, OthersStandStill DEF Spreads
  <2>2. Unseen(d, C) /\ Took(ch, "confirmed")
        BY <2>1 DEF HeldBack, StatusesTaken, Announced
  <2> QED BY <1>1, <2>2, UnseenStays DEF Announced
<1>2. CASE d = c /\ Arrives(c)
  <2>1. Announces(C) /\ UNCHANGED accepted
        BY <1>2 DEF Arrives
  <2>2. ~Took(ch, "confirmed")
        BY <2>1, SnapshotsDiffer DEF Announces
  <2>3. Unseen(c, C)
        BY <2>2 DEF StatusesTaken, Unseen, Announced
  <2>4. ~Queued(C)'
        BY <2>1, <2>3 DEF Queued, Unseen, Snapshot
  <2> QED BY <1>2, <2>3, <2>4, UnseenOwn DEF Spreads
<1>3. CASE d = c /\ (Continues(c) \/ \E k \in ChargeIds : Doubles(c, k))
  <2>1. /\ pc[c] \in {"build", "second"} /\ work[c].reverse /\ C \in Contents(c)
        /\ UNCHANGED accepted
    <3>1. CASE Continues(c)
          BY <1>3, <3>1 DEF Continues
    <3>2. ASSUME NEW k \in ChargeIds, Doubles(c, k)
          PROVE  /\ pc[c] \in {"build", "second"} /\ work[c].reverse /\ C \in Contents(c)
                 /\ UNCHANGED accepted
      <4>1. C # Snapshot(k, "received")
            BY SnapshotsDiffer
      <4> QED BY <1>3, <3>2, <4>1 DEF Doubles
    <3> QED BY <1>3, <3>1, <3>2
  <2>2. Unseen(c, C)
        BY <2>1 DEF HeldBack
  <2>3. ~Queued(C)'
        BY <2>1, <2>2 DEF Queued, Unseen, Snapshot
  <2> QED BY <1>3, <2>2, <2>3, UnseenOwn DEF Spreads
<1> QED BY <1>1, <1>2, <1>3 DEF Handles

\* A handler that announces RECEIVED first does not send CONFIRMED meanwhile.
LEMMA SendsInOrder ==
  ASSUME HandlersShaped, NEW c \in Callers, NEW ch \in ChargeIds, NEW h \in Hooks,
         Sends(c, h), pc[c] # "replay", work[c].reverse,
         Snapshot(ch, "received") \in Contents(c)
  PROVE  Head(work[c].events) = Snapshot(ch, "received")
<1> DEFINE w == work[c]
<1>1. pc[c] = "enqueue"
      BY DEF Sends
<1>2. PICK k \in ChargeIds : /\ w.todo = <<>>
                             /\ \/ w.events = <<Snapshot(k, "received"), Snapshot(k, "confirmed")>>
                                \/ w.events = <<Snapshot(k, "confirmed")>>
      BY <1>1 DEF HandlersShaped, Shaped, Order
<1>3. Snapshot(ch, "received") \in ToSet(w.events)
      BY <1>2, ElementsOfTuples DEF Contents
<1>4. CASE w.events = <<Snapshot(k, "confirmed")>>
      BY <1>3, <1>4, ElementsOfTuples, SnapshotsDiffer
<1>5. CASE w.events = <<Snapshot(k, "received"), Snapshot(k, "confirmed")>>
  <2>1. ch = k
        BY <1>3, <1>5, ElementsOfTuples, SnapshotsDiffer
  <2> QED BY <1>5, <2>1, Tuples
<1> QED BY <1>2, <1>4, <1>5

LEMMA InOrderStep ==
  ASSUME InOrder, HeldBack, MovedTwice, StatusesTaken, HandlersShaped, LedgerTyped,
         Bookkeeping, Told, NEW c \in Callers, Spreads(c), Handles(c)
  PROVE  InOrder'
<1> SUFFICES ASSUME NEW d \in Callers, NEW ch \in reversed', pc'[d] # "replay",
                    Snapshot(ch, "received") \in Contents(d)'
             PROVE  work'[d].reverse /\ Unseen(d, Snapshot(ch, "confirmed"))'
    BY DEF InOrder, Snapshot
<1> DEFINE C == Snapshot(ch, "confirmed")
           R == Snapshot(ch, "received")
<1>1. ch \in reversed \/ (ch \in ChargeIds /\ Doubles(c, ch))
      BY DEF Handles, Arrives, Continues, Doubles
<1>2. ch \in ChargeIds
      BY <1>1 DEF Bookkeeping
<1>3. CASE d # c
  <2>1. pc[d] # "replay" /\ work'[d] = work[d] /\ R \in Contents(d)
        BY <1>3, OthersStandStill DEF Spreads
  <2>2. Took(ch, "received") /\ Took(ch, "confirmed")
        BY <1>2, <2>1, TookEarlier DEF StatusesTaken, Announced
  <2>3. ch \in reversed
        BY <1>1, <2>2, TransitionIsNew DEF Doubles, Announced
  <2>4. work[d].reverse /\ Unseen(d, C)
        BY <2>1, <2>3 DEF InOrder
  <2> QED BY <1>2, <1>3, <2>1, <2>2, <2>4, UnseenStays DEF Announced
<1>4. CASE d = c /\ Arrives(c)
  <2>1. Announces(R) /\ ch \in reversed
        BY <1>4 DEF Arrives
  <2> QED BY <2>1, SnapshotsDiffer DEF Announces, MovedTwice
<1>5. CASE d = c /\ Continues(c)
  <2>1. /\ pc[c] # "replay" /\ R \in Contents(c) /\ ch \in reversed
        /\ work'[c].reverse = work[c].reverse
        BY <1>5 DEF Continues
  <2>2. work[c].reverse /\ Unseen(c, C)
        BY <2>1 DEF InOrder
  <2>3. ~Queued(C)'
    <3>1. CASE UNCHANGED accepted
          BY <2>2, <3>1 DEF Queued, Unseen, Snapshot
    <3>2. ASSUME NEW h \in Hooks, Sends(c, h) PROVE ~Queued(C)'
      <4>1. Head(work[c].events) = R
            BY <1>2, <2>1, <2>2, <3>2, SendsInOrder
      <4>2. R # C
            BY SnapshotsDiffer
      <4> HIDE DEF C, R
      <4>3. \A g \in Hooks : C \in ToSet(accepted'[g]) => C \in ToSet(accepted[g])
            BY <3>2, <4>1, <4>2, SentIsQueued
      <4>4. C' = C
            BY DEF C, Snapshot
      <4> QED BY <2>2, <4>3, <4>4 DEF Queued, Unseen
    <3> QED BY <1>5, <3>1, <3>2 DEF Continues
  <2> QED BY <1>5, <2>1, <2>2, <2>3, UnseenOwn DEF Spreads
<1>6. CASE d = c /\ \E k \in ChargeIds : Doubles(c, k)
  <2>1. PICK k \in ChargeIds : Doubles(c, k)
        BY <1>6
  <2>2. k = ch
        BY <1>6, <2>1, SnapshotsDiffer DEF Doubles
  <2>3. Unseen(c, C)
        BY <2>1, <2>2 DEF HeldBack, Doubles
  <2>4. ~Queued(C)'
        BY <2>1, <2>3 DEF Doubles, Queued, Unseen, Snapshot
  <2> QED BY <1>6, <2>1, <2>3, <2>4, UnseenOwn DEF Spreads, Doubles
<1> QED BY <1>3, <1>4, <1>5, <1>6 DEF Handles

LEMMA ReplayQueuedStep ==
  ASSUME ReplayQueued, Told, NEW c \in Callers, Spreads(c), Handles(c)
  PROVE  ReplayQueued'
<1> SUFFICES ASSUME NEW d \in Callers, pc'[d] = "replay", NEW h \in work'[d].subs
             PROVE  Head(work'[d].events) \in ToSet(accepted'[h])
    BY DEF ReplayQueued
<1>1. CASE d # c
  <2>1. pc[d] = "replay" /\ work'[d] = work[d]
        BY <1>1, OthersStandStill DEF Spreads
  <2>2. h \in Hooks /\ Head(work[d].events) \in ToSet(accepted[h])
        BY <2>1 DEF ReplayQueued, Told, HandlersTold, Truthful
  <2> QED BY <2>1, <2>2 DEF Spreads, Grows
<1>2. CASE d = c /\ Arrives(c)
      BY <1>2 DEF Arrives
<1>3. CASE d = c /\ Continues(c)
  <2>1. pc[c] = "replay" /\ work'[c].events = work[c].events /\ h \in work[c].subs
        BY <1>3 DEF Continues
  <2>2. h \in Hooks /\ Head(work[c].events) \in ToSet(accepted[h])
        BY <2>1 DEF ReplayQueued, Told, HandlersTold, Truthful
  <2> QED BY <1>3, <2>1, <2>2 DEF Spreads, Grows
<1>4. ASSUME NEW k \in ChargeIds, Doubles(c, k) PROVE pc'[c] # "replay"
      BY <1>4 DEF Doubles
<1> QED BY <1>1, <1>2, <1>3, <1>4 DEF Handles

\* CONFIRMED is sent behind a RECEIVED that is queued already, or before anybody
\* can queue a RECEIVED there.
LEMMA SendingReverses ==
  ASSUME OrderInv, HandlersShaped, Told, Bookkeeping, NEW c \in Callers, NEW h \in Hooks,
         Sends(c, h), UNCHANGED reversed
  PROVE  OutOfOrderReverses'
<1> SUFFICES ASSUME NEW ch \in reversed, NEW g \in Hooks, NEW i \in DOMAIN accepted'[g],
                    accepted'[g][i] = Snapshot(ch, "confirmed"),
                    Snapshot(ch, "received") \in ToSet(accepted'[g])
             PROVE  \E j \in 1..i : accepted'[g][j] = Snapshot(ch, "received")
    BY DEF OutOfOrderReverses, Snapshot
<1> DEFINE C == Snapshot(ch, "confirmed")
           R == Snapshot(ch, "received")
           first == Head(work[c].events)
           q == accepted[h]
           r == accepted'[h]
<1>1. accepted \in [Hooks -> Seq(Honest)] /\ first \in Contents(c) /\ first \in Honest
      BY SentIsQueued DEF Told
<1>2. CASE g # h
  <2>1. accepted'[g] = accepted[g]
        BY <1>2, SentIsQueued
  <2> QED BY <2>1 DEF OrderInv, OutOfOrderReverses
<1>3. CASE g = h
  <2>1. r = Append(q, first) /\ q \in Seq(Honest)
        BY <1>1 DEF Sends
  <2>2. ch \in ChargeIds /\ C # R
        BY SnapshotsDiffer DEF Bookkeeping
  <2>3. R \in ToSet(q) => \A k \in DOMAIN q : q[k] = C => \E j \in 1..k : q[j] = R
        BY DEF OrderInv, OutOfOrderReverses
  <2>4. R \notin ToSet(q) => first = R /\ C \notin ToSet(q)
    <3> SUFFICES ASSUME R \notin ToSet(q) PROVE first = R /\ C \notin ToSet(q)
        OBVIOUS
    <3>1. first = R
          BY <1>3, SentIsQueued
    <3>2. pc[c] # "replay"
          BY <3>1 DEF Sends, OrderInv, ReplayQueued
    <3>3. Unseen(c, C)
          BY <1>1, <3>1, <3>2 DEF OrderInv, InOrder
    <3> QED BY <3>1, <3>3 DEF Unseen, Queued
  <2> HIDE DEF C, R, first
  <2>5. /\ Len(q) \in Nat /\ DOMAIN q = 1..Len(q) /\ DOMAIN r = 1..(Len(q) + 1)
        /\ \A k \in 1..Len(q) : r[k] = q[k]
        /\ r[Len(q) + 1] = first
        BY <1>1, <2>1
  <2> HIDE DEF q, r
  <2>6. i \in 1..(Len(q) + 1) /\ r[i] = C
        BY <1>3, <2>5 DEF r, C
  <2>7. CASE R \in ToSet(q) /\ i \in DOMAIN q
    <3>1. PICK j \in 1..i : q[j] = R
          BY <2>3, <2>5, <2>6, <2>7
    <3>2. r[j] = R
          BY <2>5, <2>7, <3>1
    <3> QED BY <1>3, <3>2 DEF r, R
  <2>8. CASE R \in ToSet(q) /\ i \notin DOMAIN q
    <3>1. PICK j \in DOMAIN q : q[j] = R
          BY <2>8 DEF ToSet
    <3>2. j \in 1..i /\ r[j] = R
          BY <2>5, <2>6, <2>8, <3>1
    <3> QED BY <1>3, <3>2 DEF r, R
  <2>9. CASE R \notin ToSet(q)
    <3>1. first = R /\ \A k \in DOMAIN q : q[k] # C
          BY <2>4, <2>9 DEF ToSet
    <3> QED BY <2>2, <2>5, <2>6, <3>1
  <2> QED BY <2>7, <2>8, <2>9
<1> QED BY <1>2, <1>3

LEMMA ReversesStep ==
  ASSUME OrderInv, HandlersShaped, Told, Bookkeeping, NEW c \in Callers, Handles(c)
  PROVE  OutOfOrderReverses'
<1>1. CASE UNCHANGED <<accepted, reversed>>
      BY <1>1 DEF OrderInv, OutOfOrderReverses, Snapshot
<1>2. ASSUME NEW k \in ChargeIds, Doubles(c, k) PROVE OutOfOrderReverses'
  <2>1. Unseen(c, Snapshot(k, "confirmed"))
        BY <1>2 DEF Doubles, OrderInv, HeldBack
  <2>2. \A h \in Hooks : \A i \in DOMAIN accepted[h] :
          accepted[h][i] # Snapshot(k, "confirmed")
        BY <2>1 DEF Unseen, Queued, ToSet
  <2> QED BY <1>2, <2>2 DEF Doubles, OrderInv, OutOfOrderReverses, Snapshot
<1> QED BY <1>1, <1>2, SendingReverses DEF Handles, Arrives, Continues

LEMMA OrderInvStep ==
  /\ OrderInv /\ LedgerTyped /\ HandlersShaped /\ TypeInv
  /\ [Next]_vars
  => OrderInv'
<1> SUFFICES ASSUME OrderInv, LedgerTyped, HandlersShaped, TypeInv, [Next]_vars
             PROVE  OrderInv'
    OBVIOUS
<1>1. CASE Dispatching \/ CloseDispatcher \/ UNCHANGED vars
  <2>1. UNCHANGED <<accepted, pc, work, ledger, reversed>>
        BY <1>1 DEF Dispatching, CloseDispatcher, vars, queues, history, engine,
                    Queues!Deliver, Queues!Fail
  <2>2. /\ \A ev : Queued(ev)' <=> Queued(ev)
        /\ \A c : Contents(c)' = Contents(c)
        /\ \A ch, status : Took(ch, status)' <=> Took(ch, status)
        BY <2>1 DEF Queued, Contents, Took
  <2>3. StatusesTaken' /\ MovedTwice'
        BY <2>1, <2>2 DEF OrderInv, StatusesTaken, MovedTwice, Snapshot
  <2>4. HeldBack' /\ InOrder'
        BY <2>1, <2>2 DEF OrderInv, HeldBack, InOrder, Unseen, Snapshot
  <2>5. ReplayQueued' /\ OutOfOrderReverses'
        BY <2>1 DEF OrderInv, ReplayQueued, OutOfOrderReverses, Snapshot
  <2> QED BY <2>3, <2>4, <2>5 DEF OrderInv
<1>2. CASE Restart
  <2>1. /\ \A h \in Hooks : accepted'[h] = <<>>
        /\ \A c \in Callers : pc'[c] = "idle" /\ work'[c] = Idle
        /\ reversed' = {}
        BY <1>2 DEF Restart
  <2>2. \A ev : ~Queued(ev)' /\ \A c \in Callers : ev \notin Contents(c)'
        BY <2>1, ElementsOfTuples DEF Queued, Contents, Idle
  <2>3. StatusesTaken' /\ MovedTwice' /\ HeldBack' /\ InOrder'
        BY <2>1, <2>2 DEF StatusesTaken, MovedTwice, HeldBack, InOrder
  <2>4. ReplayQueued' /\ OutOfOrderReverses'
        BY <2>1 DEF ReplayQueued, OutOfOrderReverses
  <2> QED BY <2>3, <2>4 DEF OrderInv
<1>3. ASSUME NEW c \in Callers, Arrive(c) \/ Proceed(c) PROVE OrderInv'
  <2>1. Handles(c)
        BY <1>3, ArrivingArrives, ProceedingContinues, SecondDoubles DEF Handles, TypeInv
  <2>2. Spreads(c)
        BY <1>3, <2>1, HandlesSpreads DEF TypeInv
  <2>3. StatusesTaken' /\ MovedTwice' /\ HeldBack'
        BY <2>1, <2>2, StatusesTakenStep, MovedTwiceStep, HeldBackStep DEF OrderInv, TypeInv
  <2>4. InOrder' /\ ReplayQueued'
        BY <2>1, <2>2, InOrderStep, ReplayQueuedStep DEF OrderInv, TypeInv
  <2>5. OutOfOrderReverses'
        BY <2>1, ReversesStep DEF TypeInv
  <2> QED BY <2>3, <2>4, <2>5 DEF OrderInv
<1> QED BY <1>1, <1>2, <1>3 DEF Next

\* Out-of-order does what it is for: whoever else enqueues, replays or updates in
\* between, a queue that gets both of its events gets RECEIVED first
\* (chaos.go:183-219).
THEOREM OutOfOrderIsReversed == Spec => []OutOfOrderReverses
<1>1. Init => OrderInv /\ LedgerTyped
  <2> SUFFICES ASSUME Init PROVE OrderInv /\ LedgerTyped
      OBVIOUS
  <2>1. /\ \A h \in Hooks : accepted[h] = <<>>
        /\ \A c \in Callers : pc[c] = "idle" /\ work[c] = Idle
        /\ reversed = {} /\ DOMAIN ledger = {}
        BY DEF Init, Queues!QueueInit, Books!LedgerInit
  <2>2. \A ev : ~Queued(ev) /\ \A c \in Callers : ev \notin Contents(c)
        BY <2>1, ElementsOfTuples DEF Queued, Contents, Idle
  <2>3. StatusesTaken /\ MovedTwice /\ HeldBack /\ InOrder
        BY <2>1, <2>2 DEF StatusesTaken, MovedTwice, HeldBack, InOrder
  <2> QED BY <2>1, <2>3 DEF OrderInv, ReplayQueued, OutOfOrderReverses, LedgerTyped
<1>2. OrderInv => OutOfOrderReverses
      BY DEF OrderInv
<1>3. TypeInv => Bookkeeping
      BY DEF TypeInv
<1> QED BY <1>1, <1>2, <1>3, OrderInvStep, LedgerTypedStep, TypeInvAlways,
           AnnouncingAlways, PTL DEF Spec
-----------------------------------------------------------------------------
(* Winding down *)

Ahead(place, w) ==
  IF place = "second" \/ (place = "build" /\ w.reverse /\ w.events = <<>>) THEN 1 ELSE 0
Unsaid(w) == 2 * Len(w.todo) + Len(w.events)

\* ToDo, of the locals w at a place.
ToDoAt(place, w) == <<Ahead(place, w), Unsaid(w), StagesLeft[place], Cardinality(w.subs)>>

\* Locals that ToDo measures by natural numbers.
Measured(w) == Unsaid(w) \in Nat /\ Cardinality(w.subs) \in Nat

LEMMA MeasuredLocals ==
  ASSUME Told, NEW c \in Callers
  PROVE  Measured(work[c]) /\ IsFiniteSet(work[c].subs)
<1>1. Truthful(pc[c], work[c], accepted)
      BY DEF Told, HandlersTold
<1>2. IsFiniteSet(work[c].subs)
      BY <1>1, FS_Subset, FacadeAssumption DEF Truthful
<1>3. Cardinality(work[c].subs) \in Nat
      BY <1>2, FS_CardinalityType
<1>4. Len(work[c].todo) \in Nat /\ Len(work[c].events) \in Nat
      BY <1>1 DEF Truthful
<1>5. Unsaid(work[c]) \in Nat
  <2> DEFINE a == Len(work[c].todo)
             b == Len(work[c].events)
  <2>1. Unsaid(work[c]) = 2 * a + b
        BY Zenon DEF Unsaid
  <2>2. a \in Nat /\ b \in Nat
        BY <1>4
  <2> HIDE DEF a, b
  <2> QED BY <2>1, <2>2
<1> QED BY <1>2, <1>3, <1>5 DEF Measured

LEMMA StagesAreNumbers == \A place \in Places : StagesLeft[place] \in Nat
BY DEF StagesLeft, Places

LEMMA MeasuredHandlers ==
  ASSUME NEW place \in Places, NEW w, Measured(w)
  PROVE  ToDoAt(place, w) \in Measures(4)
<1>1. Ahead(place, w) \in Nat
      BY DEF Ahead
<1> QED BY <1>1, StagesAreNumbers, FourMeasures DEF ToDoAt, Measured

LEMMA ToDoIsAt ==
  ASSUME NEW c \in Callers
  PROVE  ToDo(c) = ToDoAt(pc[c], work[c]) /\ ToDo(c)' = ToDoAt(pc'[c], work'[c])
BY DEF ToDo, ToDoAt, Ahead, Unsaid

\* A handler that returns has nothing left to do.
LEMMA ReturnIsNearer ==
  ASSUME NEW place \in Places \ {"idle"}, NEW w, Measured(w)
  PROVE  Nearer(ToDoAt("idle", Idle), ToDoAt(place, w))
<1>1. Ahead("idle", Idle) = 0 /\ Unsaid(Idle) = 0
      BY DEF Ahead, Unsaid, Idle
<1>2. Ahead(place, w) \in {0, 1} /\ Unsaid(w) \in Nat
      BY DEF Ahead, Measured
<1>3. StagesLeft["idle"] < StagesLeft[place]
      BY DEF StagesLeft, Places
<1>4. \/ Ahead("idle", Idle) < Ahead(place, w)
      \/ Ahead("idle", Idle) = Ahead(place, w) /\ Unsaid(Idle) < Unsaid(w)
      \/ /\ Ahead("idle", Idle) = Ahead(place, w) /\ Unsaid(Idle) = Unsaid(w)
         /\ StagesLeft["idle"] < StagesLeft[place]
      BY <1>1, <1>2, <1>3
<1> QED BY <1>4, NearerOfFour DEF ToDoAt

\* One that goes on says an event it had ready, goes to a later place with the
\* same events, or is done with one more webhook.
LEMMA StepIsNearer ==
  ASSUME NEW p, NEW w, NEW q, NEW v,
         \/ Ahead(q, v) < Ahead(p, w)
         \/ Ahead(q, v) = Ahead(p, w) /\ Unsaid(v) < Unsaid(w)
         \/ /\ Ahead(q, v) = Ahead(p, w) /\ Unsaid(v) = Unsaid(w)
            /\ StagesLeft[q] < StagesLeft[p]
         \/ /\ Ahead(q, v) = Ahead(p, w) /\ Unsaid(v) = Unsaid(w)
            /\ StagesLeft[q] = StagesLeft[p] /\ Cardinality(v.subs) < Cardinality(w.subs)
  PROVE  Nearer(ToDoAt(q, v), ToDoAt(p, w))
BY NearerOfFour DEF ToDoAt

LEMMA HandlerStepsRest ==
  ASSUME StoresInv, Told, Told', HandlersShaped, pc \in [Callers -> Places],
         pc' \in [Callers -> Places], NEW c \in Callers, Proceed(c)
  PROVE  ToDo(c)' \in Measures(4) /\ Nearer(ToDo(c)', ToDo(c))
<1> DEFINE w == work[c]
           Lower == Nearer(ToDoAt(pc'[c], work'[c]), ToDoAt(pc[c], w))
<1>1. Measured(w) /\ IsFiniteSet(w.subs) /\ pc[c] \in Places
      BY MeasuredLocals
<1>2. Measured(work'[c])
  <2>1. Truthful(pc'[c], work'[c], accepted')
        BY DEF Told, HandlersTold
  <2>2. IsFiniteSet(work'[c].subs)
        BY <2>1, FS_Subset, FacadeAssumption DEF Truthful
  <2>3. Cardinality(work'[c].subs) \in Nat
        BY <2>2, FS_CardinalityType
  <2>4. Len(work'[c].todo) \in Nat /\ Len(work'[c].events) \in Nat
        BY <2>1 DEF Truthful
  <2>5. Unsaid(work'[c]) \in Nat
    <3> DEFINE a == Len(work'[c].todo)
               b == Len(work'[c].events)
    <3>1. Unsaid(work'[c]) = 2 * a + b
          BY Zenon DEF Unsaid
    <3>2. a \in Nat /\ b \in Nat
          BY <2>4
    <3> HIDE DEF a, b
    <3> QED BY <3>1, <3>2
  <2> QED BY <2>3, <2>5 DEF Measured
<1>3. Shaped(pc[c], w) /\ Truthful(pc[c], w, accepted)
      BY DEF HandlersShaped, Told, HandlersTold
<1>4. ASSUME NEW place, NEW v, Goto(c, place, v)
      PROVE  pc'[c] = place /\ work'[c] = (IF place = "idle" THEN Idle ELSE v)
      BY <1>4 DEF Goto, StoresInv, Domains
<1>5. ASSUME pc'[c] = "idle", work'[c] = Idle, pc[c] # "idle" PROVE Lower
      BY <1>1, <1>5, ReturnIsNearer
<1> HIDE DEF Lower
<1>6. ASSUME SecondTransition(c) PROVE Lower
  <2> DEFINE v == [w EXCEPT !.todo = <<Snapshot(Head(w.events).charge, "received")>>]
  <2>1. pc[c] = "second" /\ Goto(c, "build", v)
        BY <1>6 DEF SecondTransition
  <2>2. pc'[c] = "build" /\ work'[c] = v /\ v.events = w.events
        BY <1>4, <2>1
  <2> HIDE DEF v
  <2>3. v.events # <<>>
        BY <1>3, <2>1, <2>2 DEF Truthful
  <2>4. Ahead("build", v) = 0 /\ Ahead("second", w) = 1
        BY <2>3 DEF Ahead
  <2> QED BY <2>1, <2>2, <2>4, StepIsNearer DEF Lower
<1>7. ASSUME SecondRefused(c) PROVE Lower
  <2>1. pc[c] = "second" /\ pc'[c] = "subscribers" /\ work'[c] = w
        BY <1>4, <1>7 DEF SecondRefused
  <2>2. Ahead("subscribers", w) = 0 /\ Ahead("second", w) = 1
        BY DEF Ahead
  <2> QED BY <2>1, <2>2, StepIsNearer DEF Lower
<1>8. ASSUME Build(c) PROVE Lower
  <2> DEFINE place == IF w.reverse /\ w.events = <<>> THEN "second" ELSE "subscribers"
             v == [w EXCEPT !.todo = Tail(@), !.events = Announce(@, Built(Head(w.todo)))]
  <2>1. pc[c] = "build" /\ Goto(c, place, v)
        BY <1>8 DEF Build
  <2>2. /\ pc'[c] = place /\ work'[c] = v
        /\ v.todo = Tail(w.todo) /\ v.events = <<Head(w.todo)>> \o w.events
        BY <1>4, <2>1 DEF Announce, Built
  <2> HIDE DEF v
  <2>3. w.todo \in Seq(Honest) /\ w.events \in Seq(Honest) /\ w.todo # <<>>
        BY <1>3, <2>1 DEF Truthful
  <2>4. Len(v.todo) = Len(w.todo) - 1 /\ Len(v.events) = Len(w.events) + 1
        BY <2>2, <2>3
  <2>5. Unsaid(v) < Unsaid(w)
    <3> DEFINE a == Len(w.todo)
               b == Len(w.events)
    <3>1. a \in Nat /\ b \in Nat
          BY <2>3
    <3>2. Unsaid(w) = 2 * a + b
          BY Zenon DEF Unsaid
    <3>3. Len(v.todo) = a - 1 /\ Len(v.events) = b + 1
          BY <2>4
    <3> HIDE DEF a, b
    <3>4. Unsaid(v) = 2 * (a - 1) + (b + 1)
          BY <3>3, Zenon DEF Unsaid
    <3> QED BY <3>1, <3>2, <3>4
  <2>6. Ahead(place, v) = Ahead("build", w)
        BY DEF Ahead
  <2> HIDE DEF place
  <2> QED BY <2>1, <2>2, <2>5, <2>6, StepIsNearer DEF Lower
<1>9. ASSUME ReadSubscribers(c) PROVE Lower
  <2> DEFINE subs == Subscribers(Head(w.events).type)
             place == IF subs = {} THEN "record" ELSE "enqueue"
             v == [w EXCEPT !.subs = subs, !.sent = {}]
  <2>1. pc[c] = "subscribers" /\ Goto(c, place, v) /\ place \in {"record", "enqueue"}
        BY <1>9 DEF ReadSubscribers
  <2> HIDE DEF place
  <2>2. pc'[c] = place /\ work'[c] = v /\ v.todo = w.todo /\ v.events = w.events
        BY <1>4, <2>1
  <2> HIDE DEF v
  <2>3. Ahead(place, v) = 0 /\ Ahead("subscribers", w) = 0 /\ Unsaid(v) = Unsaid(w)
        BY <2>1, <2>2 DEF Ahead, Unsaid
  <2>4. StagesLeft[place] < StagesLeft["subscribers"]
        BY <2>1 DEF StagesLeft
  <2> QED BY <2>1, <2>2, <2>3, <2>4, StepIsNearer DEF Lower
<1>10. ASSUME NEW h \in w.subs PROVE Cardinality(w.subs \ {h}) < Cardinality(w.subs)
  <2>1. Cardinality(w.subs \ {h}) = Cardinality(w.subs) - 1
        BY <1>1, FS_RemoveElement
  <2> QED BY <1>1, <2>1 DEF Measured
<1>11. ASSUME NEW h \in Hooks, EnqueueTo(c, h) PROVE Lower
  <2> DEFINE left == w.subs \ {h}
             place == IF left = {} THEN "record" ELSE "enqueue"
             v == [w EXCEPT !.subs = left, !.sent = Reached(@, h)]
  <2>1. pc[c] = "enqueue" /\ h \in w.subs /\ Goto(c, place, v)
        /\ place \in {"record", "enqueue"}
        BY <1>11 DEF EnqueueTo
  <2> HIDE DEF place
  <2>2. /\ pc'[c] = place /\ work'[c] = v
        /\ v.todo = w.todo /\ v.events = w.events /\ v.subs = left
        BY <1>1, <1>4, <2>1, <1>3 DEF Truthful
  <2> HIDE DEF v
  <2>3. Ahead(place, v) = 0 /\ Ahead("enqueue", w) = 0 /\ Unsaid(v) = Unsaid(w)
        BY <2>1, <2>2 DEF Ahead, Unsaid
  <2>4. place = "record" => StagesLeft[place] < StagesLeft["enqueue"]
        BY DEF StagesLeft
  <2>5. Cardinality(v.subs) < Cardinality(w.subs)
        BY <1>10, <2>1, <2>2
  <2> QED BY <2>1, <2>2, <2>3, <2>4, <2>5, StepIsNearer DEF Lower
<1>12. ASSUME RecordLast(c) PROVE Lower
  <2> DEFINE rest == Tail(w.events)
             v == [w EXCEPT !.events = rest, !.sent = {}]
             place == IF rest # <<>> THEN "subscribers"
                      ELSE IF w.todo # <<>> THEN "build" ELSE "idle"
  <2>1. pc[c] = "record" /\ Goto(c, place, v)
        BY <1>12 DEF RecordLast, Others
  <2>2. /\ v.todo = w.todo /\ v.events = rest /\ v.reverse = w.reverse
        /\ pc'[c] = place /\ (place # "idle" => work'[c] = v)
        /\ place = "idle" => work'[c] = Idle
        BY <1>4, <2>1
  <2> HIDE DEF v
  <2>3. w.todo \in Seq(Honest) /\ w.events \in Seq(Honest) /\ w.events # <<>>
        BY <1>3, <2>1 DEF Truthful
  <2>4. Len(v.events) = Len(w.events) - 1
        BY <2>2, <2>3
  <2>5. Unsaid(v) < Unsaid(w)
    <3> DEFINE a == Len(w.todo)
               b == Len(w.events)
    <3>1. a \in Nat /\ b \in Nat
          BY <2>3
    <3>2. Unsaid(w) = 2 * a + b
          BY Zenon DEF Unsaid
    <3>3. Len(v.todo) = a /\ Len(v.events) = b - 1
          BY <2>2, <2>4
    <3> HIDE DEF a, b
    <3>4. Unsaid(v) = 2 * a + (b - 1)
          BY <3>3, Zenon DEF Unsaid
    <3> QED BY <3>1, <3>2, <3>4
  <2>6. w.reverse => w.todo = <<>>
        BY <1>3, <2>1 DEF Shaped, Order
  <2>7. Ahead(place, v) = 0 /\ Ahead("record", w) = 0
        BY <2>2, <2>6 DEF Ahead
  <2> HIDE DEF place
  <2>8. CASE place = "idle"
        BY <1>5, <2>1, <2>2, <2>8
  <2>9. CASE place # "idle"
        BY <2>1, <2>2, <2>5, <2>7, <2>9, StepIsNearer DEF Lower
  <2> QED BY <2>8, <2>9
<1>13. ASSUME NEW h \in Hooks, ReplayTo(c, h) PROVE Lower
  <2> DEFINE left == w.subs \ {h}
             place == IF left = {} THEN "idle" ELSE "replay"
             v == [w EXCEPT !.subs = left]
  <2>1. pc[c] = "replay" /\ h \in w.subs /\ Goto(c, place, v)
        /\ place \in {"idle", "replay"}
        BY <1>13 DEF ReplayTo
  <2> HIDE DEF place
  <2>2. /\ pc'[c] = place /\ (place # "idle" => work'[c] = v)
        /\ place = "idle" => work'[c] = Idle
        /\ v.todo = w.todo /\ v.events = w.events /\ v.subs = left
        BY <1>4, <2>1
  <2> HIDE DEF v
  <2>3. CASE place = "idle"
        BY <1>5, <2>1, <2>2, <2>3
  <2>4. CASE place = "replay"
    <3>1. Ahead("replay", v) = 0 /\ Ahead("replay", w) = 0 /\ Unsaid(v) = Unsaid(w)
          BY <2>2 DEF Ahead, Unsaid
    <3>2. Cardinality(v.subs) < Cardinality(w.subs)
          BY <1>10, <2>1, <2>2
    <3> QED BY <2>1, <2>2, <2>4, <3>1, <3>2, StepIsNearer DEF Lower
  <2> QED BY <2>1, <2>3, <2>4
<1>14. ASSUME AddToRegistry(c) \/ ReactivateQueue(c) PROVE Lower
  <2>1. Goto(c, "idle", Idle) /\ pc[c] \in {"add", "resume"}
        BY <1>14 DEF AddToRegistry, ReactivateQueue
  <2> QED BY <1>4, <1>5, <2>1
<1>15. ASSUME PushToDispatcher(c) PROVE Lower
  <2>1. pc[c] = "push" /\ \E place \in {"resume", "idle"} : Goto(c, place, w)
        BY <1>15 DEF PushToDispatcher
  <2>2. CASE pc'[c] = "resume" /\ work'[c] = w
    <3>1. Ahead("resume", w) = 0 /\ Ahead("push", w) = 0
          /\ StagesLeft["resume"] < StagesLeft["push"]
          BY DEF Ahead, StagesLeft
    <3> QED BY <2>1, <2>2, <3>1, StepIsNearer DEF Lower
  <2> QED BY <1>4, <1>5, <2>1, <2>2
<1>16. Lower
      BY <1>6, <1>7, <1>8, <1>9, <1>11, <1>12, <1>13, <1>14, <1>15 DEF Proceed
<1> QED BY <1>2, <1>16, MeasuredHandlers, ToDoIsAt DEF Lower

\* Whatever a handler does brings it nearer to its return, so that it returns
\* after finitely many steps of its own for any number of webhooks, charges due
\* and requests beside it: what can keep it is the registry's lock alone, which
\* is held for one step of another handler (webhook.go:121-163, 289-327).
THEOREM HandlersRest == Spec => HandlersWindDown
<1>1. /\ TypeInv /\ TypeInv' /\ HandlersShaped /\ [Next]_vars
      => [\A c \in Callers :
            Proceed(c) => ToDo(c)' \in Measures(4) /\ Nearer(ToDo(c)', ToDo(c))]_vars
      BY HandlerStepsRest DEF TypeInv, Bookkeeping
<1> QED BY <1>1, TypeInvAlways, AnnouncingAlways, PTL DEF Spec, HandlersWindDown
=============================================================================
