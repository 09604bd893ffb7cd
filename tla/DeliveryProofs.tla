--------------------------- MODULE DeliveryProofs ---------------------------
(***************************************************************************)
(* More proofs about EventManager: what receivers see, the order in which  *)
(* deferred events are fired, and that the manager implements              *)
(* EventDelivery.                                                          *)
(***************************************************************************)
EXTENDS EventProofs

-----------------------------------------------------------------------------
(* What receivers have seen                                                *)

\* Nothing will stop event e any more: the call that fires it, if there is one,
\* has called a receiver, and no flush has its error or will come to it.
Past(e) ==
    /\ \A t \in Threads : \A i \in 1 .. Len(stack[t]) :
          /\ stack[t][i].op # "flush" /\ stack[t][i].ev.id = e
                 => stack[t][i].op = "fire" /\ stack[t][i].at # 0
          /\ stack[t][i].op = "flush" => e \notin stack[t][i].raised
    /\ \A l \in 1 .. Len(lists) : \A p \in 1 .. Len(lists[l]) :
          lists[l][p].id = e => Consumed(l, p)
    /\ \A x \in ended : x.id = e => x.how \in {"delivered", "dropped"}

SeenIsPast ==
    ~Reentrant =>
        \A r \in ToSet(Receivers) : \A k \in 1 .. Len(seen[r]) :
            \A e \in Nat : seen[r][k].id = e => Past(e)

\* Receivers that do not call back have nothing above them.
LEMMA Shallow ==
    ASSUME EventTypeOK, StackShape, ~Reentrant, NEW t \in Threads,
           NEW i \in 1 .. Len(stack[t]), i < Len(stack[t])
    PROVE  /\ stack[t][i].op = "flush" /\ i = 1 /\ Len(stack[t]) = 2
           /\ stack[t][2].op = "fire"
           /\ stack[t][1].list \in 1 .. Len(lists)
           /\ stack[t][1].at \in 1 .. Len(lists[stack[t][1].list])
           /\ stack[t][2].ev = lists[stack[t][1].list][stack[t][1].at]
<1>0. Len(stack[t]) \in Nat /\ setup.calling = {}
  BY StackTypes DEF Reentrant
<1>1. ASSUME NEW j \in 1 .. Len(stack[t]), j < Len(stack[t])
      PROVE  /\ stack[t][j].op = "flush" /\ stack[t][j + 1].op = "fire"
             /\ stack[t][j].list # 0 /\ stack[t][j].at >= 1
             /\ stack[t][j + 1].ev = lists[stack[t][j].list][stack[t][j].at]
  BY <1>0, <1>1 DEF StackShape, Within
<1>2. Len(stack[t]) = 2
  <2>1. ~(Len(stack[t]) >= 3)
    <3> SUFFICES ASSUME Len(stack[t]) >= 3 PROVE FALSE
      OBVIOUS
    <3>1. 1 \in 1 .. Len(stack[t]) /\ 2 \in 1 .. Len(stack[t]) /\ 1 < Len(stack[t]) /\ 2 < Len(stack[t])
      BY <1>0
    <3>2. stack[t][1 + 1].op = "fire" /\ stack[t][2].op = "flush"
      BY <1>1, <3>1
    <3> QED BY <3>2
  <2> DEFINE n == Len(stack[t])
  <2>2. n \in Nat /\ ~(n >= 3) /\ n >= 2
    BY <1>0, <2>1
  <2> HIDE DEF n
  <2>3. n = 2
    BY <2>2
  <2> QED BY <2>3 DEF n
<1>3. i = 1 /\ 1 \in 1 .. Len(stack[t]) /\ 1 < Len(stack[t]) /\ 1 + 1 = 2
  BY <1>2
<1>4. /\ stack[t][1].op = "flush" /\ stack[t][1 + 1].op = "fire"
      /\ stack[t][1].list # 0 /\ stack[t][1].at >= 1
      /\ stack[t][1 + 1].ev = lists[stack[t][1].list][stack[t][1].at]
  BY <1>1, <1>3
<1>5. FrameOK(stack[t][1], lists) /\ stack[t][1].at \in Nat /\ stack[t][1].list \in Nat
  BY <1>3, StackTypes DEF StackShape, Frame
<1>6. stack[t][1].list \in 1 .. Len(lists) /\ stack[t][1].at <= Len(lists[stack[t][1].list])
  BY <1>4, <1>5, ListTypes DEF FrameOK
<1>7. stack[t][1].at \in 1 .. Len(lists[stack[t][1].list])
  BY <1>4, <1>5, <1>6, ListTypes
<1> QED BY <1>2, <1>3, <1>4, <1>6, <1>7

\* An event that a flush has just caught was not given to a receiver.
LEMMA CaughtAtStart ==
    ASSUME EventTypeOK, StackShape, IdsAreCounted, ~Reentrant, [Next]_vars,
           NEW u \in Threads, NEW i \in 1 .. Len(stack[u]), NEW e, Catches(u, i, e),
           e \notin stack[u][i].raised, e \in stack'[u][i].raised
    PROVE  Len(stack[u]) = i + 1 /\ stack[u][i + 1].at = 0
<1> USE DEF config, queues, counts, history
<1>1. /\ i = 1 /\ Len(stack[u]) = 2 /\ Len(stack'[u]) = 1
      /\ stack[u][2].op = "fire" /\ Top(u) = stack[u][2] /\ stack[u] # <<>>
  <2>1. i < Len(stack[u]) /\ i = Len(stack'[u])
    BY DEF Catches
  <2>2. i = 1 /\ Len(stack[u]) = 2 /\ Len(stack'[u]) = 1 /\ stack[u][2].op = "fire"
    BY <2>1, Shallow
  <2> QED BY <2>2, TopFacts
<1>2. CASE stack'[u] = stack[u]
  BY <1>2
<1>3. ASSUME NEW s, Keeps(u, Len(stack[u]) - 1, s) PROVE FALSE
  <2>1. 1 \in 1 .. Len(stack[u]) - 1
    BY <1>1
  <2> QED BY <1>1, <1>3, <2>1 DEF Keeps
<1>4. ASSUME NEW t \in Threads, t # u, NEW k, NEW s, Keeps(t, k, s) PROVE stack'[u] = stack[u]
  BY <1>4 DEF Keeps
<1>5. ASSUME stack'[u] # stack[u], NEW t \in Threads,
             \/ Fire(t) \/ Defer(t) \/ FindList(t) \/ CreateList(t) \/ AppendArgs(t)
             \/ Flush(t) \/ FlushNext(t) \/ FlushEnd(t) \/ FlushRaises(t)
      PROVE  FALSE
  <2>1. t = u
    BY <1>5 DEF Fire, Defer, FindList, CreateList, AppendArgs, Flush, FlushNext, FlushEnd,
              FlushRaises, RaiseCompilation, Push, Pop, SetTop, EventTypeOK
  <2>2. ~(FindList(t) \/ CreateList(t) \/ AppendArgs(t) \/ FlushNext(t) \/ FlushEnd(t) \/ FlushRaises(t))
    BY <1>1, <2>1 DEF FindList, CreateList, AppendArgs, FlushNext, FlushEnd, FlushRaises, In
  <2>3. ~MayCall(t)
    BY <1>1, <2>1 DEF MayCall, Reentrant
  <2> QED BY <1>5, <2>2, <2>3 DEF Fire, Defer, Flush
<1>6. ASSUME stack'[u] # stack[u], NEW t \in Threads, FireRaises(t) PROVE stack[u][2].at = 0
  <2>1. t = u
    BY <1>6 DEF FireRaises, RaiseCompilation, EventTypeOK
  <2> QED BY <1>1, <1>6, <2>1 DEF FireRaises, Deciding
<1>7. ASSUME stack'[u] # stack[u], NEW t \in Threads, FireSilenced(t) \/ FireEnd(t) PROVE FALSE
  <2>1. Keeps(t, Len(stack[t]) - 1, <<>>)
    BY <1>7, FireOverFacts
  <2> QED BY <1>3, <1>4, <1>7, <2>1
<1>8. ASSUME stack'[u] # stack[u], NEW t \in Threads, FireFirst(t) \/ FireNext(t) PROVE FALSE
  <2>1. \E s : Keeps(t, Len(stack[t]) - 1, s)
    BY <1>8, GiveFacts
  <2> QED BY <1>3, <1>4, <1>8, <2>1
<1>9. ASSUME stack'[u] # stack[u], NEW t \in Threads, ReceiverRaises(t) PROVE FALSE
  <2>1. t = u
    BY <1>9 DEF ReceiverRaises, EventTypeOK
  <2>2. stack'[u] = <<>>
    BY <1>9, <2>1 DEF ReceiverRaises, EventTypeOK
  <2> QED BY <1>1, <2>2
<1>10. CASE Configure \/ UNCHANGED vars
  BY <1>2, <1>10 DEF Configure, vars
<1> QED BY <1>1, <1>2, <1>5, <1>6, <1>7, <1>8, <1>9, <1>10 DEF Next

\* The top call of t ends event e with an error or silently.
Stops(t, e) ==
    LET d == stack[t][Len(stack[t])] IN
    /\ Len(stack[t]) \in 1 .. Len(stack[t])
    /\ (d.op = "fire" /\ d.at = 0 /\ d.ev.id = e) \/ (d.op = "flush" /\ e \in d.raised)

LEMMA StepHows ==
    ASSUME EventTypeOK, StackShape, IdsAreCounted, [Next]_vars, NEW x \in ended', x \notin ended
    PROVE  x.how \in {"delivered", "dropped"} \/ \E t \in Threads : Stops(t, x.id)
<1> USE DEF config, queues, counts, history
<1> DEFINE G == x.how \in {"delivered", "dropped"} \/ \E t \in Threads : Stops(t, x.id)
<1>n. ASSUME NEW t \in Threads, Len(stack[t]) \in Nat \ {0}
      PROVE  Len(stack[t]) \in 1 .. Len(stack[t])
  BY <1>n
<1>a. ASSUME NEW ids, NEW how, EndAll(ids, how) PROVE x.id \in ids /\ x.how = how
  BY <1>a DEF EndAll
<1>r. ASSUME NEW t \in Threads, NEW named, Len(stack[t]) \in Nat \ {0},
             Unwinds(t, named) \/ \E k \in 1 .. Len(stack[t]) - 1, f \in Frame : Caught(t, named, k, f),
             \A e \in named : Stops(t, e)
      PROVE  G
  <2>1. CASE Unwinds(t, named)
    BY <1>r, <2>1 DEF Unwinds
  <2>2. ASSUME NEW k \in 1 .. Len(stack[t]) - 1, NEW f \in Frame, Caught(t, named, k, f)
        PROVE  x.how = "dropped"
    <3>1. \E ids : EndAll(ids, "dropped")
      BY <2>2 DEF Caught
    <3> QED BY <1>a, <3>1
  <2> QED BY <1>r, <2>1, <2>2
<1>1. ended' # ended
  OBVIOUS
<1>2. CASE Configure \/ UNCHANGED vars
  BY <1>1, <1>2 DEF Configure, vars
<1>3. ASSUME NEW t \in Threads,
             \/ Fire(t) \/ Defer(t) \/ FindList(t) \/ CreateList(t) \/ AppendArgs(t)
             \/ Flush(t) \/ FlushNext(t) \/ FlushEnd(t) \/ FireFirst(t) \/ FireNext(t)
      PROVE  FALSE
  BY <1>1, <1>3 DEF Fire, Defer, FindList, CreateList, AppendArgs, Flush, FlushNext, FlushEnd,
              FireFirst, FireNext
<1>4. ASSUME NEW t \in Threads, FireRaises(t) PROVE G
  <2> DEFINE d == stack[t][Len(stack[t])]
             named == {d.ev.id}
  <2>1. /\ Len(stack[t]) \in Nat \ {0} /\ d.op = "fire" /\ d.at = 0
        /\ Unwinds(t, named) \/ \E k \in 1 .. Len(stack[t]) - 1, f \in Frame : Caught(t, named, k, f)
    BY <1>4, FireRaisesFacts
  <2>2. \A e \in named : Stops(t, e)
    BY <1>n, <2>1 DEF Stops
  <2> HIDE DEF named, G
  <2> QED BY <1>r, <2>1, <2>2
<1>5. ASSUME NEW t \in Threads, FlushRaises(t) PROVE G
  <2> DEFINE d == stack[t][Len(stack[t])]
             named == d.raised
  <2>1. /\ Len(stack[t]) \in Nat \ {0} /\ d.op = "flush"
        /\ Unwinds(t, named) \/ \E k \in 1 .. Len(stack[t]) - 1, f \in Frame : Caught(t, named, k, f)
    BY <1>5, FlushRaisesFacts
  <2>2. \A e \in named : Stops(t, e)
    BY <1>n, <2>1 DEF Stops
  <2> HIDE DEF named, G
  <2> QED BY <1>r, <2>1, <2>2
<1>6. ASSUME NEW t \in Threads, FireSilenced(t) \/ FireEnd(t) PROVE G
  <2> DEFINE d == stack[t][Len(stack[t])]
  <2>1. /\ Len(stack[t]) \in Nat \ {0} /\ d.op = "fire"
        /\ (d.at = 0 /\ EndAll({d.ev.id}, "silenced")) \/ EndAll({d.ev.id}, "delivered")
    BY <1>6, FireOverFacts
  <2>2. CASE d.at = 0 /\ EndAll({d.ev.id}, "silenced")
    <3>1. x.id \in {d.ev.id}
      BY <1>a, <2>2
    <3>2. Stops(t, x.id)
      BY <1>n, <2>1, <2>2, <3>1 DEF Stops
    <3> QED BY <3>2
  <2>3. CASE EndAll({d.ev.id}, "delivered")
    BY <1>a, <2>3
  <2> QED BY <2>1, <2>2, <2>3
<1>7. ASSUME NEW t \in Threads, ReceiverRaises(t) PROVE G
  <2>1. EndAll(UnfinishedIn(stack[t]), "dropped")
    BY <1>7, ReceiverRaisesFacts
  <2> QED BY <1>a, <2>1
<1> QED BY <1>2, <1>3, <1>4, <1>5, <1>6, <1>7 DEF Next

\* An event that is past stays past.
LEMMA PastStays ==
    ASSUME EventTypeOK, EventTypeOK', StackShape, IdsAreCounted, ~Reentrant, [Next]_vars,
           NEW t, Moves(t), NEW e \in 0 .. events, Past(e)
    PROVE  Past(e)'
<1>0. events \in Nat /\ Len(lists) \in Nat
  BY ListTypes DEF EventTypeOK
<1>c. ASSUME NEW u \in Threads, NEW i \in 1 .. Len(stack[u]), stack[u][i].op # "flush",
             stack[u][i].ev.id = e
      PROVE  stack[u][i].op = "fire" /\ stack[u][i].at # 0
  BY <1>c DEF Past
<1>l. ASSUME NEW l \in 1 .. Len(lists), NEW p \in 1 .. Len(lists[l]), lists[l][p].id = e
      PROVE  Consumed(l, p)
  BY <1>l DEF Past
<1>1. ASSUME NEW u \in Threads, NEW i \in 1 .. Len(stack'[u]), stack'[u][i].op # "flush",
             stack'[u][i].ev.id = e
      PROVE  stack'[u][i].op = "fire" /\ stack'[u][i].at # 0
  <2>1. CASE CallsOn(u, i)
    <3>1. stack[u][i].op = "fire" /\ stack[u][i].at # 0
      BY <1>1, <1>c, <2>1 DEF CallsOn
    <3> QED BY <2>1, <3>1 DEF CallsOn, Stays, GoesOn
  <2>2. CASE CallsNew(u, i)
    BY <1>0, <1>1, <2>2 DEF CallsNew
  <2>3. ASSUME NEW l \in 1 .. Len(lists), NEW p \in 1 .. Len(lists[l]), CallsNext(u, i, l, p)
        PROVE  FALSE
    <3>1. /\ i - 1 \in 1 .. Len(stack[u]) /\ stack'[u][i].ev = lists[l][p]
          /\ stack[u][i - 1].op = "flush" /\ stack[u][i - 1].list = l
          /\ ~(p <= stack[u][i - 1].at)
      BY <2>3 DEF CallsNext
    <3>2. Consumed(l, p)
      BY <1>1, <1>l, <3>1
    <3> QED BY <3>1, <3>2 DEF Consumed
  <2> QED BY <1>1, <2>1, <2>2, <2>3, CallWas
<1>2. ASSUME NEW u \in Threads, NEW i \in 1 .. Len(stack'[u]), stack'[u][i].op = "flush"
      PROVE  e \notin stack'[u][i].raised
  <2>1. CASE i \in 1 .. Len(stack[u]) /\ stack[u][i].op = "flush" /\ Stays(u, i)
    <3>1. e \notin stack[u][i].raised
      BY <2>1 DEF Past
    <3>2. SUFFICES ASSUME e \in stack'[u][i].raised PROVE FALSE
      OBVIOUS
    <3>3. Catches(u, i, e)
      BY <2>1, <3>1, <3>2 DEF Stays
    <3>4. i + 1 \in 1 .. Len(stack[u]) /\ stack[u][i + 1].op = "fire" /\ stack[u][i + 1].ev.id = e
      BY <3>3, StackTypes DEF Catches
    <3>5. stack[u][i + 1].at = 0
      BY <2>1, <3>1, <3>2, <3>3, CaughtAtStart
    <3> QED BY <1>c, <3>4, <3>5
  <2> QED BY <1>2, <2>1, FlushWas
<1>3. ASSUME NEW l \in 1 .. Len(lists'), NEW p \in 1 .. Len(lists'[l]), lists'[l][p].id = e
      PROVE  Consumed(l, p)'
  <2>1. l \in 1 .. Len(lists) /\ p \in 1 .. Len(lists[l]) /\ lists[l][p].id = e
    <3>1. CASE IsOld(l, p)
      BY <1>3, <3>1 DEF IsOld
    <3>2. ASSUME NEW v \in Threads, Appends(v, l, p) PROVE FALSE
      <4>1. Len(stack[v]) \in 1 .. Len(stack[v]) /\ stack[v][Len(stack[v])].op = "defer"
            /\ stack[v][Len(stack[v])].ev.id = e
        BY <1>3, <3>2 DEF Appends
      <4> QED BY <1>c, <4>1
    <3> QED BY <3>1, <3>2, StepPositions
  <2> QED BY <1>l, <2>1, ConsumedStays
<1>4. ASSUME NEW x \in ended', x.id = e PROVE x.how \in {"delivered", "dropped"}
  <2>1. CASE x \in ended
    BY <1>4, <2>1 DEF Past
  <2>2. CASE x \notin ended
    <3>1. ~\E u \in Threads : Stops(u, x.id)
      BY <1>4 DEF Past, Stops
    <3> QED BY <2>2, <3>1, StepHows
  <2> QED BY <2>1, <2>2
<1> QED BY <1>1, <1>2, <1>3, <1>4 DEF Past

\* An event that a receiver is being given is past.
GivenArePast ==
    \A e \in Nat : \A t \in Threads : \A i \in 1 .. Len(stack[t]) :
        stack[t][i].op = "fire" /\ stack[t][i].at # 0 /\ stack[t][i].ev.id = e => Past(e)

LEMMA GivenIsPast == QueueInv => GivenArePast
<1> SUFFICES ASSUME QueueInv, NEW e \in Nat, NEW t \in Threads, NEW i \in 1 .. Len(stack[t]),
                    stack[t][i].op = "fire", stack[t][i].at # 0, stack[t][i].ev.id = e
             PROVE  Past(e)
  BY DEF GivenArePast
<1>0. EventTypeOK /\ StackShape /\ ListsAreOwned /\ PlacesAreDistinct /\ RaisedWereFired /\ EndsAreFinal
  BY DEF QueueInv
<1>h. Holds(stack[t][i], e)
  BY DEF Holds
<1>1. ASSUME NEW u \in Threads, NEW j \in 1 .. Len(stack[u]), stack[u][j].op # "flush",
             stack[u][j].ev.id = e
      PROVE  stack[u][j].op = "fire" /\ stack[u][j].at # 0
  <2>1. CallOf(t, i, e) /\ CallOf(u, j, e)
    BY <1>1 DEF CallOf
  <2>2. u = t /\ i = j
    BY <1>0, <2>1, CallOnce
  <2> QED BY <2>2
<1>2. ASSUME NEW u \in Threads, NEW j \in 1 .. Len(stack[u]), stack[u][j].op = "flush",
             e \in stack[u][j].raised
      PROVE  FALSE
  <2>1. Holds(stack[u][j], e)
    BY <1>2 DEF Holds
  <2>2. ASSUME NEW x, Holds(stack[t][i], x), Holds(stack[u][j], x) PROVE t = u /\ i = j
    BY <1>0, <2>2, HeldOnce, Zenon
  <2>3. t = u /\ i = j
    BY <1>h, <2>1, <2>2
  <2> QED BY <1>2, <2>3
<1>3. ASSUME NEW l \in 1 .. Len(lists), NEW p \in 1 .. Len(lists[l]), lists[l][p].id = e
      PROVE  Consumed(l, p)
  <2>1. /\ i > 1 /\ stack[t][i - 1].op = "flush"
        /\ stack[t][i - 1].list = l /\ stack[t][i - 1].at = p
    <3>1. CallOf(t, i, e) /\ Lies(l, p, e)
      BY <1>3 DEF CallOf, Lies
    <3> QED BY <1>0, <3>1, CallPlace
  <2>2. i - 1 \in 1 .. Len(stack[t]) /\ l # 0 /\ p <= p
    BY <1>0, <2>1, StackTypes, ListTypes
  <2>3. \A g \in Groups : groups[g] # l
    <3>1. \A k \in 1 .. Len(stack[t]) : stack[t][k].op = "flush" /\ stack[t][k].list = l =>
             \A g \in Groups : groups[g] # l
      BY <1>0, <2>2 DEF ListsAreOwned
    <3> QED BY <2>1, <2>2, <3>1
  <2>4. ASSUME NEW u \in Threads, NEW j \in 1 .. Len(stack[u]), stack[u][j].op = "flush",
               stack[u][j].list = l
        PROVE  p <= stack[u][j].at
    <3>1. FlushOf(t, i - 1, l) /\ FlushOf(u, j, l)
      BY <2>1, <2>2, <2>4 DEF FlushOf
    <3>2. u = t /\ j = i - 1
      BY <1>0, <2>2, <3>1, FlushOnce
    <3> QED BY <2>1, <2>2, <3>2
  <2> QED BY <2>3, <2>4 DEF Consumed
<1>4. ASSUME NEW x \in ended, x.id = e PROVE FALSE
  <2>1. AtRest(e)
    BY <1>0, <1>4 DEF EndsAreFinal
  <2> QED BY <2>1 DEF AtRest
<1> QED BY <1>1, <1>2, <1>3, <1>4 DEF Past

LEMMA GivenIsPastNext ==
    ASSUME QueueInv', NEW e \in Nat, NEW t \in Threads, NEW i \in 1 .. Len(stack'[t]),
           stack'[t][i].op = "fire", stack'[t][i].at # 0, stack'[t][i].ev.id = e
    PROVE  Past(e)'
<1>1. QueueInv' => GivenArePast'
  BY GivenIsPast, PTL
<1> QED BY <1>1 DEF GivenArePast

\* What a receiver sees is what it has seen, or what it is being given.
LEMMA StepSeen ==
    ASSUME EventTypeOK, StackShape, IdsAreCounted, [Next]_vars,
           NEW r \in ToSet(Receivers), NEW k \in 1 .. Len(seen'[r])
    PROVE  \/ k \in 1 .. Len(seen[r]) /\ seen'[r][k] = seen[r][k]
           \/ \E t \in Threads : \E i \in 1 .. Len(stack'[t]) :
                 /\ stack'[t][i].op = "fire" /\ stack'[t][i].at # 0
                 /\ seen'[r][k] = stack'[t][i].ev
<1> USE DEF config, queues, counts, history
<1> DEFINE G == \/ k \in 1 .. Len(seen[r]) /\ seen'[r][k] = seen[r][k]
                \/ \E t \in Threads : \E i \in 1 .. Len(stack'[t]) :
                      /\ stack'[t][i].op = "fire" /\ stack'[t][i].at # 0
                      /\ seen'[r][k] = stack'[t][i].ev
<1>1. CASE seen' = seen
  BY <1>1
<1>2. ASSUME NEW t \in Threads, FireFirst(t) \/ FireNext(t) PROVE G
  <2> DEFINE n == Len(stack[t])
             d == stack[t][n]
  <2>1. PICK a \in 1 .. Len(Receivers) :
           /\ n \in Nat \ {0} /\ d \in Frame /\ d.op = "fire"
           /\ Keeps(t, n - 1, <<[d EXCEPT !.at = a]>>)
           /\ seen' = [seen EXCEPT ![Receivers[a]] = Append(seen[Receivers[a]], d.ev)]
    BY <1>2, GiveFacts
  <2> DEFINE f == [d EXCEPT !.at = a]
             s == <<f>>
  <2>2. f.op = "fire" /\ f.at # 0 /\ f.ev = d.ev
    <3> HIDE DEF d
    <3>1. a # 0
      OBVIOUS
    <3> QED BY <2>1, <3>1 DEF Frame
  <2>3. Keeps(t, n - 1, s) /\ s[1] = f /\ Len(s) = 1
    BY <2>1
  <2> HIDE DEF s, f
  <2>4. n \in 1 .. Len(stack'[t]) /\ stack'[t][n] = f
    <3>1. (n - 1) + 1 = n /\ 1 \in 1 .. Len(s)
      BY <2>1, <2>3
    <3>2. stack'[t][(n - 1) + 1] = s[1] /\ Len(stack'[t]) = (n - 1) + 1
      BY <2>3, <3>1 DEF Keeps
    <3> QED BY <2>1, <2>3, <3>1, <3>2
  <2>5. \/ k \in 1 .. Len(seen[r]) /\ seen'[r][k] = seen[r][k]
        \/ seen'[r][k] = d.ev
    <3>1. seen \in [ToSet(Receivers) -> Seq(Event)] /\ Receivers[a] \in ToSet(Receivers)
      BY SetupFacts DEF EventTypeOK
    <3>2. CASE r # Receivers[a]
      <4>1. seen'[r] = seen[r]
        BY <2>1, <3>1, <3>2
      <4> QED BY <4>1
    <3>3. CASE r = Receivers[a]
      <4>1. seen'[r] = Append(seen[r], d.ev) /\ seen[r] \in Seq(Event) /\ d.ev \in Event
        BY <2>1, <3>1, <3>3 DEF Frame
      <4>2. /\ Len(seen'[r]) = Len(seen[r]) + 1 /\ Len(seen[r]) \in Nat
            /\ \A j \in 1 .. Len(seen[r]) : seen'[r][j] = seen[r][j]
            /\ seen'[r][Len(seen[r]) + 1] = d.ev
        <5> DEFINE q == seen[r]
                   y == d.ev
        <5>1. q \in Seq(Event) /\ y \in Event /\ seen'[r] = Append(q, y)
          BY <4>1
        <5> HIDE DEF q, y
        <5>2. /\ Len(Append(q, y)) = Len(q) + 1 /\ Len(q) \in Nat
              /\ \A j \in 1 .. Len(q) : Append(q, y)[j] = q[j]
              /\ Append(q, y)[Len(q) + 1] = y
          BY <5>1, AppendProperties
        <5> QED BY <5>1, <5>2 DEF q, y
      <4>3. k \in 1 .. Len(seen[r]) \/ k = Len(seen[r]) + 1
        BY <4>2
      <4> QED BY <4>2, <4>3
    <3> QED BY <3>2, <3>3
  <2> QED BY <2>2, <2>4, <2>5
<1>3. CASE Configure \/ UNCHANGED vars
  BY <1>1, <1>3 DEF Configure, vars
<1>4. ASSUME NEW t \in Threads,
             \/ Fire(t) \/ Defer(t) \/ FindList(t) \/ CreateList(t) \/ AppendArgs(t)
             \/ Flush(t) \/ FlushNext(t) \/ FlushEnd(t) \/ FlushRaises(t)
             \/ FireRaises(t) \/ FireSilenced(t) \/ FireEnd(t) \/ ReceiverRaises(t)
      PROVE  seen' = seen
  BY <1>4 DEF Fire, Defer, FindList, CreateList, AppendArgs, Flush, FlushNext, FlushEnd,
              FlushRaises, FireRaises, FireSilenced, FireEnd, ReceiverRaises
<1> QED BY <1>1, <1>2, <1>3, <1>4 DEF Next

LEMMA SeenNext == QueueInv /\ QueueInv' /\ SeenIsPast /\ [Next]_vars => SeenIsPast'
<1> SUFFICES ASSUME QueueInv, QueueInv', SeenIsPast, [Next]_vars, (~Reentrant)',
                    NEW r \in ToSet(Receivers)', NEW k \in 1 .. Len(seen'[r]),
                    NEW e \in Nat, seen'[r][k].id = e
             PROVE  Past(e)'
  BY DEF SeenIsPast
<1>0. /\ EventTypeOK /\ StackShape /\ IdsAreCounted /\ EventTypeOK'
  BY DEF QueueInv
<1>1. ~Reentrant /\ r \in ToSet(Receivers)
  BY <1>0, StepGrows DEF Reentrant, Receivers
<1>2. CASE k \in 1 .. Len(seen[r]) /\ seen'[r][k] = seen[r][k]
  <2>1. Past(e)
    BY <1>1, <1>2 DEF SeenIsPast
  <2>2. e \in 0 .. events
    <3>1. e <= events /\ events \in Nat
      BY <1>0, <1>1, <1>2 DEF IdsAreCounted, EventTypeOK
    <3> QED BY <3>1
  <2>3. PICK t : Moves(t)
    BY <1>0, StepMoves
  <2> QED BY <1>0, <1>1, <2>1, <2>2, <2>3, PastStays
<1>3. ASSUME NEW t \in Threads, NEW i \in 1 .. Len(stack'[t]),
             stack'[t][i].op = "fire", stack'[t][i].at # 0, seen'[r][k] = stack'[t][i].ev
      PROVE  Past(e)'
  BY <1>3, GivenIsPastNext
<1> QED BY <1>0, <1>1, <1>2, <1>3, StepSeen

\* No receiver is given an event that is silenced or raised as an error: not
\* later either, and not the same event by way of a deferred list.
THEOREM StoppedAreUnseen == Spec => []UnseenIfStopped
<1>1. Init => SeenIsPast
  <2> SUFFICES ASSUME Init, NEW r \in ToSet(Receivers), NEW k \in 1 .. Len(seen[r]) PROVE FALSE
    BY DEF SeenIsPast
  <2>1. Len(seen[r]) = 0
    BY DEF Init
  <2> QED BY <2>1
<1>2. QueueInv /\ SeenIsPast => UnseenIfStopped
  <2> SUFFICES ASSUME QueueInv, SeenIsPast, ~Reentrant, NEW x \in ended,
                      x.how \in {"silenced", "errored"},
                      NEW r \in ToSet(Receivers), NEW k \in DOMAIN seen[r], seen[r][k].id = x.id
               PROVE  FALSE
    BY DEF UnseenIfStopped
  <2>1. seen[r] \in Seq(Event) /\ x.id \in Nat
    BY DEF QueueInv, EventTypeOK
  <2>2. k \in 1 .. Len(seen[r])
    BY <2>1
  <2>3. Past(x.id)
    BY <2>1, <2>2 DEF SeenIsPast
  <2> QED BY <2>3 DEF Past
<1> QED BY <1>1, <1>2, SeenNext, QueueInit, QueueNext, QueueAlways, PTL DEF Spec

-----------------------------------------------------------------------------
(* One thread whose receivers do not call back: a step is a turn           *)

Plain == ~(Reentrant \/ Concurrent)

\* The step is of t, and no other thread is in a call.
Alone(t) == \A u \in Threads \ {t} : Len(stack[u]) = 0 /\ Len(stack'[u]) = 0

\* t begins to fire or to defer a new event.
TurnNew(t) ==
    LET f == stack'[t][1] IN
    /\ Len(stack[t]) = 0 /\ Len(stack'[t]) = 1
    /\ f.op = "defer" \/ (f.op = "fire" /\ ~f.ev.deferred)
    /\ f.list = 0 /\ f.ev.id = events + 1 /\ events' = events + 1
    /\ UNCHANGED <<queues, fired, ended>>

\* t pops a group.
TurnFlush(t) ==
    LET f == stack'[t][1] IN
    /\ Len(stack[t]) = 0 /\ Len(stack'[t]) = 1
    /\ f.op = "flush" /\ f.at = 0
    /\ \E g \in Groups : f.list = groups[g] /\ groups' = [groups EXCEPT ![g] = 0]
    /\ UNCHANGED <<lists, events, fired, ended>>

\* t looks the list of a group up, ...
TurnFind(t) ==
    LET d == stack[t][1]
        f == stack'[t][1]
    IN  /\ Len(stack[t]) = 1 /\ Len(stack'[t]) = 1
        /\ d.op = "defer" /\ d.list = 0 /\ f.ev = d.ev /\ f.list = groups[d.ev.group]
        /\ f.op = (IF groups[d.ev.group] = 0 THEN "create" ELSE "defer")
        /\ UNCHANGED <<queues, events, fired, ended>>

\* ... creates it ...
TurnCreate(t) ==
    LET d == stack[t][1]
        f == stack'[t][1]
        l == Len(lists) + 1
    IN  /\ Len(stack[t]) = 1 /\ Len(stack'[t]) = 1
        /\ d.op = "create" /\ f.op = "defer" /\ f.ev = d.ev /\ f.list = l
        /\ Len(lists') = l /\ lists'[l] = <<>>
        /\ \A k \in 1 .. Len(lists) : lists'[k] = lists[k]
        /\ d.ev.group \in Groups /\ groups' = [groups EXCEPT ![d.ev.group] = l]
        /\ UNCHANGED <<events, fired, ended>>

\* ... and appends the event.
TurnAppend(t) ==
    LET d == stack[t][1]
        l == d.list
    IN  /\ Len(stack[t]) = 1 /\ Len(stack'[t]) = 0
        /\ d.op = "defer" /\ l \in 1 .. Len(lists)
        /\ Len(lists') = Len(lists)
        /\ \A k \in 1 .. Len(lists) : k # l => lists'[k] = lists[k]
        /\ Len(lists'[l]) = Len(lists[l]) + 1 /\ lists'[l][Len(lists[l]) + 1] = d.ev
        /\ \A p \in 1 .. Len(lists[l]) : lists'[l][p] = lists[l][p]
        /\ UNCHANGED <<groups, events, fired, ended>>

LEMMA AppendFacts ==
    ASSUME NEW t, TurnAppend(t), NEW d, d = stack[t][1]
    PROVE  /\ d.op = "defer" /\ d.list \in 1 .. Len(lists) /\ Len(lists') = Len(lists)
           /\ groups' = groups /\ events' = events /\ fired' = fired /\ ended' = ended
           /\ \A k \in 1 .. Len(lists) : k # d.list => lists'[k] = lists[k]
           /\ Len(lists'[d.list]) = Len(lists[d.list]) + 1
           /\ lists'[d.list][Len(lists[d.list]) + 1] = d.ev
           /\ \A p \in 1 .. Len(lists[d.list]) : lists'[d.list][p] = lists[d.list][p]
           /\ Len(stack[t]) = 1
<1>1. /\ stack[t][1].op = "defer" /\ stack[t][1].list \in 1 .. Len(lists)
      /\ Len(lists') = Len(lists) /\ Len(stack[t]) = 1
      /\ \A k \in 1 .. Len(lists) : k # stack[t][1].list => lists'[k] = lists[k]
      /\ Len(lists'[stack[t][1].list]) = Len(lists[stack[t][1].list]) + 1
      /\ lists'[stack[t][1].list][Len(lists[stack[t][1].list]) + 1] = stack[t][1].ev
      /\ \A p \in 1 .. Len(lists[stack[t][1].list]) :
            lists'[stack[t][1].list][p] = lists[stack[t][1].list][p]
  BY Zenon DEF TurnAppend
<1>2. groups' = groups /\ events' = events /\ fired' = fired /\ ended' = ended
  BY DEF TurnAppend
<1> QED BY <1>1, <1>2, Zenon

\* A flush comes to its next event, ...
TurnNext(t) ==
    LET d == stack[t][1]
        f == stack'[t][1]
        g == stack'[t][2]
    IN  /\ Len(stack[t]) = 1 /\ Len(stack'[t]) = 2
        /\ d.op = "flush" /\ f.op = "flush" /\ f.list = d.list /\ f.at = d.at + 1
        /\ f.raised = d.raised
        /\ d.list \in 1 .. Len(lists) /\ d.at + 1 \in 1 .. Len(lists[d.list])
        /\ g.op = "fire" /\ g.at = 0 /\ g.ev = lists[d.list][d.at + 1]
        /\ UNCHANGED <<queues, events, fired, ended>>

\* ... or is over.
TurnOver(t) ==
    LET d == stack[t][1] IN
    /\ Len(stack[t]) = 1 /\ Len(stack'[t]) = 0
    /\ d.op = "flush" /\ (d.list = 0 \/ d.at = Len(lists[d.list]))
    /\ ended' = ended \cup {[id |-> e, how |-> "errored"] : e \in d.raised}
    /\ UNCHANGED <<queues, events, fired>>

\* The call on top fires event e: a receiver is called, the event has an end, a
\* flush below keeps its error, or a receiver raises.
TurnFire(t) ==
    LET n == Len(stack[t])
        m == Len(stack'[t])
        d == stack[t][1]
        f == stack'[t][1]
        g == stack[t][n]
    IN  /\ n \in {1, 2} /\ g.op = "fire"
        /\ n = 2 => d.op = "flush"
        /\ (g.at = 0 /\ fired' = Append(fired, g.ev)) \/ (g.at # 0 /\ fired' = fired)
        /\ \/ /\ m = n /\ (n = 2 => f = d)
              /\ stack'[t][n].op = "fire" /\ stack'[t][n].ev = g.ev /\ stack'[t][n].at # 0
              /\ ended' = ended
           \/ /\ m = n - 1 /\ (n = 2 => f = d)
              /\ \E how \in {"delivered", "silenced", "errored"} :
                    ended' = ended \cup {[id |-> g.ev.id, how |-> how]}
           \/ /\ n = 2 /\ m = 1
              /\ f = [d EXCEPT !.raised = @ \cup {g.ev.id}] /\ ended' = ended
           \/ m = 0 /\ setup.broken # {}
        /\ UNCHANGED <<queues, events>>

Turn(t) ==
    \/ TurnNew(t) \/ TurnFlush(t) \/ TurnFind(t) \/ TurnCreate(t) \/ TurnAppend(t)
    \/ TurnNext(t) \/ TurnOver(t) \/ TurnFire(t)

LEMMA KeepsNone ==
    ASSUME EventTypeOK, NEW t \in Threads, NEW k, Keeps(t, k, <<>>)
    PROVE  /\ Len(stack'[t]) = k /\ k \in 0 .. Len(stack[t])
           /\ \A i \in 1 .. k : stack'[t][i] = stack[t][i]
<1> DEFINE s == <<>>
<1>1. Len(s) = 0 /\ Keeps(t, k, s)
  OBVIOUS
<1> HIDE DEF s
<1>2. k \in 0 .. Len(stack[t]) /\ Len(stack[t]) \in Nat /\ Len(stack'[t]) = k + Len(s)
      /\ \A i \in 1 .. k : stack'[t][i] = stack[t][i]
  BY <1>1, StackTypes DEF Keeps
<1> QED BY <1>1, <1>2

LEMMA KeepsOne ==
    ASSUME EventTypeOK, NEW t \in Threads, NEW k, NEW f, Keeps(t, k, <<f>>)
    PROVE  /\ Len(stack'[t]) = k + 1 /\ k \in 0 .. Len(stack[t]) /\ stack'[t][k + 1] = f
           /\ \A i \in 1 .. k : stack'[t][i] = stack[t][i]
<1> DEFINE s == <<f>>
<1>1. Len(s) = 1 /\ s[1] = f /\ Keeps(t, k, s)
  OBVIOUS
<1> HIDE DEF s
<1>2. 1 \in 1 .. Len(s)
  BY <1>1
<1> QED BY <1>1, <1>2 DEF Keeps

\* A call that is alone.
LEMMA KeepsOnly ==
    ASSUME EventTypeOK, NEW t \in Threads, NEW k, NEW f, Keeps(t, k, <<f>>), k = 0
    PROVE  Len(stack'[t]) = 1 /\ stack'[t][1] = f
<1>1. Len(stack'[t]) = k + 1 /\ stack'[t][k + 1] = f
  BY KeepsOne
<1>2. k + 1 = 1
  OBVIOUS
<1> QED BY <1>1, <1>2

LEMMA KeepsPair ==
    ASSUME EventTypeOK, NEW t \in Threads, NEW k, NEW f, NEW g, Keeps(t, k, <<f, g>>), k = 0
    PROVE  Len(stack'[t]) = 2 /\ stack'[t][1] = f /\ stack'[t][2] = g
<1> DEFINE s == <<f, g>>
<1>1. Len(s) = 2 /\ s[1] = f /\ s[2] = g /\ Keeps(t, k, s)
  OBVIOUS
<1> HIDE DEF s
<1>2. 1 \in 1 .. Len(s) /\ 2 \in 1 .. Len(s) /\ k + 1 = 1 /\ k + 2 = 2
  BY <1>1
<1>3. Len(stack'[t]) = k + 2 /\ stack'[t][k + 1] = s[1] /\ stack'[t][k + 2] = s[2]
  BY <1>1, <1>2 DEF Keeps
<1> QED BY <1>1, <1>2, <1>3

LEMMA TwoOrMore ==
    ASSUME NEW n \in Nat \ {0}, n # 1
    PROVE  1 \in 1 .. n /\ 1 < n
OBVIOUS

\* A call that is not the firing of an event is the only one.
LEMMA OnlyCall ==
    ASSUME EventTypeOK, StackShape, ~Reentrant, NEW t \in Threads,
           Len(stack[t]) \in Nat \ {0}, stack[t][Len(stack[t])].op # "fire"
    PROVE  Len(stack[t]) = 1
<1>1. SUFFICES ASSUME Len(stack[t]) # 1 PROVE FALSE
  OBVIOUS
<1>2. 1 \in 1 .. Len(stack[t]) /\ 1 < Len(stack[t])
  BY <1>1, TwoOrMore
<1> QED BY <1>2, Shallow

LEMMA AloneBy ==
    ASSUME EventTypeOK, StackShape, ~Concurrent, NEW t \in Threads, NEW k, NEW s, Keeps(t, k, s),
           t \in setup.threads \/ Len(stack[t]) \in Nat \ {0}
    PROVE  Alone(t)
<1>1. ASSUME NEW u \in Threads, Len(stack[u]) # 0 PROVE u \in setup.threads
  <2>1. 1 \in 1 .. Len(stack[u])
    BY <1>1, StackTypes
  <2> QED BY <2>1 DEF StackShape
<1>2. t \in setup.threads
  <2>1. CASE Len(stack[t]) \in Nat \ {0}
    <3>1. Len(stack[t]) # 0
      BY <2>1
    <3> QED BY <1>1, <3>1
  <2> QED BY <2>1
<1>3. ASSUME NEW u \in Threads \ {t} PROVE Len(stack[u]) = 0
  BY <1>1, <1>2 DEF Concurrent
<1> QED BY <1>3 DEF Alone, Keeps

LEMMA StepTurns ==
    ASSUME EventTypeOK, StackShape, IdsAreCounted, Plain, [Next]_vars
    PROVE  \/ UNCHANGED <<stack, queues, events, fired, ended>>
           \/ \E t \in Threads : Alone(t) /\ Turn(t)
<1> USE DEF config, queues, counts, history
<1>0. ~Reentrant /\ ~Concurrent /\ setup.calling = {}
  BY DEF Plain, Reentrant
<1>1. ASSUME Configure \/ UNCHANGED vars PROVE UNCHANGED <<stack, queues, events, fired, ended>>
  BY <1>1 DEF Configure, vars
<1>2. ASSUME NEW t \in Threads, Fire(t) \/ Defer(t) PROVE Alone(t) /\ TurnNew(t)
  <2>1. MayCall(t)
    BY <1>2 DEF Fire, Defer
  <2>2. Len(stack[t]) = 0 /\ t \in setup.threads
    BY <1>0, <2>1, MayCallFacts
  <2>3. PICK f \in Frame :
          /\ Keeps(t, Len(stack[t]), <<f>>)
          /\ f.op = "defer" \/ (f.op = "fire" /\ ~f.ev.deferred)
          /\ f.list = 0 /\ f.ev.id = events + 1 /\ events' = events + 1
          /\ UNCHANGED <<queues, fired, ended>>
    BY <1>2, FireFacts, DeferFacts
  <2>4. Alone(t)
    BY <1>0, <2>2, <2>3, AloneBy
  <2>5. Len(stack'[t]) = 1 /\ stack'[t][1] = f
    BY <2>2, <2>3, KeepsOnly
  <2> QED BY <2>2, <2>3, <2>4, <2>5 DEF TurnNew
<1>3. ASSUME NEW t \in Threads, Flush(t) PROVE Alone(t) /\ TurnFlush(t)
  <2>1. MayCall(t)
    BY <1>3 DEF Flush
  <2>2. Len(stack[t]) = 0 /\ t \in setup.threads
    BY <1>0, <2>1, MayCallFacts
  <2>3. PICK g \in Groups, f \in Frame :
          /\ Keeps(t, Len(stack[t]), <<f>>)
          /\ f.op = "flush" /\ f.at = 0 /\ f.list = groups[g]
          /\ groups' = [groups EXCEPT ![g] = 0]
          /\ UNCHANGED <<lists, events, fired, ended>>
    <3>1. PICK g \in Groups, f \in Frame : Pops(t, g, f)
      BY <1>3, FlushPops
    <3>2. UNCHANGED <<lists, events, fired, ended>>
      BY <1>3 DEF Flush
    <3> QED BY <3>1, <3>2 DEF Pops
  <2>4. Alone(t)
    BY <1>0, <2>2, <2>3, AloneBy
  <2>5. Len(stack'[t]) = 1 /\ stack'[t][1] = f
    BY <2>2, <2>3, KeepsOnly
  <2> QED BY <2>2, <2>3, <2>4, <2>5 DEF TurnFlush
<1>4. ASSUME NEW t \in Threads, FindList(t) PROVE Alone(t) /\ TurnFind(t)
  <2> DEFINE n == Len(stack[t])
             d == stack[t][n]
  <2>1. PICK f \in Frame :
          /\ n \in Nat \ {0} /\ d \in Frame /\ d.op = "defer" /\ d.list = 0
          /\ Keeps(t, n - 1, <<f>>)
          /\ f.ev = d.ev /\ f.list = groups[d.ev.group]
          /\ f.op = (IF groups[d.ev.group] = 0 THEN "create" ELSE "defer")
          /\ UNCHANGED <<queues, events, fired, ended>>
    BY <1>4, FindListFacts
  <2>2. n = 1
    BY <1>0, <2>1, OnlyCall
  <2>3. Alone(t)
    BY <1>0, <2>1, AloneBy
  <2>4. Len(stack'[t]) = 1 /\ stack'[t][1] = f
    <3>1. n - 1 = 0
      BY <2>2
    <3> QED BY <2>1, <3>1, KeepsOnly
  <2> QED BY <2>1, <2>2, <2>3, <2>4 DEF TurnFind
<1>5. ASSUME NEW t \in Threads, CreateList(t) PROVE Alone(t) /\ TurnCreate(t)
  <2> DEFINE n == Len(stack[t])
             d == stack[t][n]
             l == Len(lists) + 1
             f == [d EXCEPT !.op = "defer", !.list = l]
  <2>1. /\ n \in Nat \ {0} /\ d \in Frame /\ d.op = "create"
        /\ Keeps(t, n - 1, <<f>>)
        /\ Len(lists') = l /\ \A k \in 1 .. Len(lists) : lists'[k] = lists[k]
        /\ lists'[l] = <<>>
        /\ groups' = [groups EXCEPT ![d.ev.group] = l] /\ d.ev.group \in Groups
        /\ UNCHANGED <<events, fired, ended>>
    BY <1>5, CreateListFacts
  <2>2. f.op = "defer" /\ f.list = l /\ f.ev = d.ev
    <3> HIDE DEF d, l
    <3> QED BY <2>1 DEF Frame
  <2> HIDE DEF f
  <2>3. n = 1
    BY <1>0, <2>1, OnlyCall
  <2>4. Alone(t)
    BY <1>0, <2>1, AloneBy
  <2>5. Len(stack'[t]) = 1 /\ stack'[t][1] = f
    <3>1. n - 1 = 0
      BY <2>3
    <3> QED BY <2>1, <3>1, KeepsOnly
  <2> QED BY <2>1, <2>2, <2>3, <2>4, <2>5 DEF TurnCreate
<1>6. ASSUME NEW t \in Threads, AppendArgs(t) PROVE Alone(t) /\ TurnAppend(t)
  <2> DEFINE n == Len(stack[t])
             d == stack[t][n]
             l == d.list
  <2>1. /\ n \in Nat \ {0} /\ d \in Frame /\ d.op = "defer"
        /\ Keeps(t, n - 1, <<>>)
        /\ l \in 1 .. Len(lists) /\ Len(lists') = Len(lists)
        /\ \A k \in 1 .. Len(lists) : k # l => lists'[k] = lists[k]
        /\ Len(lists'[l]) = Len(lists[l]) + 1
        /\ \A p \in 1 .. Len(lists[l]) : lists'[l][p] = lists[l][p]
        /\ lists'[l][Len(lists[l]) + 1] = d.ev
        /\ UNCHANGED <<groups, events, fired, ended>>
    BY <1>6, AppendArgsFacts
  <2>2. n = 1
    BY <1>0, <2>1, OnlyCall
  <2>3. Alone(t)
    BY <1>0, <2>1, AloneBy
  <2>4. Len(stack'[t]) = 0
    BY <2>1, <2>2, KeepsNone
  <2> QED BY <2>1, <2>2, <2>3, <2>4 DEF TurnAppend
<1>7. ASSUME NEW t \in Threads, FlushNext(t) PROVE Alone(t) /\ TurnNext(t)
  <2> DEFINE n == Len(stack[t])
             d == stack[t][n]
             f == [d EXCEPT !.at = @ + 1]
             g == FireFrame(lists[d.list][d.at + 1])
  <2>1. /\ n \in Nat \ {0} /\ d \in Frame /\ d.op = "flush"
        /\ d.list \in 1 .. Len(lists) /\ d.at + 1 \in 1 .. Len(lists[d.list])
        /\ Keeps(t, n - 1, <<f, g>>)
        /\ UNCHANGED <<queues, events, fired, ended>>
    BY <1>7, FlushNextFacts
  <2>2. f.op = "flush" /\ f.list = d.list /\ f.at = d.at + 1 /\ f.raised = d.raised
    <3> HIDE DEF d
    <3> QED BY <2>1 DEF Frame
  <2>3. g.op = "fire" /\ g.at = 0 /\ g.ev = lists[d.list][d.at + 1]
    BY DEF FireFrame
  <2> HIDE DEF f, g
  <2>4. n = 1
    BY <1>0, <2>1, OnlyCall
  <2>5. Alone(t)
    BY <1>0, <2>1, AloneBy
  <2>6. Len(stack'[t]) = 2 /\ stack'[t][1] = f /\ stack'[t][2] = g
    <3>1. n - 1 = 0
      BY <2>4
    <3> QED BY <2>1, <3>1, KeepsPair
  <2> QED BY <2>1, <2>2, <2>3, <2>4, <2>5, <2>6 DEF TurnNext
<1>8. ASSUME NEW t \in Threads, FlushEnd(t) PROVE Alone(t) /\ TurnOver(t)
  <2> DEFINE n == Len(stack[t])
             d == stack[t][n]
  <2>1. /\ n \in Nat \ {0} /\ d \in Frame /\ d.op = "flush" /\ d.raised = {}
        /\ Remaining(d) = <<>> /\ Keeps(t, n - 1, <<>>)
        /\ UNCHANGED <<queues, events, fired, ended>>
    BY <1>8, FlushEndFacts
  <2>2. n = 1
    BY <1>0, <2>1, OnlyCall
  <2>3. Alone(t)
    BY <1>0, <2>1, AloneBy
  <2>4. Len(stack'[t]) = 0
    BY <2>1, <2>2, KeepsNone
  <2>5. d.list = 0 \/ d.at = Len(lists[d.list])
    <3>1. n \in 1 .. Len(stack[t])
      BY <2>1
    <3>2. FrameOK(d, lists)
      BY <3>1 DEF StackShape
    <3> HIDE DEF d
    <3> QED BY <2>1, <3>2, RemainingFacts
  <2>6. ended' = ended \cup {[id |-> e, how |-> "errored"] : e \in d.raised}
    BY <2>1
  <2> QED BY <2>1, <2>2, <2>3, <2>4, <2>5, <2>6 DEF TurnOver
<1>9. ASSUME NEW t \in Threads, FlushRaises(t) PROVE Alone(t) /\ TurnOver(t)
  <2> DEFINE n == Len(stack[t])
             d == stack[t][n]
  <2>1. /\ n \in Nat \ {0} /\ d \in Frame /\ d.op = "flush"
        /\ Unwinds(t, d.raised) \/ \E k \in 1 .. n - 1, f \in Frame : Caught(t, d.raised, k, f)
        /\ UNCHANGED <<queues, events, fired>>
    BY <1>9, FlushRaisesFacts
  <2>2. n = 1
    BY <1>0, <2>1, OnlyCall
  <2>3. Keeps(t, 0, <<>>)
        /\ ended' = ended \cup {[id |-> e, how |-> "errored"] : e \in d.raised}
    <3>1. 1 .. n - 1 = {}
      BY <2>2
    <3>2. Unwinds(t, d.raised)
      BY <2>1, <3>1
    <3>3. {stack[t][i].ev.id : i \in 1 .. n - 1} = {}
      BY <3>1
    <3>4. {[id |-> e, how |-> "dropped"] : e \in {stack[t][i].ev.id : i \in 1 .. n - 1}} = {}
      BY <3>3
    <3> QED BY <3>2, <3>4 DEF Unwinds
  <2>4. Alone(t) /\ Len(stack'[t]) = 0
    BY <1>0, <2>1, <2>3, AloneBy, KeepsNone
  <2>5. d.list = 0 \/ d.at = Len(lists[d.list])
    <3>1. n \in 1 .. Len(stack[t]) /\ stack[t] # <<>>
      BY <2>1
    <3>2. FrameOK(d, lists)
      BY <3>1 DEF StackShape
    <3>3. Remaining(d) = <<>>
      BY <1>9, <3>1, TopFacts DEF FlushRaises
    <3> HIDE DEF d
    <3> QED BY <2>1, <3>2, <3>3, RemainingFacts
  <2> QED BY <2>1, <2>2, <2>3, <2>4, <2>5 DEF TurnOver
<1>f. ASSUME NEW t \in Threads, Len(stack[t]) \in Nat \ {0}, stack[t][Len(stack[t])].op = "fire"
      PROVE  /\ Len(stack[t]) \in {1, 2}
             /\ Len(stack[t]) = 2 =>
                  /\ stack[t][1].op = "flush"
                  /\ stack[t][2].ev = lists[stack[t][1].list][stack[t][1].at]
  <2>1. CASE Len(stack[t]) # 1
    <3>1. 1 \in 1 .. Len(stack[t]) /\ 1 < Len(stack[t])
      BY <1>f, <2>1, TwoOrMore
    <3> QED BY <1>0, <3>1, Shallow
  <2> QED BY <2>1
<1>10. ASSUME NEW t \in Threads, FireRaises(t) PROVE Alone(t) /\ TurnFire(t)
  <2> DEFINE n == Len(stack[t])
             g == stack[t][n]
             named == {g.ev.id}
  <2>1. /\ n \in Nat \ {0} /\ g \in Frame /\ g.op = "fire" /\ g.at = 0
        /\ Unwinds(t, named) \/ \E k \in 1 .. n - 1, f \in Frame : Caught(t, named, k, f)
        /\ fired' = Append(fired, g.ev)
        /\ UNCHANGED <<queues, events>>
    BY <1>10, FireRaisesFacts
  <2>2. n \in {1, 2} /\ (n = 2 => stack[t][1].op = "flush")
    BY <1>f, <2>1
  <2>3. ASSUME Unwinds(t, named)
        PROVE  Alone(t) /\ n = 1 /\ Len(stack'[t]) = 0
               /\ ended' = ended \cup {[id |-> g.ev.id, how |-> "errored"]}
    <3>1. n = 1
      BY <2>2, <2>3 DEF Unwinds
    <3>2. 1 .. n - 1 = {}
      BY <3>1
    <3>3. {stack[t][i].ev.id : i \in 1 .. n - 1} = {}
      BY <3>2
    <3>4. {[id |-> e, how |-> "dropped"] : e \in {stack[t][i].ev.id : i \in 1 .. n - 1}} = {}
      BY <3>3
    <3>5. Keeps(t, 0, <<>>) /\ ended' = ended \cup {[id |-> e, how |-> "errored"] : e \in named}
      BY <2>3, <3>4 DEF Unwinds
    <3> QED BY <1>0, <2>1, <3>1, <3>5, AloneBy, KeepsNone
  <2>4. ASSUME NEW k \in 1 .. n - 1, NEW f \in Frame, Caught(t, named, k, f)
        PROVE  /\ Alone(t) /\ n = 2 /\ Len(stack'[t]) = 1
               /\ stack'[t][1] = [stack[t][1] EXCEPT !.raised = @ \cup {g.ev.id}]
               /\ ended' = ended
    <3>1. n = 2 /\ k = 1 /\ k + 1 = n /\ k - 1 = 0 /\ (k + 1) .. (n - 1) = {}
      <4>1. n # 1
        <5>1. SUFFICES ASSUME n = 1 PROVE FALSE
          OBVIOUS
        <5>2. 1 .. n - 1 = {}
          BY <5>1
        <5> QED BY <5>2
      <4>2. n = 2
        BY <2>2, <4>1
      <4> QED BY <4>2
    <3>2. /\ f = [stack[t][k] EXCEPT !.raised = @ \cup {stack[t][k + 1].ev.id}]
          /\ Keeps(t, k - 1, <<f>>)
          /\ EndAll((named \cup {stack[t][i].ev.id : i \in k + 1 .. n - 1}) \ {stack[t][k + 1].ev.id},
                    "dropped")
      BY <2>4 DEF Caught
    <3>3. Len(stack'[t]) = 1 /\ stack'[t][1] = f /\ Alone(t)
      <4>1. Keeps(t, k - 1, <<f>>) /\ k - 1 = 0
        BY <3>1, <3>2
      <4>2. Alone(t)
        BY <1>0, <2>1, <4>1, AloneBy
      <4> QED BY <4>1, <4>2, KeepsOnly
    <3>4. (named \cup {stack[t][i].ev.id : i \in k + 1 .. n - 1}) \ {stack[t][k + 1].ev.id} = {}
      <4>1. {stack[t][i].ev.id : i \in k + 1 .. n - 1} = {}
        BY <3>1
      <4> QED BY <3>1, <4>1
    <3>5. ended' = ended
      BY <3>2, <3>4 DEF EndAll
    <3> QED BY <3>1, <3>2, <3>3, <3>5
  <2>5. CASE Unwinds(t, named)
    <3>1. Alone(t) /\ n = 1 /\ Len(stack'[t]) = n - 1
      BY <2>3, <2>5
    <3>2. \E how \in {"delivered", "silenced", "errored"} :
             ended' = ended \cup {[id |-> g.ev.id, how |-> how]}
      BY <2>3, <2>5
    <3> QED BY <2>1, <3>1, <3>2 DEF TurnFire
  <2>6. CASE \E k \in 1 .. n - 1, f \in Frame : Caught(t, named, k, f)
    <3>1. /\ Alone(t) /\ n = 2 /\ Len(stack'[t]) = 1
          /\ stack'[t][1] = [stack[t][1] EXCEPT !.raised = @ \cup {g.ev.id}]
          /\ ended' = ended
      BY <2>4, <2>6
    <3> QED BY <2>1, <2>2, <3>1 DEF TurnFire
  <2> QED BY <2>1, <2>5, <2>6
<1>11. ASSUME NEW t \in Threads, FireSilenced(t) \/ FireEnd(t) PROVE Alone(t) /\ TurnFire(t)
  <2> DEFINE n == Len(stack[t])
             g == stack[t][n]
  <2>1. /\ n \in Nat \ {0} /\ g \in Frame /\ g.op = "fire"
        /\ Keeps(t, n - 1, <<>>)
        /\ \/ g.at = 0 /\ fired' = Append(fired, g.ev) /\ EndAll({g.ev.id}, "silenced")
           \/ g.at # 0 /\ fired' = fired /\ EndAll({g.ev.id}, "delivered")
        /\ UNCHANGED <<queues, events>>
    <3>1. /\ n \in Nat \ {0} /\ g \in Frame /\ g.op = "fire"
          /\ Keeps(t, n - 1, <<>>)
          /\ \/ g.at = 0 /\ fired' = Append(fired, g.ev) /\ EndAll({g.ev.id}, "silenced")
             \/ g.at > 0 /\ fired' = fired /\ EndAll({g.ev.id}, "delivered")
          /\ UNCHANGED <<config, queues, counts, seen>>
      BY <1>11, FireOverFacts
    <3>2. g.at > 0 => g.at # 0
      OBVIOUS
    <3> HIDE DEF g, n
    <3> QED BY <3>1, <3>2
  <2>2. n \in {1, 2} /\ (n = 2 => stack[t][1].op = "flush")
    BY <1>f, <2>1
  <2>3. Alone(t) /\ Len(stack'[t]) = n - 1 /\ (n = 2 => stack'[t][1] = stack[t][1])
    BY <1>0, <2>1, <2>2, AloneBy, KeepsNone
  <2>4. \E how \in {"delivered", "silenced", "errored"} :
           ended' = ended \cup {[id |-> g.ev.id, how |-> how]}
    <3>1. EndAll({g.ev.id}, "silenced") \/ EndAll({g.ev.id}, "delivered")
      BY <2>1
    <3>2. ASSUME NEW how, EndAll({g.ev.id}, how)
          PROVE  ended' = ended \cup {[id |-> g.ev.id, how |-> how]}
      BY <3>2 DEF EndAll
    <3> QED BY <3>1, <3>2
  <2>5. (g.at = 0 /\ fired' = Append(fired, g.ev)) \/ (g.at # 0 /\ fired' = fired)
    BY <2>1
  <2> QED BY <2>1, <2>2, <2>3, <2>4, <2>5 DEF TurnFire
<1>12. ASSUME NEW t \in Threads, FireFirst(t) \/ FireNext(t) PROVE Alone(t) /\ TurnFire(t)
  <2> DEFINE n == Len(stack[t])
             g == stack[t][n]
  <2>1. PICK r \in 1 .. Len(Receivers) :
          /\ n \in Nat \ {0} /\ g \in Frame /\ g.op = "fire"
          /\ Keeps(t, n - 1, <<[g EXCEPT !.at = r]>>)
          /\ (g.at = 0 /\ fired' = Append(fired, g.ev)) \/ (g.at # 0 /\ fired' = fired)
          /\ UNCHANGED <<queues, events, ended>>
    <3>1. PICK r \in 1 .. Len(Receivers) :
            /\ n \in Nat \ {0} /\ g \in Frame /\ g.op = "fire" /\ r = g.at + 1
            /\ [g EXCEPT !.at = r] \in Frame
            /\ Keeps(t, n - 1, <<[g EXCEPT !.at = r]>>)
            /\ seen' = [seen EXCEPT ![Receivers[r]] = Append(seen[Receivers[r]], g.ev)]
            /\ \/ g.at = 0 /\ fired' = Append(fired, g.ev)
               \/ g.at > 0 /\ fired' = fired
            /\ UNCHANGED <<config, queues, counts, ended>>
      BY <1>12, GiveFacts
    <3>2. g.at > 0 => g.at # 0
      OBVIOUS
    <3> HIDE DEF g, n
    <3> QED BY <3>1, <3>2
  <2> DEFINE f == [g EXCEPT !.at = r]
  <2>2. f.op = "fire" /\ f.at # 0 /\ f.ev = g.ev
    <3> HIDE DEF g
    <3>1. r # 0
      OBVIOUS
    <3> QED BY <2>1, <3>1 DEF Frame
  <2>3. Keeps(t, n - 1, <<f>>)
    BY <2>1
  <2> HIDE DEF f
  <2>4. n \in {1, 2} /\ (n = 2 => stack[t][1].op = "flush")
    BY <1>f, <2>1
  <2>5. Alone(t) /\ Len(stack'[t]) = n /\ stack'[t][n] = f /\ (n = 2 => stack'[t][1] = stack[t][1])
    BY <1>0, <2>1, <2>3, <2>4, AloneBy, KeepsOne
  <2> QED BY <2>1, <2>2, <2>4, <2>5 DEF TurnFire
<1>13. ASSUME NEW t \in Threads, ReceiverRaises(t) PROVE Alone(t) /\ TurnFire(t)
  <2> DEFINE n == Len(stack[t])
             g == stack[t][n]
  <2>1. /\ n \in Nat \ {0} /\ setup.broken # {} /\ Keeps(t, 0, <<>>)
        /\ UNCHANGED <<queues, events, fired>>
    BY <1>13, ReceiverRaisesFacts
  <2>2. g.op = "fire" /\ g.at # 0
    <3>1. stack[t] # <<>>
      BY <1>13 DEF ReceiverRaises, In
    <3> QED BY <1>13, <3>1, TopFacts DEF ReceiverRaises, In
  <2>3. n \in {1, 2} /\ (n = 2 => stack[t][1].op = "flush")
    BY <1>f, <2>1, <2>2
  <2>4. Alone(t) /\ Len(stack'[t]) = 0
    BY <1>0, <2>1, AloneBy, KeepsNone
  <2> QED BY <2>1, <2>2, <2>3, <2>4 DEF TurnFire
<1> QED BY <1>1, <1>2, <1>3, <1>4, <1>5, <1>6, <1>7, <1>8, <1>9, <1>10, <1>11, <1>12, <1>13
        DEF Next, Turn

-----------------------------------------------------------------------------
(* The order of deferred events                                            *)

\* A list is in the order of the events, and a group's list has its events.
ListsAreSorted ==
    /\ \A l \in 1 .. Len(lists) : \A p, q \in 1 .. Len(lists[l]) :
          p < q => lists[l][p].id < lists[l][q].id
    /\ \A g \in Groups : groups[g] # 0 =>
          \A p \in 1 .. Len(lists[groups[g]]) : lists[groups[g]][p].group = g

\* The event being deferred is the newest one and goes to the list of its group;
\* an event that is fired under no flush was not deferred; the groups of what
\* is being flushed have no list.
NewestIsDeferred ==
    \A t \in Threads : Len(stack[t]) # 0 =>
        /\ stack[t][1].op \in {"defer", "create"} =>
              /\ stack[t][1].ev.id = events
              /\ \A k \in 1 .. Len(fired) : fired[k].id < events
        /\ stack[t][1].op = "create" => groups[stack[t][1].ev.group] = 0
        /\ stack[t][1].op = "defer" /\ stack[t][1].list # 0 =>
              groups[stack[t][1].ev.group] = stack[t][1].list
        /\ stack[t][1].op = "fire" => ~stack[t][1].ev.deferred
        /\ stack[t][1].op = "flush" /\ stack[t][1].list # 0 =>
              \A p \in 1 .. Len(lists[stack[t][1].list]) :
                  groups[lists[stack[t][1].list][p].group] = 0

\* Event e comes after what was fired of its group.
ComesNext(e, done) ==
    \A k \in 1 .. Len(done) : done[k].deferred /\ done[k].group = e.group => done[k].id < e.id

\* What waits in a group or in a flush comes after what was fired.
WaitingComesNext ==
    /\ \A g \in Groups : groups[g] # 0 =>
          \A p \in 1 .. Len(lists[groups[g]]) : ComesNext(lists[groups[g]][p], fired)
    /\ \A t \in Threads :
          Len(stack[t]) # 0 /\ stack[t][1].op = "flush" /\ stack[t][1].list # 0 =>
              \A p \in 1 .. Len(lists[stack[t][1].list]) :
                  \/ p > stack[t][1].at
                  \/ p = stack[t][1].at /\ Len(stack[t]) = 2 /\ stack[t][2].at = 0
                  => ComesNext(lists[stack[t][1].list][p], fired)

FiredInOrder == \A j \in 1 .. Len(fired) : fired[j].deferred =>
    \A i \in 1 .. j - 1 : fired[i].deferred /\ fired[i].group = fired[j].group
                              => fired[i].id < fired[j].id

OrderInv == Plain => ListsAreSorted /\ NewestIsDeferred /\ WaitingComesNext /\ FiredInOrder

\* Only the thread whose turn it is is in a call.
LEMMA OnlyTurn ==
    ASSUME NEW t, Alone(t), NEW u \in Threads, Len(stack'[u]) # 0
    PROVE  u = t
BY DEF Alone

\* The lists and groups, but for the three turns that change them.
LEMMA TurnQueues ==
    ASSUME NEW t, Turn(t)
    PROVE  UNCHANGED queues \/ TurnFlush(t) \/ TurnCreate(t) \/ TurnAppend(t)
BY DEF Turn, TurnNew, TurnFind, TurnNext, TurnOver, TurnFire

LEMMA GroupTypes ==
    ASSUME EventTypeOK
    PROVE  \A g \in Groups : groups[g] \in 0 .. Len(lists)
BY DEF EventTypeOK

LEMMA ListsAreSortedNext ==
    ASSUME EventTypeOK, EventTypeOK', StackShape, IdsAreCounted, ListsAreOwned, PlacesAreDistinct,
           NewestIsDeferred, ListsAreSorted, NEW t \in Threads, Turn(t)
    PROVE  ListsAreSorted'
<1> USE DEF queues
<1>0. Len(lists) \in Nat /\ \A l \in 1 .. Len(lists) : Len(lists[l]) \in Nat
  BY ListTypes
<1>1. CASE UNCHANGED queues
  BY <1>1 DEF ListsAreSorted
<1>2. CASE TurnFlush(t)
  <2>1. lists' = lists /\ \E h \in Groups : groups' = [groups EXCEPT ![h] = 0]
    BY <1>2 DEF TurnFlush
  <2>2. \A g \in Groups : groups'[g] = groups[g] \/ groups'[g] = 0
    BY <2>1 DEF EventTypeOK
  <2> QED BY <2>1, <2>2 DEF ListsAreSorted
<1>3. CASE TurnCreate(t)
  <2> DEFINE n == Len(lists) + 1
  <2>1. /\ Len(lists') = n /\ lists'[n] = <<>> /\ Len(lists'[n]) = 0
        /\ \A k \in 1 .. Len(lists) : lists'[k] = lists[k]
        /\ \E h \in Groups : groups' = [groups EXCEPT ![h] = n]
    BY <1>3 DEF TurnCreate
  <2>2. \A l \in 1 .. Len(lists') : l \in 1 .. Len(lists) \/ l = n
    BY <1>0, <2>1
  <2>3. \A g \in Groups : (groups'[g] = groups[g] /\ groups[g] \in 0 .. Len(lists)) \/ groups'[g] = n
    BY <2>1, GroupTypes DEF EventTypeOK
  <2> HIDE DEF n
  <2>4. ASSUME NEW l \in 1 .. Len(lists'), NEW p \in 1 .. Len(lists'[l]), NEW q \in 1 .. Len(lists'[l]),
               p < q
        PROVE  lists'[l][p].id < lists'[l][q].id
    <3>1. l # n
      BY <2>1
    <3> QED BY <2>1, <2>2, <2>4, <3>1 DEF ListsAreSorted
  <2>5. ASSUME NEW g \in Groups, groups'[g] # 0, NEW p \in 1 .. Len(lists'[groups'[g]])
        PROVE  lists'[groups'[g]][p].group = g
    <3>1. groups'[g] # n
      BY <2>1
    <3>2. groups'[g] = groups[g] /\ groups[g] \in 1 .. Len(lists)
      BY <1>0, <2>3, <2>5, <3>1
    <3> QED BY <2>1, <2>5, <3>2 DEF ListsAreSorted
  <2> QED BY <2>4, <2>5 DEF ListsAreSorted
<1>4. CASE TurnAppend(t)
  <2> DEFINE d == stack[t][1]
             m == d.list
             n == Len(lists[m])
  <2>1. /\ d.op = "defer" /\ m \in 1 .. Len(lists) /\ Len(lists') = Len(lists) /\ groups' = groups
        /\ \A k \in 1 .. Len(lists) : k # m => lists'[k] = lists[k]
        /\ Len(lists'[m]) = n + 1 /\ lists'[m][n + 1] = d.ev
        /\ \A p \in 1 .. n : lists'[m][p] = lists[m][p]
        /\ 1 \in 1 .. Len(stack[t]) /\ Len(stack[t]) # 0
    <3>1. /\ d.op = "defer" /\ d.list \in 1 .. Len(lists) /\ Len(lists') = Len(lists)
          /\ groups' = groups
          /\ \A k \in 1 .. Len(lists) : k # d.list => lists'[k] = lists[k]
          /\ Len(lists'[d.list]) = Len(lists[d.list]) + 1
          /\ lists'[d.list][Len(lists[d.list]) + 1] = d.ev
          /\ \A p \in 1 .. Len(lists[d.list]) : lists'[d.list][p] = lists[d.list][p]
          /\ Len(stack[t]) = 1
      BY <1>4, AppendFacts, Zenon
    <3>2. 1 \in 1 .. Len(stack[t]) /\ Len(stack[t]) # 0
      BY <3>1
    <3> QED BY <3>1, <3>2, Zenon
  <2>2. d.ev.id = events /\ groups[d.ev.group] = m /\ m # 0 /\ n \in Nat /\ events \in Nat
        /\ d.ev.group \in Groups
    <3>1. d \in Frame
      BY <2>1, StackTypes
    <3>2. d.ev.group \in Groups
      BY <3>1 DEF Frame, Event
    <3>3. m # 0 /\ n \in Nat /\ events \in Nat
      <4>1. m \in 1 .. Len(lists) /\ Len(lists) \in Nat /\ events \in Nat
        BY <1>0, <2>1, ListTypes DEF EventTypeOK
      <4> HIDE DEF d, m, n
      <4>2. Len(lists[m]) \in Nat
        BY <1>0, <4>1, ListTypes
      <4> QED BY <4>1, <4>2 DEF n
    <3>4. d.op \in {"defer", "create"}
      BY <2>1
    <3>5. d.ev.id = events /\ groups[d.ev.group] = m
      BY <2>1, <3>3, <3>4 DEF NewestIsDeferred
    <3> QED BY <3>2, <3>3, <3>5
  <2>3. ASSUME NEW p \in 1 .. n PROVE lists[m][p].id < events
    <3>1. lists[m][p].id \in 1 .. events
      BY <2>1 DEF IdsAreCounted
    <3>2. lists[m][p].id # d.ev.id
      <4>1. SUFFICES ASSUME lists[m][p].id = d.ev.id PROVE FALSE
        OBVIOUS
      <4>2. CallOf(t, 1, d.ev.id) /\ Lies(m, p, d.ev.id) /\ stack[t][1].op # "fire"
        BY <2>1, <4>1 DEF CallOf, Lies
      <4> QED BY <4>2, CallPlace
    <3> QED BY <2>2, <3>1, <3>2
  <2> HIDE DEF n, m, d
  <2>4. \A p \in 1 .. n + 1 : p \in 1 .. n \/ p = n + 1
    BY <2>2
  <2>5. ASSUME NEW l \in 1 .. Len(lists'), NEW p \in 1 .. Len(lists'[l]), NEW q \in 1 .. Len(lists'[l]),
               p < q
        PROVE  lists'[l][p].id < lists'[l][q].id
    <3>1. CASE l # m
      BY <2>1, <2>5, <3>1 DEF ListsAreSorted
    <3>2. CASE l = m
      <4>1. p \in 1 .. n /\ (q \in 1 .. n \/ q = n + 1)
        BY <2>1, <2>2, <2>5, <3>2
      <4>2. CASE q \in 1 .. n
        <5>1. lists[m][p].id < lists[m][q].id
          BY <2>1, <2>5, <4>1, <4>2 DEF ListsAreSorted, n
        <5> QED BY <2>1, <3>2, <4>1, <4>2, <5>1
      <4>3. CASE q = n + 1
        BY <2>1, <2>2, <2>3, <3>2, <4>1, <4>3
      <4> QED BY <4>1, <4>2, <4>3
    <3> QED BY <3>1, <3>2
  <2>6. ASSUME NEW g \in Groups, groups'[g] # 0, NEW p \in 1 .. Len(lists'[groups'[g]])
        PROVE  lists'[groups'[g]][p].group = g
    <3>1. groups[g] \in 1 .. Len(lists) /\ groups'[g] = groups[g]
      BY <1>0, <2>1, <2>6, GroupTypes
    <3>2. CASE groups[g] # m
      <4>1. lists'[groups[g]] = lists[groups[g]]
        BY <2>1, <3>1, <3>2
      <4> QED BY <2>6, <3>1, <4>1 DEF ListsAreSorted
    <3>3. CASE groups[g] = m
      <4>1. g = d.ev.group
        BY <2>2, <3>3 DEF ListsAreOwned
      <4>2. p \in 1 .. n \/ p = n + 1
        BY <2>1, <2>2, <2>6, <3>1, <3>3
      <4>3. CASE p \in 1 .. n
        <5>1. lists[m][p].group = g
          BY <3>1, <3>3, <4>3 DEF ListsAreSorted, n
        <5> QED BY <2>1, <3>1, <3>3, <4>3, <5>1
      <4> QED BY <2>1, <3>1, <3>3, <4>1, <4>2, <4>3
    <3> QED BY <3>2, <3>3
  <2> QED BY <2>5, <2>6 DEF ListsAreSorted
<1> QED BY <1>1, <1>2, <1>3, <1>4, TurnQueues

\* What a turn does to the events that were fired.
LEMMA TurnFired ==
    ASSUME EventTypeOK, NEW t \in Threads, Turn(t)
    PROVE  \/ fired' = fired
           \/ /\ TurnFire(t) /\ Len(stack[t]) \in 1 .. Len(stack[t])
              /\ stack[t][Len(stack[t])].op = "fire" /\ stack[t][Len(stack[t])].at = 0
              /\ Len(fired) \in Nat /\ Len(fired') = Len(fired) + 1
              /\ \A k \in 1 .. Len(fired) : fired'[k] = fired[k]
              /\ fired'[Len(fired) + 1] = stack[t][Len(stack[t])].ev
<1> DEFINE n == Len(stack[t])
           x == stack[t][n].ev
<1>1. SUFFICES ASSUME fired' # fired
               PROVE  /\ TurnFire(t) /\ n \in 1 .. Len(stack[t])
                      /\ stack[t][n].op = "fire" /\ stack[t][n].at = 0
                      /\ Len(fired) \in Nat /\ Len(fired') = Len(fired) + 1
                      /\ \A k \in 1 .. Len(fired) : fired'[k] = fired[k]
                      /\ fired'[Len(fired) + 1] = x
  OBVIOUS
<1>2. TurnFire(t)
  BY <1>1 DEF Turn, TurnNew, TurnFlush, TurnFind, TurnCreate, TurnAppend, TurnNext, TurnOver
<1>3. n \in {1, 2} /\ stack[t][n].op = "fire" /\ stack[t][n].at = 0 /\ fired' = Append(fired, x)
  BY <1>1, <1>2 DEF TurnFire
<1>4. n \in 1 .. Len(stack[t])
  <2>1. CASE n = 1
    BY <2>1
  <2>2. CASE n = 2
    BY <2>2
  <2> QED BY <1>3, <2>1, <2>2
<1>5. fired \in Seq(Event) /\ x \in Event
  BY <1>4, StackTypes DEF EventTypeOK, Frame
<1> HIDE DEF x
<1>6. /\ Len(fired) \in Nat /\ Len(Append(fired, x)) = Len(fired) + 1
      /\ \A k \in 1 .. Len(fired) : Append(fired, x)[k] = fired[k]
      /\ Append(fired, x)[Len(fired) + 1] = x
  BY <1>5, AppendProperties
<1> QED BY <1>2, <1>3, <1>4, <1>6

LEMMA NewestIsDeferredNext ==
    ASSUME EventTypeOK, EventTypeOK', StackShape, IdsAreCounted, ListsAreOwned,
           NewestIsDeferred, ListsAreSorted, NEW t \in Threads, Alone(t), Turn(t)
    PROVE  NewestIsDeferred'
<1> USE DEF queues
<1> DEFINE d == stack[t][1]
           f == stack'[t][1]
<1>0. events \in Nat
  BY DEF EventTypeOK
<1>t. Len(stack[t]) # 0 => d \in Frame
  <2>1. Len(stack[t]) # 0 => 1 \in 1 .. Len(stack[t])
    BY StackTypes
  <2> QED BY <2>1, StackTypes
<1> SUFFICES ASSUME Len(stack'[t]) # 0
             PROVE  /\ f.op \in {"defer", "create"} =>
                          /\ f.ev.id = events'
                          /\ \A k \in 1 .. Len(fired') : fired'[k].id < events'
                    /\ f.op = "create" => groups'[f.ev.group] = 0
                    /\ f.op = "defer" /\ f.list # 0 => groups'[f.ev.group] = f.list
                    /\ f.op = "fire" => ~f.ev.deferred
                    /\ f.op = "flush" /\ f.list # 0 =>
                          \A p \in 1 .. Len(lists'[f.list]) : groups'[lists'[f.list][p].group] = 0
  BY OnlyTurn DEF NewestIsDeferred
<1>1. CASE TurnNew(t)
  <2>1. \A k \in 1 .. Len(fired) : fired[k].id < events + 1
    <3>1. ASSUME NEW k \in 1 .. Len(fired) PROVE fired[k].id \in Nat /\ fired[k].id <= events
      <4>1. fired[k] \in Event
        BY DEF EventTypeOK
      <4> QED BY <4>1 DEF IdsAreCounted, Event
    <3> QED BY <1>0, <3>1
  <2> QED BY <1>1, <2>1 DEF TurnNew
<1>2. CASE TurnFlush(t)
  <2>1. /\ f.op = "flush" /\ lists' = lists
        /\ \E g \in Groups : f.list = groups[g] /\ groups' = [groups EXCEPT ![g] = 0]
    BY <1>2 DEF TurnFlush
  <2>2. ASSUME f.list # 0, NEW p \in 1 .. Len(lists'[f.list])
        PROVE  groups'[lists'[f.list][p].group] = 0
    <3>1. PICK g \in Groups : f.list = groups[g] /\ groups' = [groups EXCEPT ![g] = 0]
      BY <2>1
    <3>2. lists[f.list][p].group = g
      BY <2>1, <2>2, <3>1 DEF ListsAreSorted
    <3>3. groups'[g] = 0
      BY <3>1 DEF EventTypeOK
    <3> QED BY <2>1, <3>2, <3>3
  <2> QED BY <2>1, <2>2
<1>3. CASE TurnFind(t)
  <2>1. /\ d.op = "defer" /\ f.ev = d.ev /\ f.list = groups[d.ev.group] /\ Len(stack[t]) # 0
        /\ f.op = (IF groups[d.ev.group] = 0 THEN "create" ELSE "defer")
        /\ groups' = groups /\ events' = events /\ fired' = fired
    BY <1>3 DEF TurnFind
  <2>2. d.ev.id = events /\ \A k \in 1 .. Len(fired) : fired[k].id < events
    BY <2>1 DEF NewestIsDeferred
  <2> QED BY <2>1, <2>2
<1>4. CASE TurnCreate(t)
  <2>1. /\ d.op = "create" /\ f.op = "defer" /\ f.ev = d.ev /\ f.list = Len(lists) + 1
        /\ d.ev.group \in Groups /\ groups' = [groups EXCEPT ![d.ev.group] = Len(lists) + 1]
        /\ events' = events /\ fired' = fired /\ Len(stack[t]) # 0
    BY <1>4 DEF TurnCreate
  <2>2. d.ev.id = events /\ \A k \in 1 .. Len(fired) : fired[k].id < events
    BY <2>1 DEF NewestIsDeferred
  <2>3. groups'[d.ev.group] = Len(lists) + 1
    BY <2>1 DEF EventTypeOK
  <2> QED BY <2>1, <2>2, <2>3
<1>5. CASE TurnAppend(t) \/ TurnOver(t)
  BY <1>5 DEF TurnAppend, TurnOver
<1>6. CASE TurnNext(t)
  <2>1. /\ d.op = "flush" /\ f.op = "flush" /\ f.list = d.list /\ Len(stack[t]) # 0
        /\ lists' = lists /\ groups' = groups
    BY <1>6 DEF TurnNext
  <2> QED BY <2>1 DEF NewestIsDeferred
<1>7. CASE TurnFire(t)
  <2>1. /\ Len(stack[t]) \in {1, 2} /\ Len(stack[t]) # 0 /\ lists' = lists /\ groups' = groups
        /\ stack[t][Len(stack[t])].op = "fire"
    BY <1>7 DEF TurnFire
  <2>2. CASE Len(stack[t]) = 1
    <3>1. f.op = "fire" /\ f.ev = d.ev /\ d.op = "fire"
      BY <1>7, <2>2 DEF TurnFire
    <3> QED BY <2>1, <3>1 DEF NewestIsDeferred
  <2>3. CASE Len(stack[t]) = 2
    <3>1. d.op = "flush" /\ f.op = "flush" /\ f.list = d.list
      <4>1. d.op = "flush"
        BY <1>7, <2>3 DEF TurnFire
      <4>2. CASE f = d
        BY <4>1, <4>2
      <4>3. ASSUME NEW e, f = [d EXCEPT !.raised = @ \cup {e}] PROVE f.op = d.op /\ f.list = d.list
        <5> HIDE DEF d, f
        <5> QED BY <1>t, <2>1, <4>3 DEF Frame
      <4>4. f = d \/ \E e : f = [d EXCEPT !.raised = @ \cup {e}]
        BY <1>7, <2>3 DEF TurnFire
      <4> QED BY <4>1, <4>2, <4>3, <4>4
    <3> QED BY <2>1, <3>1 DEF NewestIsDeferred
  <2> QED BY <2>1, <2>2, <2>3
<1> QED BY <1>1, <1>2, <1>3, <1>4, <1>5, <1>6, <1>7 DEF Turn

\* The event that is being fired comes next, if it was deferred.
LEMMA FiringComesNext ==
    ASSUME EventTypeOK, StackShape, ~Reentrant, NewestIsDeferred, WaitingComesNext,
           NEW t \in Threads, NEW n, n = Len(stack[t]), n \in 1 .. Len(stack[t]),
           stack[t][n].op = "fire", stack[t][n].at = 0, stack[t][n].ev.deferred
    PROVE  /\ n = 2 /\ stack[t][1].op = "flush"
           /\ stack[t][1].list \in 1 .. Len(lists)
           /\ stack[t][1].at \in 1 .. Len(lists[stack[t][1].list])
           /\ stack[t][n].ev = lists[stack[t][1].list][stack[t][1].at]
           /\ ComesNext(stack[t][n].ev, fired)
<1>0. Len(stack[t]) \in Nat \ {0} /\ Len(stack[t]) # 0
  <2>1. Len(stack[t]) \in Nat
    BY StackTypes
  <2> QED BY <2>1
<1>1. n # 1
  BY <1>0 DEF NewestIsDeferred
<1>2. 1 \in 1 .. Len(stack[t]) /\ 1 < Len(stack[t])
  BY <1>0, <1>1, TwoOrMore
<1>3. /\ n = 2 /\ stack[t][1].op = "flush"
      /\ stack[t][1].list \in 1 .. Len(lists)
      /\ stack[t][1].at \in 1 .. Len(lists[stack[t][1].list])
      /\ stack[t][2].ev = lists[stack[t][1].list][stack[t][1].at]
  BY <1>2, Shallow
<1> DEFINE d == stack[t][1]
<1>4. d.list # 0 /\ d.op = "flush" /\ d.at \in 1 .. Len(lists[d.list])
      /\ Len(stack[t]) = 2 /\ stack[t][2].at = 0
  BY <1>3
<1>5. ComesNext(lists[d.list][d.at], fired)
  BY <1>4 DEF WaitingComesNext
<1> QED BY <1>3, <1>5

LEMMA FiredInOrderNext ==
    ASSUME EventTypeOK, StackShape, ~Reentrant, NewestIsDeferred, WaitingComesNext, FiredInOrder,
           NEW t \in Threads, Turn(t)
    PROVE  FiredInOrder'
<1> DEFINE n == Len(stack[t])
           x == stack[t][n].ev
<1>1. CASE fired' = fired
  BY <1>1 DEF FiredInOrder
<1>2. ASSUME n \in 1 .. Len(stack[t]), stack[t][n].op = "fire", stack[t][n].at = 0,
             Len(fired) \in Nat, Len(fired') = Len(fired) + 1,
             \A k \in 1 .. Len(fired) : fired'[k] = fired[k],
             fired'[Len(fired) + 1] = x
      PROVE  FiredInOrder'
  <2>1. x.deferred => ComesNext(x, fired)
    BY <1>2, FiringComesNext
  <2> HIDE DEF x
  <2> SUFFICES ASSUME NEW j \in 1 .. Len(fired'), fired'[j].deferred, NEW i \in 1 .. j - 1,
                      fired'[i].deferred, fired'[i].group = fired'[j].group
               PROVE  fired'[i].id < fired'[j].id
    BY DEF FiredInOrder
  <2>2. i \in 1 .. Len(fired) /\ (j \in 1 .. Len(fired) \/ j = Len(fired) + 1)
    BY <1>2
  <2>3. CASE j \in 1 .. Len(fired)
    <3>1. fired'[i] = fired[i] /\ fired'[j] = fired[j]
      BY <1>2, <2>2, <2>3
    <3> QED BY <2>3, <3>1 DEF FiredInOrder
  <2>4. CASE j = Len(fired) + 1
    <3>1. fired'[i] = fired[i] /\ fired'[j] = x
      BY <1>2, <2>2, <2>4
    <3> QED BY <2>1, <2>2, <3>1 DEF ComesNext
  <2> QED BY <2>2, <2>3, <2>4
<1> QED BY <1>1, <1>2, TurnFired

\* An event still comes next after a step, if what is fired in it comes before.
LEMMA StillComesNext ==
    ASSUME NEW x, NEW e, ComesNext(e, fired),
           \/ fired' = fired
           \/ /\ Len(fired) \in Nat /\ Len(fired') = Len(fired) + 1
              /\ \A k \in 1 .. Len(fired) : fired'[k] = fired[k]
              /\ fired'[Len(fired) + 1] = x
              /\ x.deferred /\ x.group = e.group => x.id < e.id
    PROVE  ComesNext(e, fired')
<1>1. CASE fired' = fired
  BY <1>1
<1>2. ASSUME Len(fired) \in Nat, Len(fired') = Len(fired) + 1,
             \A k \in 1 .. Len(fired) : fired'[k] = fired[k],
             fired'[Len(fired) + 1] = x,
             x.deferred /\ x.group = e.group => x.id < e.id,
             NEW k \in 1 .. Len(fired'), fired'[k].deferred, fired'[k].group = e.group
      PROVE  fired'[k].id < e.id
  <2>1. k \in 1 .. Len(fired) \/ k = Len(fired) + 1
    BY <1>2
  <2>2. CASE k \in 1 .. Len(fired)
    BY <1>2, <2>2 DEF ComesNext
  <2> QED BY <1>2, <2>1, <2>2
<1> QED BY <1>1, <1>2 DEF ComesNext

LEMMA WaitingComesNextNext ==
    ASSUME EventTypeOK, EventTypeOK', StackShape, IdsAreCounted, ListsAreOwned, ~Reentrant,
           NewestIsDeferred, ListsAreSorted, WaitingComesNext, NEW t \in Threads, Alone(t), Turn(t)
    PROVE  WaitingComesNext'
<1> USE DEF queues
<1> DEFINE n == Len(stack[t])
           x == stack[t][n].ev
           d == stack[t][1]
           f == stack'[t][1]
<1>0. Len(lists) \in Nat /\ \A l \in 1 .. Len(lists) : Len(lists[l]) \in Nat
  BY ListTypes
<1>t. Len(stack[t]) # 0 => d \in Frame
  <2>1. Len(stack[t]) # 0 => 1 \in 1 .. Len(stack[t])
    BY StackTypes
  <2> QED BY <2>1, StackTypes
\* What is fired in the step comes before what waits.
<1>s. ASSUME NEW e, ComesNext(e, fired),
             n = 2 /\ stack[t][n].at = 0 /\ x.deferred /\ x.group = e.group => x.id < e.id
      PROVE  ComesNext(e, fired')
  <2>1. CASE fired' = fired
    BY <1>s, <2>1
  <2>2. ASSUME n \in 1 .. Len(stack[t]), stack[t][n].op = "fire", stack[t][n].at = 0,
               Len(fired) \in Nat, Len(fired') = Len(fired) + 1,
               \A k \in 1 .. Len(fired) : fired'[k] = fired[k],
               fired'[Len(fired) + 1] = x
        PROVE  ComesNext(e, fired')
    <3>1. x.deferred => n = 2
      BY <2>2, FiringComesNext
    <3>2. x.deferred /\ x.group = e.group => x.id < e.id
      BY <1>s, <2>2, <3>1
    <3> HIDE DEF x
    <3> QED BY <1>s, <2>2, <3>2, StillComesNext
  <2> QED BY <2>1, <2>2, TurnFired
<1>x. ASSUME TurnFire(t), n = 2
      PROVE  /\ d.op = "flush" /\ d.list \in 1 .. Len(lists)
             /\ d.at \in 1 .. Len(lists[d.list]) /\ x = lists[d.list][d.at]
  <2>1. 1 \in 1 .. Len(stack[t]) /\ 1 < Len(stack[t])
    BY <1>x
  <2> QED BY <1>x, <2>1, Shallow
<1>1. ASSUME NEW g \in Groups, groups'[g] # 0, NEW p \in 1 .. Len(lists'[groups'[g]])
      PROVE  ComesNext(lists'[groups'[g]][p], fired')
  <2>1. CASE /\ groups[g] \in 1 .. Len(lists) /\ p \in 1 .. Len(lists[groups[g]])
             /\ lists'[groups'[g]][p] = lists[groups[g]][p]
    <3> DEFINE e == lists[groups[g]][p]
    <3>1. ComesNext(e, fired) /\ e.group = g
      BY <1>1, <2>1 DEF WaitingComesNext, ListsAreSorted
    <3>2. ASSUME n = 2, stack[t][n].at = 0, x.group = e.group PROVE FALSE \/ fired' = fired
      <4>1. CASE TurnFire(t)
        <5>1. groups[x.group] = 0
          <6>1. d.list # 0 /\ d.op = "flush" /\ Len(stack[t]) # 0
            BY <1>x, <3>2, <4>1
          <6> QED BY <1>x, <3>2, <4>1, <6>1 DEF NewestIsDeferred
        <5> QED BY <2>1, <3>1, <3>2, <5>1
      <4>2. CASE ~TurnFire(t)
        BY <4>2, TurnFired
      <4> QED BY <4>1, <4>2
    <3>3. CASE fired' = fired
      BY <2>1, <3>1, <3>3
    <3>4. CASE fired' # fired
      <4>1. n = 2 /\ stack[t][n].at = 0 /\ x.deferred /\ x.group = e.group => x.id < e.id
        BY <3>2, <3>4
      <4> HIDE DEF e
      <4>2. ComesNext(e, fired')
        BY <1>s, <3>1, <4>1
      <4> QED BY <2>1, <4>2 DEF e
    <3> QED BY <3>3, <3>4
  <2>2. CASE UNCHANGED queues
    <3>1. groups[g] \in 1 .. Len(lists)
      BY <1>0, <1>1, <2>2, GroupTypes
    <3> QED BY <1>1, <2>1, <2>2, <3>1
  <2>3. CASE TurnFlush(t)
    <3>1. lists' = lists /\ groups'[g] = groups[g]
      <4>1. lists' = lists /\ \E h \in Groups : groups' = [groups EXCEPT ![h] = 0]
        BY <2>3 DEF TurnFlush
      <4> QED BY <1>1, <4>1 DEF EventTypeOK
    <3>2. groups[g] \in 1 .. Len(lists)
      BY <1>0, <1>1, <3>1, GroupTypes
    <3> QED BY <1>1, <2>1, <3>1, <3>2
  <2>4. CASE TurnCreate(t)
    <3> DEFINE m == Len(lists) + 1
    <3>1. /\ lists'[m] = <<>> /\ Len(lists'[m]) = 0
          /\ \A k \in 1 .. Len(lists) : lists'[k] = lists[k]
          /\ groups'[g] = groups[g] \/ groups'[g] = m
      BY <2>4 DEF TurnCreate, EventTypeOK
    <3>2. groups'[g] = groups[g]
      BY <1>1, <3>1
    <3>3. groups[g] \in 1 .. Len(lists)
      BY <1>0, <1>1, <3>2, GroupTypes
    <3> QED BY <1>1, <2>1, <3>1, <3>2, <3>3
  <2>5. CASE TurnAppend(t)
    <3> DEFINE m == d.list
               k == Len(lists[m])
    <3>1. /\ d.op = "defer" /\ m \in 1 .. Len(lists) /\ groups' = groups
          /\ \A j \in 1 .. Len(lists) : j # m => lists'[j] = lists[j]
          /\ Len(lists'[m]) = k + 1 /\ lists'[m][k + 1] = d.ev
          /\ \A q \in 1 .. k : lists'[m][q] = lists[m][q]
          /\ fired' = fired /\ Len(stack[t]) # 0
      <4>1. /\ d.op = "defer" /\ d.list \in 1 .. Len(lists) /\ groups' = groups /\ fired' = fired
            /\ \A j \in 1 .. Len(lists) : j # d.list => lists'[j] = lists[j]
            /\ Len(lists'[d.list]) = Len(lists[d.list]) + 1
            /\ lists'[d.list][Len(lists[d.list]) + 1] = d.ev
            /\ \A q \in 1 .. Len(lists[d.list]) : lists'[d.list][q] = lists[d.list][q]
            /\ Len(stack[t]) = 1
        BY <2>5, AppendFacts, ZenonT(40)
      <4>2. Len(stack[t]) # 0
        BY <4>1
      <4> QED BY <4>1, <4>2, Zenon
    <3>2. groups[g] \in 1 .. Len(lists) /\ k \in Nat
      BY <1>0, <1>1, <3>1, GroupTypes
    <3>3. CASE groups[g] # m
      BY <1>1, <2>1, <3>1, <3>2, <3>3
    <3>4. CASE groups[g] = m
      <4>1. p \in 1 .. k \/ p = k + 1
        BY <1>1, <3>1, <3>2, <3>4
      <4>2. CASE p \in 1 .. k
        BY <2>1, <3>1, <3>2, <3>4, <4>2
      <4>3. CASE p = k + 1
        <5>1. d.ev.id = events /\ \A j \in 1 .. Len(fired) : fired[j].id < events
          BY <3>1 DEF NewestIsDeferred
        <5>2. ComesNext(d.ev, fired)
          BY <5>1 DEF ComesNext
        <5> QED BY <3>1, <3>4, <4>3, <5>2
      <4> QED BY <4>1, <4>2, <4>3
    <3> QED BY <3>3, <3>4
  <2> QED BY <2>2, <2>3, <2>4, <2>5, TurnQueues
<1>2. ASSUME Len(stack'[t]) # 0, f.op = "flush", f.list # 0, NEW p \in 1 .. Len(lists'[f.list]),
             p > f.at \/ (p = f.at /\ Len(stack'[t]) = 2 /\ stack'[t][2].at = 0)
      PROVE  ComesNext(lists'[f.list][p], fired')
  <2>1. CASE TurnFlush(t)
    <3>1. PICK g \in Groups : f.list = groups[g]
      BY <2>1 DEF TurnFlush
    <3>2. lists' = lists /\ fired' = fired
      BY <2>1 DEF TurnFlush
    <3> QED BY <1>2, <3>1, <3>2 DEF WaitingComesNext
  <2>2. CASE TurnNext(t)
    <3>1. /\ d.op = "flush" /\ f.list = d.list /\ f.at = d.at + 1 /\ Len(stack[t]) # 0
          /\ lists' = lists /\ fired' = fired
      BY <2>2 DEF TurnNext
    <3>2. d.at \in Nat
      BY <1>t, <3>1 DEF Frame
    <3>3. p > d.at
      BY <1>2, <3>1, <3>2
    <3> QED BY <1>2, <3>1, <3>3 DEF WaitingComesNext
  <2>3. CASE TurnFire(t)
    <3>1. lists' = lists /\ n \in {1, 2} /\ Len(stack[t]) # 0
      BY <2>3 DEF TurnFire
    <3>2. n = 2
      BY <1>2, <2>3 DEF TurnFire
    <3>3. f.list = d.list /\ f.at = d.at /\ (Len(stack'[t]) = 2 => stack'[t][2].at # 0)
      <4>1. Len(stack'[t]) = 2 => stack'[t][2].at # 0
        BY <2>3, <3>2 DEF TurnFire
      <4>2. ASSUME NEW e, f = [d EXCEPT !.raised = @ \cup {e}] PROVE f.at = d.at /\ f.list = d.list
        <5> HIDE DEF d, f
        <5> QED BY <1>t, <3>1, <4>2 DEF Frame
      <4>3. f = d \/ \E e : f = [d EXCEPT !.raised = @ \cup {e}]
        BY <1>2, <2>3, <3>2 DEF TurnFire
      <4> QED BY <4>1, <4>2, <4>3
    <3>4. p > d.at /\ p \in 1 .. Len(lists[d.list])
      BY <1>2, <3>1, <3>3
    <3>5. /\ d.op = "flush" /\ d.list \in 1 .. Len(lists) /\ d.list # 0
          /\ d.at \in 1 .. Len(lists[d.list]) /\ x = lists[d.list][d.at]
      BY <1>x, <2>3, <3>2
    <3> DEFINE e == lists[d.list][p]
    <3>6. ComesNext(e, fired)
      BY <3>1, <3>4, <3>5 DEF WaitingComesNext
    <3>7. x.id < e.id
      BY <3>4, <3>5 DEF ListsAreSorted
    <3> HIDE DEF e
    <3>8. ComesNext(e, fired')
      BY <1>s, <3>6, <3>7
    <3> QED BY <3>1, <3>3, <3>8 DEF e
  <2> QED BY <1>2, <2>1, <2>2, <2>3 DEF Turn, TurnNew, TurnFind, TurnCreate, TurnAppend, TurnOver
<1> QED BY <1>1, <1>2, OnlyTurn DEF WaitingComesNext

LEMMA OrderInit == Init => OrderInv
<1> SUFFICES ASSUME Init PROVE ListsAreSorted /\ NewestIsDeferred /\ WaitingComesNext /\ FiredInOrder
  BY DEF OrderInv
<1>1. /\ Len(fired) = 0 /\ Len(lists) = 0 /\ \A g \in Groups : groups[g] = 0
      /\ \A t \in Threads : Len(stack[t]) = 0
  BY DEF Init
<1> QED BY <1>1 DEF ListsAreSorted, NewestIsDeferred, WaitingComesNext, FiredInOrder

LEMMA OrderNext == QueueInv /\ QueueInv' /\ OrderInv /\ [Next]_vars => OrderInv'
<1> SUFFICES ASSUME QueueInv, QueueInv', OrderInv, [Next]_vars, Plain'
             PROVE  (ListsAreSorted /\ NewestIsDeferred /\ WaitingComesNext /\ FiredInOrder)'
  BY DEF OrderInv
<1>1. EventTypeOK /\ StackShape /\ IdsAreCounted /\ ListsAreOwned /\ PlacesAreDistinct
      /\ EventTypeOK'
  BY DEF QueueInv
<1>2. setup' = setup
  BY <1>1, StepGrows
<1>3. Plain /\ ~Reentrant
  BY <1>2 DEF Plain, Reentrant, Concurrent
<1>4. ListsAreSorted /\ NewestIsDeferred /\ WaitingComesNext /\ FiredInOrder
  BY <1>3 DEF OrderInv
<1>5. CASE UNCHANGED <<stack, queues, events, fired, ended>>
  <2>1. /\ stack' = stack /\ lists' = lists /\ groups' = groups /\ events' = events
        /\ fired' = fired
    BY <1>5 DEF queues
  <2>2. ListsAreSorted' /\ FiredInOrder'
    BY <1>4, <2>1 DEF ListsAreSorted, FiredInOrder
  <2>3. NewestIsDeferred'
    BY <1>4, <2>1 DEF NewestIsDeferred
  <2>4. WaitingComesNext'
    BY <1>4, <2>1 DEF WaitingComesNext, ComesNext
  <2> QED BY <2>2, <2>3, <2>4
<1>6. ASSUME NEW t \in Threads, Alone(t), Turn(t)
      PROVE  (ListsAreSorted /\ NewestIsDeferred /\ WaitingComesNext /\ FiredInOrder)'
  <2>1. ListsAreSorted'
    BY <1>1, <1>4, <1>6, ListsAreSortedNext
  <2>2. NewestIsDeferred'
    BY <1>1, <1>4, <1>6, NewestIsDeferredNext
  <2>3. WaitingComesNext'
    BY <1>1, <1>3, <1>4, <1>6, WaitingComesNextNext
  <2>4. FiredInOrder'
    BY <1>1, <1>3, <1>4, <1>6, FiredInOrderNext
  <2> QED BY <2>1, <2>2, <2>3, <2>4
<1> QED BY <1>1, <1>3, <1>5, <1>6, StepTurns

\* For one thread and receivers that do not call back, the events deferred to a
\* group are fired in the order in which they were deferred, however flushes,
\* errors and changes of allow_deferral and warn_error come between.
THEOREM DeferralIsInOrder == Spec => []DeferredInOrder
<1>1. QueueInv /\ OrderInv => DeferredInOrder
  <2> SUFFICES ASSUME QueueInv, OrderInv, Plain, NEW i \in DOMAIN fired, NEW j \in DOMAIN fired,
                      i < j, fired[i].deferred, fired[j].deferred, fired[i].group = fired[j].group
               PROVE  fired[i].id < fired[j].id
    BY DEF DeferredInOrder, Plain
  <2>1. fired \in Seq(Event)
    BY DEF QueueInv, EventTypeOK
  <2>2. i \in 1 .. Len(fired) /\ j \in 1 .. Len(fired) /\ i \in 1 .. j - 1
    BY <2>1
  <2>3. FiredInOrder
    BY DEF OrderInv
  <2> QED BY <2>2, <2>3 DEF FiredInOrder
<1> QED BY <1>1, OrderInit, OrderNext, QueueInit, QueueNext, QueueAlways, PTL DEF Spec

-----------------------------------------------------------------------------
(* The manager implements EventDelivery                                    *)

\* An event waits in a group's list or in a call: that is, it is not at rest.
LEMMA WaitingIsHeld ==
    ASSUME EventTypeOK, StackShape, NEW e
    PROVE  e \in Waiting <=>
             \/ \E g \in Groups : groups[g] # 0 /\
                   \E p \in 1 .. Len(lists[groups[g]]) : lists[groups[g]][p].id = e
             \/ \E t \in Threads : \E i \in 1 .. Len(stack[t]) : Holds(stack[t][i], e)
<1>1. ASSUME NEW l \in 1 .. Len(lists)
      PROVE  e \in {x.id : x \in ToSet(lists[l])} <=> \E p \in 1 .. Len(lists[l]) : lists[l][p].id = e
  <2>1. ToSet(lists[l]) = {lists[l][p] : p \in 1 .. Len(lists[l])}
    BY ListTypes, LenProperties DEF ToSet
  <2> QED BY <2>1
<1>2. \A g \in Groups : groups[g] # 0 => groups[g] \in 1 .. Len(lists)
  BY GroupTypes, ListTypes
<1>3. e \in Waiting <=>
        \/ \E g \in Groups : groups[g] # 0 /\ e \in {x.id : x \in ToSet(lists[groups[g]])}
        \/ \E t \in Threads : e \in UnfinishedIn(stack[t])
  <2> DEFINE Had(g) == {x.id : x \in ToSet(lists[groups[g]])}
             Held(t) == UnfinishedIn(stack[t])
             had == UNION {Had(g) : g \in {h \in Groups : groups[h] # 0}}
             held == UNION {Held(t) : t \in Threads}
  <2>1. Waiting = had \cup held
    BY DEF Waiting
  <2>2. e \in had <=> \E g \in Groups : groups[g] # 0 /\ e \in Had(g)
    <3> HIDE DEF Had
    <3> QED OBVIOUS
  <2>3. e \in held <=> \E t \in Threads : e \in Held(t)
    <3> HIDE DEF Held
    <3> QED OBVIOUS
  <2> HIDE DEF had, held
  <2>4. e \in Waiting <=> e \in had \/ e \in held
    BY <2>1
  <2> QED BY <2>2, <2>3, <2>4
<1>4. \A g \in Groups : groups[g] # 0 =>
        (e \in {x.id : x \in ToSet(lists[groups[g]])}
            <=> \E p \in 1 .. Len(lists[groups[g]]) : lists[groups[g]][p].id = e)
  BY <1>1, <1>2
<1>5. \A t \in Threads : e \in UnfinishedIn(stack[t])
            <=> \E i \in 1 .. Len(stack[t]) : Holds(stack[t][i], e)
  BY UnfinishedIsHeld
<1> QED BY <1>3, <1>4, <1>5

LEMMA WaitingIsRestless ==
    ASSUME EventTypeOK, StackShape, NEW e
    PROVE  e \in Waiting <=> ~AtRest(e)
<1>0. Len(lists) \in Nat /\ \A l \in 1 .. Len(lists) : Len(lists[l]) \in Nat
  BY ListTypes
<1>f. ASSUME NEW t \in Threads, NEW i \in 1 .. Len(stack[t]), stack[t][i].op = "flush",
             stack[t][i].list # 0
      PROVE  stack[t][i].list \in 1 .. Len(lists) /\ stack[t][i].at \in Nat
  <2>1. stack[t][i].list \in Nat /\ stack[t][i].at \in Nat
    BY StackTypes DEF Frame
  <2>2. stack[t][i].list <= Len(lists)
    BY DEF StackShape, FrameOK
  <2> QED BY <1>0, <1>f, <2>1, <2>2
<1>1. ASSUME NEW g \in Groups, groups[g] # 0, NEW p \in 1 .. Len(lists[groups[g]]),
             lists[groups[g]][p].id = e
      PROVE  ~AtRest(e)
  <2>1. groups[g] \in 1 .. Len(lists)
    BY <1>1, GroupTypes, ListTypes
  <2> QED BY <1>1, <2>1 DEF AtRest, Consumed
<1>2. ASSUME NEW t \in Threads, NEW i \in 1 .. Len(stack[t]), Holds(stack[t][i], e)
      PROVE  ~AtRest(e)
  <2>1. CASE stack[t][i].op # "flush" /\ stack[t][i].ev.id = e
    BY <2>1 DEF AtRest
  <2>2. CASE stack[t][i].op = "flush" /\ e \in stack[t][i].raised
    BY <2>2 DEF AtRest
  <2>3. ASSUME stack[t][i].op = "flush", stack[t][i].list # 0,
               NEW p \in stack[t][i].at + 1 .. Len(lists[stack[t][i].list]),
               lists[stack[t][i].list][p].id = e
        PROVE  ~AtRest(e)
    <3>1. /\ stack[t][i].list \in 1 .. Len(lists) /\ p \in 1 .. Len(lists[stack[t][i].list])
          /\ ~(p <= stack[t][i].at)
      BY <1>0, <1>f, <2>3
    <3> QED BY <2>3, <3>1 DEF AtRest, Consumed
  <2> QED BY <1>2, <2>1, <2>2, <2>3 DEF Holds
<1>3. ASSUME ~AtRest(e)
      PROVE  \/ \E g \in Groups : groups[g] # 0 /\
                   \E p \in 1 .. Len(lists[groups[g]]) : lists[groups[g]][p].id = e
             \/ \E t \in Threads : \E i \in 1 .. Len(stack[t]) : Holds(stack[t][i], e)
  <2>1. ASSUME NEW l \in 1 .. Len(lists), NEW p \in 1 .. Len(lists[l]), lists[l][p].id = e,
               NEW g \in Groups, groups[g] = l
        PROVE  groups[g] # 0 /\ \E q \in 1 .. Len(lists[groups[g]]) : lists[groups[g]][q].id = e
    BY <1>0, <2>1
  <2>2. ASSUME NEW l \in 1 .. Len(lists), NEW p \in 1 .. Len(lists[l]), lists[l][p].id = e,
               NEW t \in Threads, NEW i \in 1 .. Len(stack[t]),
               stack[t][i].op = "flush", stack[t][i].list = l, ~(p <= stack[t][i].at)
        PROVE  Holds(stack[t][i], e)
    <3>1. l # 0 /\ Len(lists[l]) \in Nat /\ stack[t][i].at \in Nat
      BY <1>0, <1>f, <2>2
    <3>2. p \in stack[t][i].at + 1 .. Len(lists[l])
      BY <2>2, <3>1
    <3> QED BY <2>2, <3>1, <3>2 DEF Holds
  <2> QED BY <1>3, <2>1, <2>2 DEF AtRest, Consumed, Holds
<1> QED BY <1>1, <1>2, <1>3, WaitingIsHeld

\* The status of an event: new, or its end if it has one, or accepted as long as
\* it waits.
StatusIs ==
    /\ \A e \in Nat : e > events => StatusOf(e) = "new"
    /\ \A x \in ended : StatusOf(x.id) = x.how
    /\ \A e \in 1 .. events : (\A x \in ended : x.id # e) =>
          StatusOf(e) = IF AtRest(e) THEN "dropped" ELSE "accepted"

LEMMA StatusIsKnown == QueueInv => StatusIs
<1> SUFFICES ASSUME QueueInv PROVE StatusIs
  OBVIOUS
<1>0. EventTypeOK /\ StackShape /\ IdsAreCounted /\ EndsAreFinal /\ events \in Nat
  BY DEF QueueInv, EventTypeOK
<1>1. ASSUME NEW e \in Nat, e > events PROVE StatusOf(e) = "new"
  BY <1>0, <1>1 DEF StatusOf
<1>2. ASSUME NEW x \in ended PROVE StatusOf(x.id) = x.how
  <2>1. x.id \in 1 .. events /\ AtRest(x.id)
    BY <1>0 DEF IdsAreCounted, EndsAreFinal
  <2>2. EndsOf(x.id) = {x.how}
    BY <1>0 DEF EndsOf, EndsAreFinal
  <2>3. x.id \notin Waiting
    BY <1>0, <2>1, WaitingIsRestless
  <2>4. Cardinality({x.how}) = 1
    BY FS_Singleton
  <2> QED BY <1>0, <2>1, <2>2, <2>3, <2>4 DEF StatusOf
<1>3. ASSUME NEW e \in 1 .. events, \A x \in ended : x.id # e
      PROVE  StatusOf(e) = IF AtRest(e) THEN "dropped" ELSE "accepted"
  <2>1. EndsOf(e) = {}
    BY <1>3 DEF EndsOf
  <2>2. e \in Waiting <=> ~AtRest(e)
    BY <1>0, WaitingIsRestless
  <2> QED BY <1>0, <2>1, <2>2 DEF StatusOf
<1> QED BY <1>1, <1>2, <1>3 DEF StatusIs

LEMMA StatusIsKnownNext == QueueInv' => StatusIs'
BY StatusIsKnown, PTL

\* A step accepts an event, or makes none.
LEMMA StepCounts ==
    ASSUME EventTypeOK, [Next]_vars
    PROVE  \/ events' = events
           \/ \E t \in Threads, f \in Frame :
                 /\ Keeps(t, Len(stack[t]), <<f>>) /\ f.op # "flush" /\ f.ev.id = events + 1
                 /\ events' = events + 1 /\ events < MaxEvents
                 /\ groups' = groups /\ lists' = lists /\ ended' = ended
<1> USE DEF config, queues, counts, history
<1>1. ASSUME NEW t \in Threads, Fire(t)
      PROVE  \E f \in Frame :
                 /\ Keeps(t, Len(stack[t]), <<f>>) /\ f.op # "flush" /\ f.ev.id = events + 1
                 /\ events' = events + 1 /\ events < MaxEvents
                 /\ groups' = groups /\ lists' = lists /\ ended' = ended
  <2>1. events < MaxEvents /\ groups' = groups /\ lists' = lists /\ ended' = ended
    BY <1>1 DEF Fire
  <2>2. PICK f \in Frame : Keeps(t, Len(stack[t]), <<f>>) /\ f.op = "fire"
                           /\ f.ev.id = events + 1 /\ events' = events + 1
    BY <1>1, FireFacts
  <2> QED BY <2>1, <2>2
<1>2. ASSUME NEW t \in Threads, Defer(t)
      PROVE  \E f \in Frame :
                 /\ Keeps(t, Len(stack[t]), <<f>>) /\ f.op # "flush" /\ f.ev.id = events + 1
                 /\ events' = events + 1 /\ events < MaxEvents
                 /\ groups' = groups /\ lists' = lists /\ ended' = ended
  <2>1. events < MaxEvents /\ groups' = groups /\ lists' = lists /\ ended' = ended
    BY <1>2 DEF Defer
  <2>2. PICK f \in Frame : Keeps(t, Len(stack[t]), <<f>>) /\ f.op = "defer"
                           /\ f.ev.id = events + 1 /\ events' = events + 1
    BY <1>2, DeferFacts
  <2> QED BY <2>1, <2>2
<1>3. CASE Configure \/ UNCHANGED vars
  BY <1>3 DEF Configure, vars
<1>4. ASSUME NEW t \in Threads,
             \/ FindList(t) \/ CreateList(t) \/ AppendArgs(t)
             \/ Flush(t) \/ FlushNext(t) \/ FlushEnd(t) \/ FlushRaises(t)
             \/ FireRaises(t) \/ FireSilenced(t) \/ FireFirst(t) \/ FireNext(t)
             \/ FireEnd(t) \/ ReceiverRaises(t)
      PROVE  events' = events
  BY <1>4 DEF FindList, CreateList, AppendArgs, Flush, FlushNext, FlushEnd, FlushRaises,
              FireRaises, FireSilenced, FireFirst, FireNext, FireEnd, ReceiverRaises
<1> QED BY <1>1, <1>2, <1>3, <1>4 DEF Next

\* The event that is accepted is not at rest, and the others are as they were.
LEMMA NewIsRestless ==
    ASSUME EventTypeOK, NEW t \in Threads, NEW f \in Frame,
           Keeps(t, Len(stack[t]), <<f>>), f.op # "flush", groups' = groups, lists' = lists,
           NEW e
    PROVE  /\ f.ev.id = e => ~AtRest(e)'
           /\ AtRest(e)' => AtRest(e)
<1> DEFINE n == Len(stack[t])
<1>1. n \in Nat /\ Len(stack'[t]) = n + 1 /\ stack'[t][n + 1] = f
      /\ \A i \in 1 .. n : stack'[t][i] = stack[t][i]
  BY KeepsOne, StackTypes
<1>2. n + 1 \in 1 .. Len(stack'[t])
  BY <1>1
<1>3. f.ev.id = e => ~AtRest(e)'
  BY <1>1, <1>2 DEF AtRest
<1>4. ASSUME NEW u \in Threads, NEW i \in 1 .. Len(stack[u])
      PROVE  i \in 1 .. Len(stack'[u]) /\ stack'[u][i] = stack[u][i]
  <2>1. CASE u = t
    BY <1>1, <2>1
  <2>2. CASE u # t
    BY <2>2 DEF Keeps
  <2> QED BY <2>1, <2>2
<1>5. ASSUME AtRest(e)' PROVE AtRest(e)
  <2>1. ASSUME NEW u \in Threads, NEW i \in 1 .. Len(stack[u])
        PROVE  /\ stack[u][i].op # "flush" => stack[u][i].ev.id # e
               /\ stack[u][i].op = "flush" => e \notin stack[u][i].raised
    BY <1>4, <1>5 DEF AtRest
  <2>2. ASSUME NEW l \in 1 .. Len(lists), NEW p \in 1 .. Len(lists[l]), lists[l][p].id = e
        PROVE  Consumed(l, p)
    <3>1. Consumed(l, p)'
      BY <1>5, <2>2 DEF AtRest
    <3>2. ASSUME NEW g \in Groups PROVE groups[g] # l
      BY <3>1 DEF Consumed
    <3>3. ASSUME NEW u \in Threads, NEW i \in 1 .. Len(stack[u]), stack[u][i].op = "flush",
                 stack[u][i].list = l
          PROVE  p <= stack[u][i].at
      BY <1>4, <3>1, <3>3 DEF Consumed
    <3> QED BY <3>2, <3>3 DEF Consumed
  <2> QED BY <2>1, <2>2 DEF AtRest
<1> QED BY <1>3, <1>5

\* In a turn events end as they should, if no receiver raises.
LEMMA TurnEnds ==
    ASSUME NEW t, Turn(t), setup.broken = {}, NEW x \in ended', x \notin ended
    PROVE  x.how \in {"delivered", "silenced", "errored"}
<1>1. CASE TurnOver(t)
  BY <1>1 DEF TurnOver
<1>2. CASE TurnFire(t)
  BY <1>2 DEF TurnFire
<1> QED BY <1>1, <1>2 DEF Turn, TurnNew, TurnFlush, TurnFind, TurnCreate, TurnAppend, TurnNext

\* A call that holds an event does not let go of it in a turn unless it has an
\* end: it stays in a call, among the errors of a flush, or in a group's list.
LEMMA TurnKeepsCalls ==
    ASSUME EventTypeOK, StackShape, ~Reentrant, NewestIsDeferred, setup.broken = {},
           NEW t \in Threads, Turn(t), NEW e, AtRest(e)', \A x \in ended' : x.id # e,
           NEW i \in 1 .. Len(stack[t])
    PROVE  /\ stack[t][i].op # "flush" => stack[t][i].ev.id # e
           /\ stack[t][i].op = "flush" => e \notin stack[t][i].raised
<1> DEFINE n == Len(stack[t])
           d == stack[t][1]
           f == stack'[t][1]
           G == /\ stack[t][i].op # "flush" => stack[t][i].ev.id # e
                /\ stack[t][i].op = "flush" => e \notin stack[t][i].raised
<1>0. /\ n \in Nat /\ n # 0 /\ d \in Frame
      /\ n = 1 => i = 1
      /\ n = 2 => i = 1 \/ i = 2
  <2>1. n \in Nat /\ n # 0 /\ 1 \in 1 .. n
    BY StackTypes
  <2>2. d \in Frame
    BY <2>1, StackTypes
  <2>3. i \in 1 .. n
    OBVIOUS
  <2> HIDE DEF n, d
  <2> QED BY <2>1, <2>2, <2>3
\* What the calls after the step do not hold.
<1>a. ASSUME NEW j \in 1 .. Len(stack'[t])
      PROVE  /\ stack'[t][j].op # "flush" => stack'[t][j].ev.id # e
             /\ stack'[t][j].op = "flush" => e \notin stack'[t][j].raised
  BY DEF AtRest
<1>b. ASSUME Len(stack'[t]) \in {1, 2}
      PROVE  /\ f.op # "flush" => f.ev.id # e
             /\ f.op = "flush" => e \notin f.raised
  <2>1. 1 \in 1 .. Len(stack'[t])
    <3>1. CASE Len(stack'[t]) = 1
      BY <3>1
    <3>2. CASE Len(stack'[t]) = 2
      BY <3>2
    <3> QED BY <1>b, <3>1, <3>2
  <2> QED BY <1>a, <2>1
<1>c. ASSUME Len(stack'[t]) = 2, stack'[t][2].op = "fire" PROVE stack'[t][2].ev.id # e
  <2>1. 2 \in 1 .. Len(stack'[t])
    BY <1>c
  <2> QED BY <1>a, <1>c, <2>1
<1>d. ASSUME NEW l \in 1 .. Len(lists'), NEW p \in 1 .. Len(lists'[l]), lists'[l][p].id = e,
             NEW g \in Groups
      PROVE  groups'[g] # l
  BY <1>d DEF AtRest, Consumed
<1>1. CASE TurnNew(t) \/ TurnFlush(t)
  BY <1>0, <1>1 DEF TurnNew, TurnFlush
<1>2. CASE TurnFind(t)
  <2>1. n = 1 /\ Len(stack'[t]) = 1 /\ d.op = "defer" /\ f.ev = d.ev /\ f.op \in {"create", "defer"}
    BY <1>2 DEF TurnFind
  <2> QED BY <1>0, <1>b, <2>1
<1>3. CASE TurnCreate(t)
  <2>1. n = 1 /\ Len(stack'[t]) = 1 /\ d.op = "create" /\ f.ev = d.ev /\ f.op = "defer"
    BY <1>3 DEF TurnCreate
  <2> QED BY <1>0, <1>b, <2>1
<1>4. CASE TurnAppend(t)
  <2> DEFINE l == d.list
             q == Len(lists[l]) + 1
  <2>1. /\ n = 1 /\ d.op = "defer" /\ l \in 1 .. Len(lists)
        /\ Len(lists') = Len(lists) /\ Len(lists'[l]) = q /\ lists'[l][q] = d.ev
        /\ groups' = groups
    BY <1>4 DEF TurnAppend
  <2>2. Len(lists) \in Nat /\ Len(lists[l]) \in Nat
    BY <2>1, ListTypes
  <2>3. l # 0 /\ q \in 1 .. Len(lists'[l]) /\ l \in 1 .. Len(lists')
    BY <2>1, <2>2
  <2>4. groups[d.ev.group] = l /\ d.ev.group \in Groups
    BY <1>0, <2>1, <2>3 DEF NewestIsDeferred, Frame, Event
  <2>5. ASSUME d.ev.id = e PROVE FALSE
    <3>1. groups'[d.ev.group] # l
      BY <1>d, <2>1, <2>3, <2>4, <2>5
    <3> QED BY <2>1, <2>4, <3>1
  <2> QED BY <1>0, <2>1, <2>5
<1>5. CASE TurnNext(t)
  <2>1. n = 1 /\ Len(stack'[t]) = 2 /\ d.op = "flush" /\ f.op = "flush" /\ f.raised = d.raised
    BY <1>5 DEF TurnNext
  <2> QED BY <1>0, <1>b, <2>1
<1>6. CASE TurnOver(t)
  <2>1. n = 1 /\ d.op = "flush" /\ ended' = ended \cup {[id |-> z, how |-> "errored"] : z \in d.raised}
    BY <1>6 DEF TurnOver
  <2>2. ASSUME e \in d.raised PROVE FALSE
    <3>1. [id |-> e, how |-> "errored"] \in ended'
      BY <2>1, <2>2
    <3> QED BY <3>1
  <2> QED BY <1>0, <2>1, <2>2
<1>7. CASE TurnFire(t)
  <2> DEFINE g == stack[t][n]
             m == Len(stack'[t])
  <2>1. /\ n \in {1, 2} /\ g.op = "fire"
        /\ n = 2 => d.op = "flush"
    BY <1>7 DEF TurnFire
  <2>2. CASE /\ m = n /\ (n = 2 => f = d)
             /\ stack'[t][n].op = "fire" /\ stack'[t][n].ev = g.ev
    <3>1. CASE n = 1
      BY <1>0, <1>b, <2>1, <2>2, <3>1
    <3>2. CASE n = 2
      BY <1>0, <1>b, <1>c, <2>1, <2>2, <3>2
    <3> QED BY <2>1, <3>1, <3>2
  <2>3. ASSUME m = n - 1, n = 2 => f = d,
               NEW how, ended' = ended \cup {[id |-> g.ev.id, how |-> how]}
        PROVE  G
    <3>1. [id |-> g.ev.id, how |-> how] \in ended'
      BY <2>3
    <3>2. g.ev.id # e
      BY <3>1
    <3>3. CASE n = 1
      BY <1>0, <2>1, <3>2, <3>3
    <3>4. CASE n = 2
      BY <1>0, <1>b, <2>1, <2>3, <3>2, <3>4
    <3> QED BY <2>1, <3>3, <3>4
  <2>4. CASE n = 2 /\ m = 1 /\ f = [d EXCEPT !.raised = @ \cup {g.ev.id}]
    <3>1. f.op = "flush" /\ f.raised = d.raised \cup {g.ev.id}
      <4> HIDE DEF d, f
      <4> QED BY <1>0, <2>1, <2>4 DEF Frame
    <3>2. e \notin f.raised
      BY <1>b, <2>4, <3>1
    <3> QED BY <1>0, <2>1, <2>4, <3>1, <3>2
  <2> QED BY <1>7, <2>2, <2>3, <2>4 DEF TurnFire
<1> QED BY <1>1, <1>2, <1>3, <1>4, <1>5, <1>6, <1>7 DEF Turn

\* A place in a list that a group or a flush will come to stays one in a turn
\* unless a call takes the event over.
LEMMA TurnKeepsPlaces ==
    ASSUME EventTypeOK, StackShape, ~Reentrant, NewestIsDeferred, ListsGrow, setup.broken = {},
           NEW t \in Threads, Alone(t), Turn(t), NEW e, AtRest(e)',
           NEW l \in 1 .. Len(lists), NEW p \in 1 .. Len(lists[l]), lists[l][p].id = e
    PROVE  Consumed(l, p)
<1> USE DEF queues
<1> DEFINE n == Len(stack[t])
           d == stack[t][1]
           f == stack'[t][1]
<1>0. /\ Len(lists) \in Nat /\ Len(lists[l]) \in Nat /\ n \in Nat
      /\ l \in 1 .. Len(lists') /\ p \in 1 .. Len(lists'[l]) /\ lists'[l][p].id = e
  BY ListTypes, StackTypes DEF ListsGrow
<1>c. Consumed(l, p)'
  BY <1>0 DEF AtRest
<1>a. ASSUME NEW g \in Groups PROVE groups'[g] # l
  BY <1>c DEF Consumed
<1>b. ASSUME NEW j \in 1 .. Len(stack'[t])
      PROVE  /\ stack'[t][j].op = "flush" /\ stack'[t][j].list = l => p <= stack'[t][j].at
             /\ stack'[t][j].op # "flush" => stack'[t][j].ev.id # e
  BY <1>c DEF Consumed, AtRest
<1>f. ASSUME Len(stack'[t]) \in {1, 2}, f.op = "flush", f.list = l PROVE p <= f.at
  <2>1. 1 \in 1 .. Len(stack'[t])
    <3>1. CASE Len(stack'[t]) = 1
      BY <3>1
    <3>2. CASE Len(stack'[t]) = 2
      BY <3>2
    <3> QED BY <1>f, <3>1, <3>2
  <2> QED BY <1>b, <1>f, <2>1
\* No group has the list, ...
<1>1. ASSUME NEW g \in Groups PROVE groups[g] # l
  <2> SUFFICES ASSUME groups[g] = l PROVE FALSE
    OBVIOUS
  <2>1. groups'[g] # groups[g] /\ groups[g] # 0 /\ groups \in [Groups -> 0 .. Len(lists)]
    BY <1>0, <1>a DEF EventTypeOK
  <2>2. CASE TurnFlush(t)
    <3>1. PICK h \in Groups : f.list = groups[h] /\ groups' = [groups EXCEPT ![h] = 0]
      BY <2>2 DEF TurnFlush
    <3>2. Len(stack'[t]) = 1 /\ f.op = "flush" /\ f.at = 0
      BY <2>2 DEF TurnFlush
    <3>3. h = g
      BY <2>1, <3>1
    <3>4. f.list = l
      BY <3>1, <3>3
    <3>5. p <= f.at
      BY <1>f, <3>2, <3>4
    <3> QED BY <3>2, <3>5
  <2>3. CASE TurnCreate(t)
    <3>1. n = 1 /\ d.op = "create" /\ groups' = [groups EXCEPT ![d.ev.group] = Len(lists) + 1]
      BY <2>3 DEF TurnCreate
    <3>2. groups[d.ev.group] = 0
      BY <3>1 DEF NewestIsDeferred
    <3> HIDE DEF d
    <3> QED BY <2>1, <3>1, <3>2
  <2> QED BY <2>1, <2>2, <2>3, TurnQueues DEF TurnAppend
\* ... and a flush that has it has come past the place.
<1>2. ASSUME NEW u \in Threads, NEW i \in 1 .. Len(stack[u]), stack[u][i].op = "flush",
             stack[u][i].list = l
      PROVE  p <= stack[u][i].at
  <2>0. u = t /\ n # 0
    BY <1>2 DEF Alone
  <2>1. /\ n = 1 => i = 1
        /\ n = 2 => i = 1 \/ i = 2
    <3>1. i \in 1 .. n
      BY <2>0
    <3> HIDE DEF n
    <3> QED BY <3>1
  <2>2. CASE TurnNew(t) \/ TurnFlush(t) \/ TurnFind(t) \/ TurnCreate(t) \/ TurnAppend(t)
    <3>1. n = 0 \/ (n = 1 /\ d.op \in {"defer", "create"})
      BY <2>2 DEF TurnNew, TurnFlush, TurnFind, TurnCreate, TurnAppend
    <3> QED BY <1>2, <2>0, <2>1, <3>1
  <2>3. CASE TurnNext(t)
    <3> DEFINE g == stack'[t][2]
    <3>1. /\ n = 1 /\ Len(stack'[t]) = 2 /\ f.op = "flush" /\ f.list = d.list
          /\ f.at = d.at + 1 /\ g.op = "fire" /\ g.ev = lists[d.list][d.at + 1]
          /\ d.at + 1 \in 1 .. Len(lists[d.list])
      BY <2>3 DEF TurnNext
    <3>2. d.list = l /\ i = 1
      BY <1>2, <2>0, <2>1, <3>1
    <3>3. p <= d.at + 1
      BY <1>f, <3>1, <3>2
    <3>4. p # d.at + 1
      <4>1. 2 \in 1 .. Len(stack'[t])
        BY <3>1
      <4>2. g.ev.id # e
        BY <1>b, <3>1, <4>1
      <4> QED BY <3>1, <3>2, <4>2
    <3>5. d.at \in Nat
      <4>1. 1 \in 1 .. Len(stack[t])
        BY <3>1
      <4> QED BY <4>1, StackTypes DEF Frame
    <3> HIDE DEF d
    <3>6. p <= d.at
      BY <3>3, <3>4, <3>5
    <3> QED BY <2>0, <3>2, <3>6 DEF d
  <2>4. CASE TurnOver(t)
    <3>1. n = 1 /\ (d.list = 0 \/ d.at = Len(lists[d.list]))
      BY <2>4 DEF TurnOver
    <3>2. d.list = l /\ i = 1 /\ l # 0
      BY <1>2, <2>0, <2>1, <3>1
    <3> QED BY <1>0, <2>0, <3>1, <3>2
  <2>5. CASE TurnFire(t)
    <3> DEFINE m == Len(stack'[t])
    <3>1. n \in {1, 2} /\ stack[t][n].op = "fire"
      BY <2>5 DEF TurnFire
    <3>2. i = 1 /\ n = 2
      <4>1. i # n
        BY <1>2, <2>0, <3>1
      <4>2. n = 1 \/ n = 2
        BY <3>1
      <4> HIDE DEF n
      <4> QED BY <2>1, <4>1, <4>2
    <3>3. \/ m = 2 /\ f = d
          \/ m = 1 /\ f = d
          \/ m = 1 /\ \E x : f = [d EXCEPT !.raised = @ \cup x]
      <4>1. \/ m = n /\ f = d
            \/ m = n - 1 /\ f = d
            \/ m = 1 /\ f = [d EXCEPT !.raised = @ \cup {stack[t][n].ev.id}]
        <5> HIDE DEF d, f
        <5> QED BY <2>5, <3>2 DEF TurnFire, d, f
      <4>2. n - 1 = 1 /\ n = 2
        BY <3>2
      <4> HIDE DEF n, m, f, d
      <4> QED BY <4>1, <4>2
    <3>4. d \in Frame /\ d.op = "flush" /\ d.list = l
      BY <1>2, <2>0, <3>2, StackTypes
    <3>5. m \in {1, 2} /\ f.op = "flush" /\ f.list = l /\ f.at = d.at
      <4>1. ASSUME NEW x, f = [d EXCEPT !.raised = @ \cup x]
            PROVE  f.op = d.op /\ f.list = d.list /\ f.at = d.at
        <5> HIDE DEF d, f
        <5> QED BY <3>4, <4>1 DEF Frame
      <4> QED BY <3>3, <3>4, <4>1
    <3>6. p <= f.at
      BY <1>f, <3>5
    <3> QED BY <2>0, <3>2, <3>5, <3>6
  <2> QED BY <2>2, <2>3, <2>4, <2>5 DEF Turn
<1> QED BY <1>1, <1>2 DEF Consumed

\* Where the manager must not drop events, an event that comes to rest ends, and
\* it is not dropped.
LEMMA NothingIsLost ==
    ASSUME QueueInv, OrderInv, ~MayDrop, [Next]_vars, NEW e \in 1 .. events
    PROVE  /\ AtRest(e)' /\ (\A x \in ended' : x.id # e) => AtRest(e)
           /\ \A x \in ended' : x \in ended \/ x.how # "dropped"
<1>1. EventTypeOK /\ StackShape /\ IdsAreCounted
  BY DEF QueueInv
<1>2. Plain /\ ~Reentrant /\ setup.broken = {}
  BY DEF MayDrop, Plain
<1>3. NewestIsDeferred
  BY <1>2 DEF OrderInv
<1>4. ListsGrow
  BY <1>1, StepGrows
<1>5. CASE UNCHANGED <<stack, queues, events, fired, ended>>
  BY <1>5 DEF queues, AtRest, Consumed
<1>6. ASSUME NEW t \in Threads, Alone(t), Turn(t)
      PROVE  /\ AtRest(e)' /\ (\A x \in ended' : x.id # e) => AtRest(e)
             /\ \A x \in ended' : x \in ended \/ x.how # "dropped"
  <2>1. ASSUME AtRest(e)', \A x \in ended' : x.id # e PROVE AtRest(e)
    <3>1. ASSUME NEW u \in Threads, NEW i \in 1 .. Len(stack[u])
          PROVE  /\ stack[u][i].op # "flush" => stack[u][i].ev.id # e
                 /\ stack[u][i].op = "flush" => e \notin stack[u][i].raised
      <4>1. u = t
        BY <1>6 DEF Alone
      <4> QED BY <1>1, <1>2, <1>3, <1>6, <2>1, <4>1, TurnKeepsCalls
    <3>2. ASSUME NEW l \in 1 .. Len(lists), NEW p \in 1 .. Len(lists[l]), lists[l][p].id = e
          PROVE  Consumed(l, p)
      BY <1>1, <1>2, <1>3, <1>4, <1>6, <2>1, <3>2, TurnKeepsPlaces
    <3> QED BY <3>1, <3>2 DEF AtRest
  <2>2. ASSUME NEW x \in ended', x \notin ended PROVE x.how # "dropped"
    BY <1>2, <1>6, <2>2, TurnEnds
  <2> QED BY <2>1, <2>2
<1> QED BY <1>1, <1>2, <1>5, <1>6, StepTurns

\* What a step does to the status of the events: it accepts the next one, or
\* accepted ones end.
LEMMA StepStatus ==
    ASSUME QueueInv, QueueInv', OrderInv, [Next]_vars
    PROVE  \/ /\ events' = events + 1 /\ events < MaxEvents
              /\ \A e : e = events + 1 => StatusOf(e)' = "accepted"
              /\ \A e \in 1 .. events : StatusOf(e)' = StatusOf(e)
           \/ /\ events' = events
              /\ \A e \in 1 .. events :
                    \/ StatusOf(e)' = StatusOf(e)
                    \/ StatusOf(e) = "accepted" /\ StatusOf(e)' \in Delivery!Ends
<1>1. /\ EventTypeOK /\ StackShape /\ IdsAreCounted /\ ListsAreOwned /\ PlacesAreDistinct
      /\ RaisedWereFired /\ EventTypeOK' /\ IdsAreCounted' /\ events \in Nat
  BY DEF QueueInv, EventTypeOK
<1>2. StatusIs /\ StatusIs'
  BY StatusIsKnown, StatusIsKnownNext
<1>3. NewEnds
  BY <1>1, StepEnds
<1>4. PICK t : Moves(t)
  BY <1>1, StepMoves
<1>5. ASSUME NEW e \in 1 .. events, AtRest(e) PROVE AtRest(e)'
  BY <1>1, <1>4, <1>5, RestStays
<1>6. \A x \in ended : StatusOf(x.id) = x.how /\ StatusOf(x.id)' = x.how
  BY <1>2, <1>3 DEF StatusIs, NewEnds
<1>7. \A x \in ended' : StatusOf(x.id)' = x.how
  BY <1>2 DEF StatusIs
<1>8. \A e \in 1 .. events : (\A x \in ended : x.id # e) =>
        StatusOf(e) = IF AtRest(e) THEN "dropped" ELSE "accepted"
  BY <1>2 DEF StatusIs
<1>9. \A e \in 1 .. events' : (\A x \in ended' : x.id # e) =>
        StatusOf(e)' = IF AtRest(e)' THEN "dropped" ELSE "accepted"
  BY <1>2 DEF StatusIs
<1>10. ASSUME NEW v \in Threads, NEW f \in Frame, Keeps(v, Len(stack[v]), <<f>>),
              f.op # "flush", f.ev.id = events + 1, events' = events + 1, events < MaxEvents,
              groups' = groups, lists' = lists, ended' = ended
       PROVE  /\ \A e : e = events + 1 => StatusOf(e)' = "accepted"
              /\ \A e \in 1 .. events : StatusOf(e)' = StatusOf(e)
  <2>1. \A e : (f.ev.id = e => ~AtRest(e)') /\ (AtRest(e)' => AtRest(e))
    BY <1>1, <1>10, NewIsRestless
  <2>2. ASSUME NEW n, n = events + 1 PROVE StatusOf(n)' = "accepted"
    <3>1. n \in 1 .. events' /\ \A x \in ended' : x.id # n
      BY <1>1, <1>10, <2>2 DEF IdsAreCounted
    <3> QED BY <1>9, <1>10, <2>1, <2>2, <3>1
  <2>3. ASSUME NEW e \in 1 .. events PROVE StatusOf(e)' = StatusOf(e)
    <3>1. CASE \E x \in ended : x.id = e
      BY <1>6, <3>1
    <3>2. CASE \A x \in ended : x.id # e
      <4>1. e \in 1 .. events' /\ \A x \in ended' : x.id # e
        BY <1>1, <1>10, <3>2
      <4>2. AtRest(e)' <=> AtRest(e)
        BY <1>5, <2>1
      <4> QED BY <1>8, <1>9, <3>2, <4>1, <4>2
    <3> QED BY <3>1, <3>2
  <2> QED BY <2>2, <2>3
<1>11. ASSUME events' = events, NEW e \in 1 .. events
       PROVE  \/ StatusOf(e)' = StatusOf(e)
              \/ StatusOf(e) = "accepted" /\ StatusOf(e)' \in Delivery!Ends
  <2>1. CASE \E x \in ended : x.id = e
    BY <1>6, <2>1
  <2>2. ASSUME \A x \in ended : x.id # e, NEW x \in ended', x.id = e
        PROVE  StatusOf(e) = "accepted" /\ StatusOf(e)' \in Delivery!Ends
    <3>1. \E v \in Threads : \E i \in 1 .. Len(stack[v]) : Holds(stack[v][i], e)
      BY <1>3, <2>2 DEF NewEnds, Ending
    <3>2. ~AtRest(e)
      BY <1>1, <3>1, WaitingIsHeld, WaitingIsRestless
    <3>3. StatusOf(e) = "accepted" /\ StatusOf(e)' = x.how
      BY <1>7, <1>8, <2>2, <3>2
    <3>4. x.how \in Hows /\ x \notin ended
      BY <1>1, <2>2 DEF EventTypeOK
    <3>5. ~MayDrop => x.how # "dropped"
      BY <3>4, NothingIsLost
    <3> QED BY <3>3, <3>4, <3>5 DEF Delivery!Ends, Hows
  <2>3. ASSUME \A x \in ended' : x.id # e
        PROVE  \/ StatusOf(e)' = StatusOf(e)
               \/ StatusOf(e) = "accepted" /\ StatusOf(e)' \in Delivery!Ends
    <3>1. \A x \in ended : x.id # e
      BY <1>3, <2>3 DEF NewEnds
    <3>2. e \in 1 .. events'
      BY <1>11
    <3>3. ~MayDrop => (AtRest(e)' => AtRest(e))
      BY <2>3, NothingIsLost
    <3> QED BY <1>5, <1>8, <1>9, <2>3, <3>1, <3>2, <3>3 DEF Delivery!Ends
  <2> QED BY <2>1, <2>2, <2>3
<1> QED BY <1>1, <1>10, <1>11, StepCounts

LEMMA DeliveryInit == Init => Delivery!Init
<1> SUFFICES ASSUME Init PROVE Delivery!Init
  OBVIOUS
<1>1. events = 0 /\ StatusIs
  BY QueueInit, StatusIsKnown DEF Init
<1>2. \A e \in 1 .. MaxEvents : StatusOf(e) = "new"
  BY <1>1, BoundsAssumption DEF StatusIs
<1>3. StatusMap = [e \in 1 .. MaxEvents |-> "new"]
  BY <1>2 DEF StatusMap
<1>4. MayDrop \in BOOLEAN
  BY DEF MayDrop
<1> QED BY <1>3, <1>4 DEF Delivery!Init

LEMMA DeliveryNext ==
    QueueInv /\ QueueInv' /\ OrderInv /\ [Next]_vars => [Delivery!Next]_<<StatusMap, MayDrop>>
<1> SUFFICES ASSUME QueueInv, QueueInv', OrderInv, [Next]_vars PROVE Delivery!Next
  OBVIOUS
<1> DEFINE Ids == 1 .. MaxEvents
<1>0. events \in Nat /\ MaxEvents \in Nat /\ StatusIs /\ StatusIs'
  BY StatusIsKnown, StatusIsKnownNext, BoundsAssumption DEF QueueInv, EventTypeOK
<1>1. MayDrop' = MayDrop
  <2>1. setup' = setup
    BY StepGrows DEF QueueInv
  <2> QED BY <2>1 DEF MayDrop, Reentrant, Concurrent
<1>2. /\ StatusMap \in [Ids -> {StatusOf(e) : e \in Ids}]
      /\ \A e \in Ids : StatusMap[e] = StatusOf(e)
      /\ StatusMap' = [e \in Ids |-> StatusOf(e)']
  BY DEF StatusMap
<1>3. \A e \in Ids : e > events => StatusOf(e) = "new"
  BY <1>0 DEF StatusIs
<1>4. \A e \in Ids : e > events' => StatusOf(e)' = "new"
  BY <1>0 DEF StatusIs
<1>5. CASE /\ events' = events + 1 /\ events < MaxEvents
           /\ \A e : e = events + 1 => StatusOf(e)' = "accepted"
           /\ \A e \in 1 .. events : StatusOf(e)' = StatusOf(e)
  <2> DEFINE n == events + 1
  <2>1. n \in Ids /\ n > events
    BY <1>0, <1>5
  <2>2. \A e \in Ids : e # n => StatusOf(e)' = StatusOf(e)
    BY <1>0, <1>3, <1>4, <1>5
  <2>3. \A e \in Ids : e = n => StatusOf(e)' = "accepted"
    BY <1>5
  <2> HIDE DEF n
  <2>4. StatusMap[n] = "new"
    BY <1>2, <1>3, <2>1
  <2>5. StatusMap' = [StatusMap EXCEPT ![n] = "accepted"]
    BY <1>2, <2>2, <2>3
  <2>6. Delivery!Accept(n)
    BY <2>4, <2>5 DEF Delivery!Accept
  <2> QED BY <1>1, <2>1, <2>6 DEF Delivery!Next
<1>6. CASE /\ events' = events
           /\ \A e \in 1 .. events :
                 \/ StatusOf(e)' = StatusOf(e)
                 \/ StatusOf(e) = "accepted" /\ StatusOf(e)' \in Delivery!Ends
  <2> DEFINE S == {e \in Ids : StatusOf(e)' # StatusOf(e)}
             end == [e \in S |-> StatusOf(e)']
  <2>1. \A e \in S : StatusOf(e) = "accepted" /\ StatusOf(e)' \in Delivery!Ends
    BY <1>0, <1>3, <1>4, <1>6
  <2>2. S \in SUBSET {e \in Ids : StatusMap[e] = "accepted"}
    BY <1>2, <2>1
  <2>3. end \in [S -> Delivery!Ends]
    BY <2>1
  <2>4. StatusMap' = [e \in Ids |-> IF e \in S THEN end[e] ELSE StatusMap[e]]
    BY <1>2
  <2> HIDE DEF S, end
  <2>5. Delivery!Finish
    BY <2>2, <2>3, <2>4 DEF Delivery!Finish
  <2> QED BY <1>1, <2>5 DEF Delivery!Next
<1> QED BY <1>5, <1>6, StepStatus

\* The manager implements EventDelivery: an event is accepted once and ends at
\* most once, whatever threads, receivers and changes of the configuration do;
\* and if one thread uses it and receivers neither raise nor call back, every
\* event that is no longer in a call or a list was delivered, silenced or raised.
THEOREM ManagerDelivers == Spec => Delivers
BY DeliveryInit, DeliveryNext, OrderInit, OrderNext, QueueInit, QueueNext, QueueAlways, PTL
   DEF Spec, Delivers, Delivery!Spec
=============================================================================
