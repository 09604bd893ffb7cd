---------------------------- MODULE EventProofs -----------------------------
(***************************************************************************)
(* Proofs about EventManager, for any threads, groups and applications.    *)
(* A place is where an event can be while nothing has become of it: in a   *)
(* call that fires or defers it, at a position of a list, or among the     *)
(* errors that a flush has collected.                                      *)
(***************************************************************************)
EXTENDS EventManager, SequenceTheorems, FiniteSetTheorems, WellFoundedInduction, TLAPS

-----------------------------------------------------------------------------
(* The inductive invariant                                                 *)

Hows == {"delivered", "silenced", "errored", "dropped"}

\* The fields of the manager are what its code makes them.
EventTypeOK ==
    /\ setup \in Setups /\ deferring \in BOOLEAN /\ warnError \in BOOLEAN
    /\ events \in Nat /\ flushes \in Nat
    /\ lists \in Seq(Seq(Event))
    /\ groups \in [Groups -> 0 .. Len(lists)]
    /\ stack \in [Threads -> Seq(Frame)]
    /\ fired \in Seq(Event)
    /\ seen \in [ToSet(Receivers) -> Seq(Event)]
    /\ ended \subseteq [id : Nat, how : Hows]

\* What a call holds, and where it is, when the lists are ls.
FrameOK(f, ls) ==
    /\ f.list <= Len(ls)
    /\ f.op = "flush" => f.at <= (IF f.list = 0 THEN 0 ELSE Len(ls[f.list]))
    /\ f.op = "fire" => f.at <= Len(Receivers)

\* Call g runs within call f: f is a receiver that calls back, or a flush that
\* fires the event at its position.
Within(f, g, ls) ==
    \/ f.op = "fire" /\ f.at >= 1 /\ Receivers[f.at] \in setup.calling
    \/ /\ f.op = "flush" /\ f.list # 0 /\ f.at >= 1
       /\ g.op = "fire" /\ g.ev = ls[f.list][f.at]

StackShape ==
    \A t \in Threads : \A i \in 1 .. Len(stack[t]) :
        /\ t \in setup.threads
        /\ FrameOK(stack[t][i], lists)
        /\ i < Len(stack[t]) => Within(stack[t][i], stack[t][i + 1], lists)

\* Every event that is somewhere has been counted.
IdsAreCounted ==
    /\ \A t \in Threads : \A i \in 1 .. Len(stack[t]) :
          /\ stack[t][i].op # "flush" => stack[t][i].ev.id \in 1 .. events
          /\ stack[t][i].from <= events
    /\ \A l \in 1 .. Len(lists) : \A p \in 1 .. Len(lists[l]) : lists[l][p].id \in 1 .. events
    /\ \A i \in 1 .. Len(fired) : fired[i].id <= events
    /\ \A r \in ToSet(Receivers) : \A i \in 1 .. Len(seen[r]) : seen[r][i].id <= events
    /\ \A x \in ended : x.id \in 1 .. events

\* A list belongs to one group or, once popped, to the flush that popped it.
ListsAreOwned ==
    /\ \A g, h \in Groups : groups[g] = groups[h] /\ groups[g] # 0 => g = h
    /\ \A t \in Threads : \A i \in 1 .. Len(stack[t]) :
          stack[t][i].op = "flush" /\ stack[t][i].list # 0 =>
              /\ \A g \in Groups : groups[g] # stack[t][i].list
              /\ \A u \in Threads : \A j \in 1 .. Len(stack[u]) :
                    stack[u][j].op = "flush" /\ stack[u][j].list = stack[t][i].list
                        => t = u /\ i = j

\* What is in a popped list, and what a thread that found the list before it
\* was popped still appends to it, was made before the flush began.
PoppedIsOld ==
    \A t \in Threads : \A i \in 1 .. Len(stack[t]) :
        stack[t][i].op = "flush" /\ stack[t][i].list # 0 =>
            /\ \A p \in 1 .. Len(lists[stack[t][i].list]) :
                  lists[stack[t][i].list][p].id <= stack[t][i].from
            /\ \A u \in Threads : \A j \in 1 .. Len(stack[u]) :
                  stack[u][j].op = "defer" /\ stack[u][j].list = stack[t][i].list
                      => stack[u][j].ev.id <= stack[t][i].from

\* An event is at one position of one list; an event that is being deferred is
\* in none; one that is being fired is in none or at the position of the flush
\* below; no two calls fire or defer one event.
PlacesAreDistinct ==
    /\ \A l, m \in 1 .. Len(lists) : \A p \in 1 .. Len(lists[l]), q \in 1 .. Len(lists[m]) :
          lists[l][p].id = lists[m][q].id => l = m /\ p = q
    /\ \A t \in Threads : \A i \in 1 .. Len(stack[t]) : stack[t][i].op # "flush" =>
          /\ \A u \in Threads : \A j \in 1 .. Len(stack[u]) :
                stack[u][j].op # "flush" /\ stack[u][j].ev.id = stack[t][i].ev.id
                    => t = u /\ i = j
          /\ \A l \in 1 .. Len(lists) : \A p \in 1 .. Len(lists[l]) :
                lists[l][p].id = stack[t][i].ev.id =>
                    /\ stack[t][i].op = "fire" /\ i > 1
                    /\ stack[t][i - 1].op = "flush"
                    /\ stack[t][i - 1].list = l /\ stack[t][i - 1].at = p

\* The errors a flush has collected are of events it has fired.
RaisedWereFired ==
    \A t \in Threads : \A i \in 1 .. Len(stack[t]) : stack[t][i].op = "flush" =>
        \A e \in stack[t][i].raised :
            /\ stack[t][i].list # 0
            /\ \E p \in 1 .. stack[t][i].at :
                  lists[stack[t][i].list][p].id = e /\ (i < Len(stack[t]) => p < stack[t][i].at)

\* No group and no flush will come to position p of list l any more.
Consumed(l, p) ==
    /\ \A g \in Groups : groups[g] # l
    /\ \A t \in Threads : \A i \in 1 .. Len(stack[t]) :
          stack[t][i].op = "flush" /\ stack[t][i].list = l => p <= stack[t][i].at

\* No call will do anything more with event e.
AtRest(e) ==
    /\ \A t \in Threads : \A i \in 1 .. Len(stack[t]) :
          /\ stack[t][i].op # "flush" => stack[t][i].ev.id # e
          /\ stack[t][i].op = "flush" => e \notin stack[t][i].raised
    /\ \A l \in 1 .. Len(lists) : \A p \in 1 .. Len(lists[l]) :
          lists[l][p].id = e => Consumed(l, p)

\* An event ends once, and then it is at rest.
EndsAreFinal ==
    /\ \A x, y \in ended : x.id = y.id => x = y
    /\ \A x \in ended : AtRest(x.id)

QueueInv ==
    /\ EventTypeOK /\ StackShape /\ IdsAreCounted /\ ListsAreOwned /\ PoppedIsOld
    /\ PlacesAreDistinct /\ RaisedWereFired /\ EndsAreFinal

-----------------------------------------------------------------------------
(* Sequences and stacks                                                    *)

\* A set of numbers up to n that is not empty has a greatest element.
LEMMA MaxIsMax ==
    ASSUME NEW n \in Nat, NEW S \in SUBSET (1 .. n), S # {}
    PROVE  Max(S) \in S /\ \A y \in S : y <= Max(S)
<1> DEFINE T == {n - x : x \in S}
<1>1. T \in SUBSET Nat /\ T # {}
  <2>1. \A x \in S : n - x \in Nat
    OBVIOUS
  <2>2. PICK z \in S : TRUE
    OBVIOUS
  <2>3. n - z \in T
    OBVIOUS
  <2> QED BY <2>1, <2>3
<1>2. \E x \in T : \A y \in T : <<y, x>> \notin OpToRel(<, Nat)
  <2> HIDE DEF T
  <2> QED BY <1>1, NatLessThanWellFounded, WFMin, Zenon
<1>3. PICK m \in T : \A y \in T : ~(y < m)
  BY <1>1, <1>2 DEF OpToRel
<1>4. PICK x \in S : m = n - x
  OBVIOUS
<1>5. \A y \in S : x >= y
  <2> SUFFICES ASSUME NEW y \in S PROVE x >= y
    OBVIOUS
  <2>1. ~(n - y < n - x)
    BY <1>3, <1>4
  <2> QED BY <2>1
<1>6. Max(S) \in S /\ \A y \in S : Max(S) >= y
  BY <1>5 DEF Max
<1>7. \A y \in S : y \in Int
  OBVIOUS
<1> QED BY <1>6, <1>7

\* The first k elements of a sequence.
LEMMA PrefixFacts ==
    ASSUME NEW S, NEW s \in Seq(S), NEW k \in 0 .. Len(s)
    PROVE  /\ SubSeq(s, 1, k) \in Seq(S) /\ Len(SubSeq(s, 1, k)) = k
           /\ \A i \in 1 .. k : SubSeq(s, 1, k)[i] = s[i]
<1>1. \A i \in 1 .. k : s[i] \in S
  OBVIOUS
<1>2. /\ SubSeq(s, 1, k) \in Seq(S)
      /\ Len(SubSeq(s, 1, k)) = IF 1 <= k THEN k - 1 + 1 ELSE 0
      /\ \A i \in 1 .. k - 1 + 1 : SubSeq(s, 1, k)[i] = s[1 + i - 1]
  <2>1. 1 \in Int /\ k \in Int
    OBVIOUS
  <2> QED BY <1>1, <2>1, SubSeqProperties
<1> DEFINE w == SubSeq(s, 1, k)
<1> HIDE DEF w
<1>3. Len(w) = k /\ \A i \in 1 .. k : w[i] = s[i]
  BY <1>2 DEF w
<1> QED BY <1>2, <1>3 DEF w

\* The stack of t keeps its first k calls, and the calls in s are on them.
Keeps(t, k, s) ==
    /\ k \in 0 .. Len(stack[t]) /\ s \in Seq(Frame) /\ Len(s) \in Nat
    /\ stack' \in [Threads -> Seq(Frame)]
    /\ \A u \in Threads \ {t} : stack'[u] = stack[u]
    /\ Len(stack'[t]) = k + Len(s)
    /\ \A i \in 1 .. k : stack'[t][i] = stack[t][i]
    /\ \A j \in 1 .. Len(s) : stack'[t][k + j] = s[j]

LEMMA KeepsPrefix ==
    ASSUME EventTypeOK, NEW t \in Threads, NEW k \in 0 .. Len(stack[t]), NEW s \in Seq(Frame),
           stack' = [stack EXCEPT ![t] = SubSeq(stack[t], 1, k) \o s]
    PROVE  Keeps(t, k, s)
<1> DEFINE front == SubSeq(stack[t], 1, k)
<1>1. stack[t] \in Seq(Frame) /\ stack \in [Threads -> Seq(Frame)]
  BY DEF EventTypeOK
<1>2. front \in Seq(Frame) /\ Len(front) = k /\ \A i \in 1 .. k : front[i] = stack[t][i]
  BY <1>1, PrefixFacts
<1>3. Len(s) \in Nat /\ k \in Nat
  BY <1>1
<1> HIDE DEF front
<1>4. /\ front \o s \in Seq(Frame)
      /\ Len(front \o s) = k + Len(s)
      /\ \A i \in 1 .. k + Len(s) : (front \o s)[i] = IF i <= k THEN front[i] ELSE s[i - k]
  BY <1>2, ConcatProperties
<1>5. \A i \in 1 .. k : (front \o s)[i] = stack[t][i]
  BY <1>2, <1>3, <1>4
<1>6. \A j \in 1 .. Len(s) : (front \o s)[k + j] = s[j]
  BY <1>3, <1>4
<1>7. stack' = [stack EXCEPT ![t] = front \o s]
  BY DEF front
<1>8. stack'[t] = front \o s /\ \A u \in Threads \ {t} : stack'[u] = stack[u]
  BY <1>1, <1>7
<1>9. stack' \in [Threads -> Seq(Frame)]
  BY <1>1, <1>4, <1>7
<1> QED BY <1>3, <1>4, <1>5, <1>6, <1>8, <1>9 DEF Keeps

\* The call on top.
LEMMA TopFacts ==
    ASSUME EventTypeOK, NEW t \in Threads, stack[t] # <<>>
    PROVE  /\ Len(stack[t]) \in Nat \ {0} /\ stack[t] \in Seq(Frame)
           /\ Top(t) = stack[t][Len(stack[t])] /\ Top(t) \in Frame
           /\ Front(stack[t]) = SubSeq(stack[t], 1, Len(stack[t]) - 1)
<1>1. stack[t] \in Seq(Frame)
  BY DEF EventTypeOK
<1>2. Len(stack[t]) \in Nat \ {0}
  BY <1>1, EmptySeq
<1>3. stack[t][Len(stack[t])] \in Frame
  BY <1>1, <1>2
<1> QED BY <1>1, <1>2, <1>3 DEF Top, Last, Front

\* What the operators on stacks do.
LEMMA PushKeeps ==
    ASSUME EventTypeOK, NEW t \in Threads, NEW f \in Frame, Push(t, f)
    PROVE  Keeps(t, Len(stack[t]), <<f>>)
<1>1. stack[t] \in Seq(Frame) /\ Len(stack[t]) \in Nat
  BY LenProperties DEF EventTypeOK
<1>2. Append(stack[t], f) = stack[t] \o <<f>>
  BY <1>1, AppendIsConcat
<1>3. SubSeq(stack[t], 1, Len(stack[t])) = stack[t]
  BY <1>1, SubSeqFull
<1>4. stack' = [stack EXCEPT ![t] = SubSeq(stack[t], 1, Len(stack[t])) \o <<f>>]
  BY <1>2, <1>3 DEF Push
<1>5. Len(stack[t]) \in 0 .. Len(stack[t]) /\ <<f>> \in Seq(Frame)
  BY <1>1
<1> QED BY <1>4, <1>5, KeepsPrefix

LEMMA SetTopKeeps ==
    ASSUME EventTypeOK, NEW t \in Threads, stack[t] # <<>>, NEW f \in Frame, SetTop(t, f)
    PROVE  Keeps(t, Len(stack[t]) - 1, <<f>>)
<1>1. Len(stack[t]) \in Nat \ {0} /\ Front(stack[t]) = SubSeq(stack[t], 1, Len(stack[t]) - 1)
  BY TopFacts
<1>2. stack' = [stack EXCEPT ![t] = SubSeq(stack[t], 1, Len(stack[t]) - 1) \o <<f>>]
  BY <1>1 DEF SetTop
<1>3. Len(stack[t]) - 1 \in 0 .. Len(stack[t]) /\ <<f>> \in Seq(Frame)
  BY <1>1
<1> QED BY <1>2, <1>3, KeepsPrefix

\* The stack is cut to its first k calls.
LEMMA CutKeeps ==
    ASSUME EventTypeOK, NEW t \in Threads, NEW k \in 0 .. Len(stack[t]),
           stack' = [stack EXCEPT ![t] = SubSeq(stack[t], 1, k)]
    PROVE  Keeps(t, k, <<>>)
<1>1. stack[t] \in Seq(Frame) /\ <<>> \in Seq(Frame)
  BY DEF EventTypeOK
<1>2. SubSeq(stack[t], 1, k) \in Seq(Frame)
  BY <1>1, PrefixFacts
<1>3. SubSeq(stack[t], 1, k) = SubSeq(stack[t], 1, k) \o <<>>
  BY <1>2, ConcatEmptySeq
<1>4. stack' = [stack EXCEPT ![t] = SubSeq(stack[t], 1, k) \o <<>>]
  BY <1>3
<1> QED BY <1>1, <1>4, KeepsPrefix

LEMMA PopKeeps ==
    ASSUME EventTypeOK, NEW t \in Threads, stack[t] # <<>>, Pop(t)
    PROVE  Keeps(t, Len(stack[t]) - 1, <<>>)
<1>1. Len(stack[t]) \in Nat \ {0} /\ Front(stack[t]) = SubSeq(stack[t], 1, Len(stack[t]) - 1)
  BY TopFacts
<1>2. stack' = [stack EXCEPT ![t] = SubSeq(stack[t], 1, Len(stack[t]) - 1)]
  BY <1>1 DEF Pop
<1>3. Len(stack[t]) - 1 \in 0 .. Len(stack[t])
  BY <1>1
<1> QED BY <1>2, <1>3, CutKeeps

LEMMA UnwindKeeps ==
    ASSUME EventTypeOK, NEW t \in Threads, stack' = [stack EXCEPT ![t] = <<>>]
    PROVE  Keeps(t, 0, <<>>)
<1>1. stack[t] \in Seq(Frame) /\ Len(stack[t]) \in Nat
  BY LenProperties DEF EventTypeOK
<1>2. SubSeq(stack[t], 1, 0) = <<>>
  BY SubSeqEmpty
<1>3. 0 \in 0 .. Len(stack[t])
  BY <1>1
<1> QED BY <1>2, <1>3, CutKeeps

-----------------------------------------------------------------------------
(* What the actions do, element by element                                 *)

\* A list that is there stays, and what is in it stays at its position.
ListsGrow ==
    /\ Len(lists) <= Len(lists')
    /\ \A l \in 1 .. Len(lists) :
          /\ Len(lists[l]) <= Len(lists'[l])
          /\ \A p \in 1 .. Len(lists[l]) : lists'[l][p] = lists[l][p]

LEMMA ListTypes ==
    ASSUME EventTypeOK
    PROVE  /\ Len(lists) \in Nat
           /\ \A l \in 1 .. Len(lists) : lists[l] \in Seq(Event) /\ Len(lists[l]) \in Nat
           /\ \A l \in 1 .. Len(lists) : \A p \in 1 .. Len(lists[l]) : lists[l][p] \in Event
<1>1. lists \in Seq(Seq(Event))
  BY DEF EventTypeOK
<1>2. Len(lists) \in Nat /\ \A l \in 1 .. Len(lists) : lists[l] \in Seq(Event)
  BY <1>1
<1>3. ASSUME NEW l \in 1 .. Len(lists)
      PROVE  Len(lists[l]) \in Nat /\ \A p \in 1 .. Len(lists[l]) : lists[l][p] \in Event
  <2>1. lists[l] \in Seq(Event)
    BY <1>2
  <2> QED BY <2>1
<1> QED BY <1>2, <1>3

LEMMA StackTypes ==
    ASSUME EventTypeOK, NEW t \in Threads
    PROVE  /\ stack[t] \in Seq(Frame) /\ Len(stack[t]) \in Nat
           /\ \A i \in 1 .. Len(stack[t]) : stack[t][i] \in Frame
<1>1. stack[t] \in Seq(Frame)
  BY DEF EventTypeOK
<1> QED BY <1>1

\* .append(args) puts the event behind the others of its list.
LEMMA AppendArgsFacts ==
    ASSUME EventTypeOK, StackShape, NEW t \in Threads, AppendArgs(t)
    PROVE  LET n == Len(stack[t])
               d == stack[t][n]
               l == d.list
               m == Len(lists[l])
           IN  /\ n \in Nat \ {0} /\ d \in Frame /\ d.op = "defer"
               /\ Keeps(t, n - 1, <<>>)
               /\ l \in 1 .. Len(lists) /\ m \in Nat
               /\ lists' \in Seq(Seq(Event)) /\ Len(lists') = Len(lists)
               /\ \A k \in 1 .. Len(lists) : k # l => lists'[k] = lists[k]
               /\ Len(lists'[l]) = m + 1
               /\ \A p \in 1 .. m : lists'[l][p] = lists[l][p]
               /\ lists'[l][m + 1] = d.ev
               /\ ListsGrow
               /\ UNCHANGED <<config, groups, counts, history>>
<1> DEFINE n == Len(stack[t])
           d == stack[t][n]
           l == d.list
           m == Len(lists[l])
<1>1. /\ n \in Nat \ {0} /\ Top(t) = d /\ d \in Frame /\ d.op = "defer" /\ l # 0
  BY TopFacts DEF AppendArgs, In
<1>2. Keeps(t, n - 1, <<>>)
  BY PopKeeps DEF AppendArgs, In
<1>3. l \in 1 .. Len(lists)
  <2>1. n \in 1 .. Len(stack[t])
    BY <1>1
  <2>2. l <= Len(lists) /\ l \in Nat
    BY <1>1, <2>1 DEF StackShape, FrameOK, Frame
  <2> QED BY <1>1, <2>2, ListTypes
<1>4. lists[l] \in Seq(Event) /\ m \in Nat /\ Len(lists) \in Nat
  BY <1>3, ListTypes
<1>5. d.ev \in Event
  BY <1>1 DEF Frame
<1> DEFINE new == Append(lists[l], d.ev)
<1>6. /\ new \in Seq(Event) /\ Len(new) = m + 1
      /\ \A p \in 1 .. m : new[p] = lists[l][p]
      /\ new[m + 1] = d.ev
  <2> HIDE DEF l, d
  <2> QED BY <1>4, <1>5, AppendProperties
<1>7. lists' = [lists EXCEPT ![l] = new]
  BY <1>1 DEF AppendArgs
<1> HIDE DEF new
<1>8. /\ lists' \in Seq(Seq(Event)) /\ Len(lists') = Len(lists)
      /\ \A k \in 1 .. Len(lists) : lists'[k] = IF k = l THEN new ELSE lists[k]
  <2>1. lists \in Seq(Seq(Event)) /\ new \in Seq(Event) /\ l \in 1 .. Len(lists)
    BY <1>3, <1>6 DEF EventTypeOK
  <2> HIDE DEF l
  <2> QED BY <1>7, <2>1, ExceptSeq
<1>9. ListsGrow
  <2> HIDE DEF l, m
  <2>1. ASSUME NEW k \in 1 .. Len(lists)
        PROVE  /\ Len(lists[k]) <= Len(lists'[k])
               /\ \A p \in 1 .. Len(lists[k]) : lists'[k][p] = lists[k][p]
    <3>1. CASE k = l
      <4>1. Len(lists[k]) = m /\ lists'[k] = new
        BY <1>8, <3>1 DEF m
      <4> QED BY <1>4, <1>6, <3>1, <4>1
    <3>2. CASE k # l
      BY <1>8, <3>2, ListTypes
    <3> QED BY <3>1, <3>2
  <2> QED BY <1>4, <1>8, <2>1 DEF ListsGrow
<1>10. UNCHANGED <<config, groups, counts, history>>
  BY DEF AppendArgs
<1> QED BY <1>1, <1>2, <1>3, <1>4, <1>6, <1>8, <1>9, <1>10

\* defaultdict(list) makes a list that nobody else knows.
LEMMA CreateListFacts ==
    ASSUME EventTypeOK, NEW t \in Threads, CreateList(t)
    PROVE  LET n == Len(stack[t])
               d == stack[t][n]
               l == Len(lists) + 1
           IN  /\ n \in Nat \ {0} /\ d \in Frame /\ d.op = "create"
               /\ [d EXCEPT !.op = "defer", !.list = l] \in Frame
               /\ Keeps(t, n - 1, <<[d EXCEPT !.op = "defer", !.list = l]>>)
               /\ Len(lists) \in Nat
               /\ lists' \in Seq(Seq(Event)) /\ Len(lists') = l
               /\ \A k \in 1 .. Len(lists) : lists'[k] = lists[k]
               /\ lists'[l] = <<>>
               /\ ListsGrow
               /\ groups' = [groups EXCEPT ![d.ev.group] = l] /\ d.ev.group \in Groups
               /\ UNCHANGED <<config, counts, history>>
<1> DEFINE n == Len(stack[t])
           d == stack[t][n]
           l == Len(lists) + 1
           f == [d EXCEPT !.op = "defer", !.list = l]
<1>1. n \in Nat \ {0} /\ Top(t) = d /\ d \in Frame /\ d.op = "create"
  BY TopFacts DEF CreateList, In
<1>2. /\ lists' \in Seq(Seq(Event)) /\ Len(lists') = l
      /\ \A k \in 1 .. Len(lists) : lists'[k] = lists[k]
      /\ lists'[l] = <<>>
  <2>1. lists \in Seq(Seq(Event)) /\ <<>> \in Seq(Event) /\ lists' = Append(lists, <<>>)
    BY DEF EventTypeOK, CreateList
  <2> QED BY <2>1, AppendProperties
<1>3. Len(lists) \in Nat
  BY ListTypes
<1>4. f \in Frame
  <2>1. l \in Nat /\ d \in Frame
    BY <1>1, <1>3
  <2> HIDE DEF l, d
  <2> QED BY <2>1 DEF Frame
<1>5. Keeps(t, n - 1, <<f>>)
  BY <1>1, <1>2, <1>4, SetTopKeeps DEF CreateList, In
<1>6. ListsGrow
  BY <1>2, <1>3, ListTypes DEF ListsGrow
<1>7. groups' = [groups EXCEPT ![d.ev.group] = l] /\ d.ev.group \in Groups
  BY <1>1, <1>2 DEF CreateList, Frame, Event
<1>8. UNCHANGED <<config, counts, history>>
  BY DEF CreateList
<1> QED BY <1>1, <1>2, <1>3, <1>4, <1>5, <1>6, <1>7, <1>8

\* The list of the group is looked up.
LEMMA FindListFacts ==
    ASSUME EventTypeOK, NEW t \in Threads, FindList(t)
    PROVE  \E f \in Frame :
             LET n == Len(stack[t])
                 d == stack[t][n]
             IN  /\ n \in Nat \ {0} /\ d \in Frame /\ d.op = "defer" /\ d.list = 0
                 /\ Keeps(t, n - 1, <<f>>)
                 /\ f.ev = d.ev /\ d.ev.group \in Groups /\ f.list = groups[d.ev.group]
                 /\ f.op = (IF groups[d.ev.group] = 0 THEN "create" ELSE "defer")
                 /\ f.from = d.from
                 /\ UNCHANGED <<config, queues, counts, history>>
<1> DEFINE n == Len(stack[t])
           d == stack[t][n]
           l == groups[d.ev.group]
           f == IF l = 0 THEN [d EXCEPT !.op = "create"] ELSE [d EXCEPT !.list = l]
<1>1. n \in Nat \ {0} /\ Top(t) = d /\ d \in Frame /\ d.op = "defer" /\ d.list = 0
  BY TopFacts DEF FindList, In
<1>2. d.ev.group \in Groups
  BY <1>1 DEF Frame, Event
<1>3. l \in Nat
  BY <1>2, ListTypes DEF EventTypeOK
<1>4. f \in Frame
  BY <1>1, <1>3 DEF Frame
<1>5. Keeps(t, n - 1, <<f>>)
  BY <1>1, <1>4, SetTopKeeps DEF FindList, In
<1>6. f.ev = d.ev /\ f.list = l /\ f.op = (IF l = 0 THEN "create" ELSE "defer") /\ f.from = d.from
  BY <1>1 DEF Frame
<1>7. UNCHANGED <<config, queues, counts, history>>
  BY DEF FindList
<1> HIDE DEF f
<1> QED BY <1>1, <1>2, <1>4, <1>5, <1>6, <1>7

\* What the assumption on applications says of the one that runs.
LEMMA SetupFacts ==
    ASSUME EventTypeOK
    PROVE  /\ setup.threads \subseteq Threads
           /\ setup.kinds \subseteq AllKinds /\ setup.groups \subseteq Groups
           /\ Receivers \in Seq(ToSet(Receivers)) /\ Len(Receivers) \in Nat \ {0}
           /\ \A i \in 1 .. Len(Receivers) : Receivers[i] \in ToSet(Receivers)
           /\ setup.broken \subseteq ToSet(Receivers) /\ setup.calling \subseteq ToSet(Receivers)
<1>1. /\ setup.threads \subseteq Threads
      /\ setup.kinds \subseteq AllKinds /\ setup.groups \subseteq Groups
      /\ Receivers \in Seq(ToSet(Receivers)) /\ Receivers # <<>>
      /\ setup.broken \cup setup.calling \subseteq ToSet(Receivers)
  BY SetupsAssumption DEF EventTypeOK, Receivers
<1>2. Len(Receivers) \in Nat \ {0}
  BY <1>1, EmptySeq
<1>3. \A i \in 1 .. Len(Receivers) : Receivers[i] \in ToSet(Receivers)
  BY <1>1, ElementOfSeq
<1> QED BY <1>1, <1>2, <1>3

\* Who may call the manager: a thread that is in no call, or in a receiver.
LEMMA MayCallFacts ==
    ASSUME EventTypeOK, NEW t \in Threads, MayCall(t)
    PROVE  LET n == Len(stack[t]) IN
           /\ t \in setup.threads /\ n \in Nat
           /\ n > 0 => /\ stack[t][n].op = "fire" /\ stack[t][n].at \in Nat /\ stack[t][n].at >= 1
                       /\ Receivers[stack[t][n].at] \in setup.calling
<1>1. t \in setup.threads /\ Len(stack[t]) \in Nat
  BY StackTypes DEF MayCall
<1>2. CASE stack[t] = <<>>
  BY <1>1, <1>2
<1>3. CASE stack[t] # <<>>
  <2>1. Top(t) = stack[t][Len(stack[t])] /\ Top(t) \in Frame
    BY <1>3, TopFacts
  <2>2. Top(t).op = "fire" /\ Top(t).at > 0 /\ Receivers[Top(t).at] \in setup.calling
    BY <1>3 DEF MayCall, In
  <2>3. Top(t).at \in Nat /\ Top(t).at >= 1
    BY <2>1, <2>2 DEF Frame
  <2> QED BY <1>1, <2>1, <2>2, <2>3
<1> QED BY <1>2, <1>3

\* A new event is fired, or deferred.
LEMMA NewEventType ==
    ASSUME EventTypeOK, NEW k \in setup.kinds, NEW g \in setup.groups, NEW b \in BOOLEAN
    PROVE  NewEvent(k, g, b) \in Event
<1>1. events + 1 \in Nat /\ k \in AllKinds /\ g \in Groups
  BY SetupFacts DEF EventTypeOK
<1>2. CASE b = TRUE
  BY <1>1, <1>2 DEF NewEvent, Event
<1>3. CASE b = FALSE
  BY <1>1, <1>3 DEF NewEvent, Event
<1> QED BY <1>2, <1>3

LEMMA FireFacts ==
    ASSUME EventTypeOK, NEW t \in Threads, Fire(t)
    PROVE  \E f \in Frame :
             /\ Keeps(t, Len(stack[t]), <<f>>)
             /\ f.op = "fire" /\ f.at = 0 /\ f.list = 0 /\ f.raised = {} /\ f.from = 0
             /\ f.ev.id = events + 1 /\ f.ev.deferred = FALSE
             /\ events' = events + 1
             /\ UNCHANGED <<config, queues, flushes, history>>
<1>1. PICK k \in setup.kinds, g \in setup.groups : Push(t, FireFrame(NewEvent(k, g, FALSE)))
  BY DEF Fire
<1> DEFINE f == FireFrame(NewEvent(k, g, FALSE))
<1>2. f \in Frame
  BY NewEventType DEF FireFrame, Frame
<1>3. Keeps(t, Len(stack[t]), <<f>>)
  BY <1>1, <1>2, PushKeeps
<1>4. /\ f.op = "fire" /\ f.at = 0 /\ f.list = 0 /\ f.raised = {} /\ f.from = 0
      /\ f.ev.id = events + 1 /\ f.ev.deferred = FALSE
  BY DEF FireFrame, NewEvent
<1> HIDE DEF f
<1> QED BY <1>2, <1>3, <1>4 DEF Fire

LEMMA DeferFacts ==
    ASSUME EventTypeOK, NEW t \in Threads, Defer(t)
    PROVE  \E f \in Frame :
             /\ Keeps(t, Len(stack[t]), <<f>>)
             /\ f.op = "defer" /\ f.at = 0 /\ f.list = 0 /\ f.raised = {} /\ f.from = 0
             /\ f.ev.id = events + 1
             /\ events' = events + 1
             /\ UNCHANGED <<config, queues, flushes, history>>
<1>1. PICK k \in setup.kinds, g \in setup.groups : Push(t, DeferFrame(NewEvent(k, g, TRUE)))
  BY DEF Defer
<1> DEFINE f == DeferFrame(NewEvent(k, g, TRUE))
<1>2. f \in Frame
  BY NewEventType DEF DeferFrame, Frame
<1>3. Keeps(t, Len(stack[t]), <<f>>)
  BY <1>1, <1>2, PushKeeps
<1>4. /\ f.op = "defer" /\ f.at = 0 /\ f.list = 0 /\ f.raised = {} /\ f.from = 0
      /\ f.ev.id = events + 1
  BY DEF DeferFrame, NewEvent
<1> HIDE DEF f
<1> QED BY <1>2, <1>3, <1>4 DEF Defer

\* A flush takes the list of a group, and makes its call with it.
Pops(t, g, f) ==
    /\ Keeps(t, Len(stack[t]), <<f>>)
    /\ f.op = "flush" /\ f.at = 0 /\ f.list = groups[g] /\ f.raised = {} /\ f.from = events
    /\ groups' = [groups EXCEPT ![g] = 0]

\* The group is popped: the flush has its list, and the group has none.
LEMMA FlushPops ==
    ASSUME EventTypeOK, NEW t \in Threads, Flush(t)
    PROVE  \E g \in Groups, f \in Frame : Pops(t, g, f)
<1>1. PICK g \in setup.groups : /\ Push(t, FlushFrame(groups[g]))
                                /\ groups' = [groups EXCEPT ![g] = 0]
  BY DEF Flush
<1>2. g \in Groups
  BY SetupFacts
<1> DEFINE f == FlushFrame(groups[g])
<1>3. NoEvent \in Event
  <2>1. (CHOOSE h \in Groups : TRUE) \in Groups
    BY <1>2
  <2> QED BY <2>1 DEF NoEvent, Event, AllKinds
<1>4. groups[g] \in Nat /\ events \in Nat
  BY <1>2, ListTypes DEF EventTypeOK
<1>5. f \in Frame
  BY <1>3, <1>4 DEF FlushFrame, Frame
<1>6. Keeps(t, Len(stack[t]), <<f>>)
  BY <1>1, <1>5, PushKeeps
<1>7. f.op = "flush" /\ f.at = 0 /\ f.list = groups[g] /\ f.raised = {} /\ f.from = events
  BY DEF FlushFrame
<1> HIDE DEF f
<1>8. Pops(t, g, f)
  BY <1>1, <1>6, <1>7 DEF Pops
<1> QED BY <1>2, <1>5, <1>8

LEMMA FlushFacts ==
    ASSUME EventTypeOK, NEW t \in Threads, Flush(t)
    PROVE  \E g \in Groups, f \in Frame :
             /\ Keeps(t, Len(stack[t]), <<f>>)
             /\ f.op = "flush" /\ f.at = 0 /\ f.list = groups[g] /\ f.raised = {} /\ f.from = events
             /\ groups' = [groups EXCEPT ![g] = 0]
             /\ flushes' = flushes + 1
             /\ UNCHANGED <<config, lists, events, history>>
<1>1. PICK g \in Groups, f \in Frame : Pops(t, g, f)
  BY FlushPops
<1>2. flushes' = flushes + 1 /\ UNCHANGED <<config, lists, events, history>>
  BY DEF Flush
<1> QED BY <1>1, <1>2 DEF Pops

\* What a flush has still to fire.
LEMMA RemainingFacts ==
    ASSUME EventTypeOK, NEW f \in Frame, FrameOK(f, lists), f.op = "flush"
    PROVE  /\ f.list \in 0 .. Len(lists)
           /\ Remaining(f) = <<>> <=> f.list = 0 \/ f.at = Len(lists[f.list])
           /\ f.list # 0 =>
                /\ f.at \in 0 .. Len(lists[f.list])
                /\ {e.id : e \in ToSet(Remaining(f))}
                      = {lists[f.list][p].id : p \in f.at + 1 .. Len(lists[f.list])}
                /\ Remaining(f) # <<>> => Remaining(f)[1] = lists[f.list][f.at + 1]
           /\ f.list = 0 => {e.id : e \in ToSet(Remaining(f))} = {}
<1>1. f.list \in 0 .. Len(lists)
  BY ListTypes DEF FrameOK, Frame
<1>2. CASE f.list = 0
  <2>1. Remaining(f) = <<>>
    BY <1>2 DEF Remaining
  <2>2. ToSet(<<>>) = {}
    BY DEF ToSet
  <2> QED BY <1>1, <1>2, <2>1, <2>2
<1>3. CASE f.list # 0
  <2> DEFINE s == lists[f.list]
             m == Len(s)
             k == f.at
             w == SubSeq(s, k + 1, m)
  <2>1. s \in Seq(Event) /\ m \in Nat /\ k \in 0 .. m
    BY <1>1, <1>3, ListTypes DEF FrameOK, Frame
  <2>2. Remaining(f) = w
    BY <1>3 DEF Remaining
  <2>3. /\ w \in Seq(Event) /\ Len(w) = m - k
        /\ \A i \in 1 .. m - k : w[i] = s[k + i]
    <3> HIDE DEF s, m, k
    <3>1. \A i \in k + 1 .. m : s[i] \in Event
      BY <2>1 DEF m
    <3>2. k + 1 \in Int /\ m \in Int
      BY <2>1
    <3>3. /\ w \in Seq(Event)
          /\ Len(w) = IF k + 1 <= m THEN m - (k + 1) + 1 ELSE 0
          /\ \A i \in 1 .. m - (k + 1) + 1 : w[i] = s[(k + 1) + i - 1]
      BY <3>1, <3>2, SubSeqProperties
    <3> HIDE DEF w
    <3>4. Len(w) = m - k
      BY <2>1, <3>3
    <3>5. ASSUME NEW i \in 1 .. m - k PROVE w[i] = s[k + i]
      <4>1. i \in Nat /\ (k + 1) + i - 1 = k + i /\ m - (k + 1) + 1 = m - k
        BY <2>1
      <4> QED BY <3>3, <4>1
    <3> QED BY <3>3, <3>4, <3>5
  <2> HIDE DEF s, m, k, w
  <2>4. w = <<>> <=> k = m
    BY <2>1, <2>3, EmptySeq
  <2>5. ToSet(w) = {w[i] : i \in 1 .. m - k}
    BY <2>3, LenProperties DEF ToSet
  <2>6. {e.id : e \in ToSet(w)} = {s[p].id : p \in k + 1 .. m}
    <3>1. ASSUME NEW e \in ToSet(w) PROVE e.id \in {s[p].id : p \in k + 1 .. m}
      <4>1. PICK i \in 1 .. m - k : e = w[i]
        BY <2>5
      <4>2. k + i \in k + 1 .. m /\ e = s[k + i]
        BY <2>1, <2>3, <4>1
      <4> QED BY <4>2
    <3>2. ASSUME NEW p \in k + 1 .. m PROVE s[p].id \in {e.id : e \in ToSet(w)}
      <4>1. p - k \in 1 .. m - k /\ k + (p - k) = p
        BY <2>1
      <4>2. w[p - k] = s[p] /\ w[p - k] \in ToSet(w)
        BY <2>3, <2>5, <4>1
      <4> QED BY <4>2
    <3> QED BY <3>1, <3>2
  <2>7. w # <<>> => w[1] = s[k + 1]
    BY <2>1, <2>3, <2>4
  <2>8. f.list # 0 /\ k = f.at /\ s = lists[f.list] /\ m = Len(lists[f.list])
    BY <1>3 DEF s, m, k
  <2> QED BY <1>1, <2>1, <2>2, <2>4, <2>6, <2>7, <2>8
<1> QED BY <1>2, <1>3

\* The next event of the list is fired.
LEMMA FlushNextFacts ==
    ASSUME EventTypeOK, StackShape, NEW t \in Threads, FlushNext(t)
    PROVE  LET n == Len(stack[t])
               d == stack[t][n]
               f == [d EXCEPT !.at = @ + 1]
               g == FireFrame(lists[d.list][d.at + 1])
           IN  /\ n \in Nat \ {0} /\ d \in Frame /\ d.op = "flush"
               /\ d.list \in 1 .. Len(lists) /\ d.at \in Nat /\ d.at + 1 \in 1 .. Len(lists[d.list])
               /\ f \in Frame /\ g \in Frame
               /\ Keeps(t, n - 1, <<f, g>>)
               /\ UNCHANGED <<config, queues, counts, history>>
<1> DEFINE n == Len(stack[t])
           d == stack[t][n]
           f == [d EXCEPT !.at = @ + 1]
           g == FireFrame(lists[d.list][d.at + 1])
<1>1. /\ n \in Nat \ {0} /\ Top(t) = d /\ d \in Frame /\ d.op = "flush"
      /\ Front(stack[t]) = SubSeq(stack[t], 1, n - 1) /\ Remaining(d) # <<>>
  BY TopFacts DEF FlushNext, In
<1>2. FrameOK(d, lists)
  <2>1. n \in 1 .. Len(stack[t])
    BY <1>1
  <2> QED BY <2>1 DEF StackShape
<1>3. /\ d.list \in 1 .. Len(lists) /\ d.at \in Nat /\ d.at + 1 \in 1 .. Len(lists[d.list])
      /\ Remaining(d)[1] = lists[d.list][d.at + 1]
  <2>1. /\ d.list \in 0 .. Len(lists) /\ d.list # 0 /\ d.at # Len(lists[d.list])
        /\ d.at \in 0 .. Len(lists[d.list])
        /\ Remaining(d)[1] = lists[d.list][d.at + 1]
    BY <1>1, <1>2, RemainingFacts
  <2>2. d.list \in 1 .. Len(lists)
    BY <2>1, ListTypes
  <2>3. Len(lists[d.list]) \in Nat
    BY <2>2, ListTypes
  <2> HIDE DEF d
  <2> QED BY <2>1, <2>2, <2>3
<1>4. lists[d.list][d.at + 1] \in Event
  BY <1>3, ListTypes
<1>5. f \in Frame /\ g \in Frame
  <2> HIDE DEF d
  <2>1. f \in Frame
    <3>1. d.at + 1 \in Nat
      BY <1>3
    <3>2. ASSUME NEW k \in Nat PROVE [d EXCEPT !.at = k] \in Frame
      BY <1>1 DEF Frame
    <3> QED BY <3>1, <3>2
  <2>2. g \in Frame
    BY <1>4 DEF Frame, FireFrame
  <2> QED BY <2>1, <2>2
<1>6. stack' = [stack EXCEPT ![t] = SubSeq(stack[t], 1, n - 1) \o <<f, g>>]
  BY <1>1, <1>3 DEF FlushNext
<1>7. Keeps(t, n - 1, <<f, g>>)
  <2>1. n - 1 \in 0 .. Len(stack[t]) /\ <<f, g>> \in Seq(Frame)
    BY <1>1, <1>5
  <2> QED BY <1>6, <2>1, KeepsPrefix
<1>8. UNCHANGED <<config, queues, counts, history>>
  BY DEF FlushNext
<1> QED BY <1>1, <1>3, <1>5, <1>7, <1>8

\* A receiver is given the event.
LEMMA GiveFacts ==
    ASSUME EventTypeOK, NEW t \in Threads, FireFirst(t) \/ FireNext(t)
    PROVE  LET n == Len(stack[t])
               d == stack[t][n]
           IN  \E r \in 1 .. Len(Receivers) :
                 /\ n \in Nat \ {0} /\ d \in Frame /\ d.op = "fire" /\ r = d.at + 1
                 /\ [d EXCEPT !.at = r] \in Frame
                 /\ Keeps(t, n - 1, <<[d EXCEPT !.at = r]>>)
                 /\ seen' = [seen EXCEPT ![Receivers[r]] = Append(seen[Receivers[r]], d.ev)]
                 /\ \/ d.at = 0 /\ fired' = Append(fired, d.ev)
                    \/ d.at > 0 /\ fired' = fired
                 /\ UNCHANGED <<config, queues, counts, ended>>
<1> DEFINE n == Len(stack[t])
           d == stack[t][n]
           r == d.at + 1
<1>1. n \in Nat \ {0} /\ Top(t) = d /\ d \in Frame /\ d.op = "fire" /\ stack[t] # <<>>
  BY TopFacts DEF FireFirst, FireNext, Deciding, In
<1>2. d.at \in Nat
  BY <1>1 DEF Frame
<1>3. r \in 1 .. Len(Receivers) /\ Give(t, r)
  <2>1. CASE FireFirst(t)
    BY <1>1, <2>1, SetupFacts DEF FireFirst, Deciding
  <2>2. CASE FireNext(t)
    BY <1>1, <1>2, <2>2, SetupFacts DEF FireNext
  <2> QED BY <2>1, <2>2
<1>4. [d EXCEPT !.at = r] \in Frame
  <2>1. r \in Nat
    BY <1>2
  <2> HIDE DEF r, d
  <2> QED BY <1>1, <2>1 DEF Frame
<1>5. Keeps(t, n - 1, <<[d EXCEPT !.at = r]>>)
  BY <1>1, <1>3, <1>4, SetTopKeeps DEF Give
<1>6. seen' = [seen EXCEPT ![Receivers[r]] = Append(seen[Receivers[r]], d.ev)]
  BY <1>1, <1>3 DEF Give
<1>7. \/ d.at = 0 /\ fired' = Append(fired, d.ev)
      \/ d.at > 0 /\ fired' = fired
  BY <1>1, <1>2 DEF FireFirst, FireNext, Deciding, LogFired
<1>8. UNCHANGED <<config, queues, counts, ended>>
  BY DEF FireFirst, FireNext
<1> HIDE DEF r, d
<1> QED BY <1>1, <1>3, <1>4, <1>5, <1>6, <1>7, <1>8 DEF r, d

\* The call on top ends: a flush that is done, or an event that got its end.
LEMMA FlushEndFacts ==
    ASSUME EventTypeOK, StackShape, NEW t \in Threads, FlushEnd(t)
    PROVE  LET n == Len(stack[t])
               d == stack[t][n]
           IN  /\ n \in Nat \ {0} /\ d \in Frame /\ d.op = "flush" /\ d.raised = {}
               /\ Remaining(d) = <<>>
               /\ Keeps(t, n - 1, <<>>)
               /\ UNCHANGED <<config, queues, counts, history>>
<1>1. stack[t] # <<>>
  BY DEF FlushEnd, In
<1>2. Keeps(t, Len(stack[t]) - 1, <<>>)
  BY <1>1, PopKeeps DEF FlushEnd
<1> QED BY <1>1, <1>2, TopFacts DEF FlushEnd, In

LEMMA FireOverFacts ==
    ASSUME EventTypeOK, NEW t \in Threads, FireSilenced(t) \/ FireEnd(t)
    PROVE  LET n == Len(stack[t])
               d == stack[t][n]
           IN  /\ n \in Nat \ {0} /\ d \in Frame /\ d.op = "fire"
               /\ Keeps(t, n - 1, <<>>)
               /\ \/ d.at = 0 /\ fired' = Append(fired, d.ev) /\ EndAll({d.ev.id}, "silenced")
                  \/ d.at > 0 /\ fired' = fired /\ EndAll({d.ev.id}, "delivered")
               /\ UNCHANGED <<config, queues, counts, seen>>
<1> DEFINE n == Len(stack[t])
           d == stack[t][n]
<1>1. n \in Nat \ {0} /\ Top(t) = d /\ d \in Frame /\ d.op = "fire" /\ stack[t] # <<>>
  BY TopFacts DEF FireSilenced, FireEnd, Deciding, In
<1>2. Keeps(t, n - 1, <<>>)
  BY <1>1, PopKeeps DEF FireSilenced, FireEnd
<1>3. \/ d.at = 0 /\ fired' = Append(fired, d.ev) /\ EndAll({d.ev.id}, "silenced")
      \/ d.at > 0 /\ fired' = fired /\ EndAll({d.ev.id}, "delivered")
  <2>1. CASE FireSilenced(t)
    BY <1>1, <2>1 DEF FireSilenced, Deciding, LogFired
  <2>2. CASE FireEnd(t)
    BY <1>1, <2>2, SetupFacts DEF FireEnd
  <2> QED BY <2>1, <2>2
<1>4. UNCHANGED <<config, queues, counts, seen>>
  BY DEF FireSilenced, FireEnd
<1> QED BY <1>1, <1>2, <1>3, <1>4

\* What an exception of a receiver unwinds.
LEMMA ReceiverRaisesFacts ==
    ASSUME EventTypeOK, NEW t \in Threads, ReceiverRaises(t)
    PROVE  /\ Len(stack[t]) \in Nat \ {0} /\ setup.broken # {}
           /\ Keeps(t, 0, <<>>)
           /\ EndAll(UnfinishedIn(stack[t]), "dropped")
           /\ UNCHANGED <<config, queues, counts, fired, seen>>
<1>1. stack[t] # <<>> /\ setup.broken # {}
  BY DEF ReceiverRaises, In
<1> QED BY <1>1, TopFacts, UnwindKeeps DEF ReceiverRaises

\* The events that calls which are no flushes leave unfinished are their own.
LEMMA UnfinishedOfFires ==
    ASSUME EventTypeOK, NEW s \in Seq(Frame), \A i \in 1 .. Len(s) : s[i].op # "flush"
    PROVE  UnfinishedIn(s) = {s[i].ev.id : i \in 1 .. Len(s)}
<1>1. ToSet(s) = {s[i] : i \in 1 .. Len(s)}
  BY LenProperties DEF ToSet
<1>2. \A i \in 1 .. Len(s) : Unfinished(s[i]) = {s[i].ev.id}
  BY DEF Unfinished
<1>3. ASSUME NEW e \in UnfinishedIn(s) PROVE e \in {s[i].ev.id : i \in 1 .. Len(s)}
  <2>1. PICK f \in ToSet(s) : e \in Unfinished(f)
    BY DEF UnfinishedIn
  <2> QED BY <1>1, <1>2, <2>1
<1>4. ASSUME NEW i \in 1 .. Len(s) PROVE s[i].ev.id \in UnfinishedIn(s)
  <2>1. s[i] \in ToSet(s) /\ s[i].ev.id \in Unfinished(s[i])
    BY <1>1, <1>2
  <2> QED BY <2>1 DEF UnfinishedIn
<1> QED BY <1>3, <1>4

\* An EventCompilationError in the call on top that names the events in named:
\* no flush is below and all the calls are over, or it ends at a flush, which
\* has collected the event it was firing.
Unwinds(t, named) ==
    LET n == Len(stack[t]) IN
    /\ \A i \in 1 .. n - 1 : stack[t][i].op # "flush"
    /\ Keeps(t, 0, <<>>)
    /\ ended' = ended \cup {[id |-> e, how |-> "errored"] : e \in named}
                      \cup {[id |-> e, how |-> "dropped"] :
                               e \in {stack[t][i].ev.id : i \in 1 .. n - 1}}

Caught(t, named, k, f) ==
    LET n == Len(stack[t])
        cur == stack[t][k + 1].ev.id
    IN  /\ k \in 1 .. n - 1 /\ stack[t][k].op = "flush" /\ stack[t][k + 1].op = "fire"
        /\ stack[t][k].list \in 1 .. Len(lists) /\ stack[t][k].at >= 1
        /\ stack[t][k + 1].ev = lists[stack[t][k].list][stack[t][k].at]
        /\ \A i \in k + 1 .. n - 1 : stack[t][i].op # "flush"
        /\ f = [stack[t][k] EXCEPT !.raised = @ \cup {cur}] /\ f \in Frame
        /\ Keeps(t, k - 1, <<f>>)
        /\ EndAll((named \cup {stack[t][i].ev.id : i \in k + 1 .. n - 1}) \ {cur}, "dropped")

LEMMA RaiseFacts ==
    ASSUME EventTypeOK, StackShape, IdsAreCounted, NEW t \in Threads, stack[t] # <<>>,
           NEW named, RaiseCompilation(t, Front(stack[t]), named)
    PROVE  Unwinds(t, named) \/ \E k \in 1 .. Len(stack[t]) - 1, f \in Frame : Caught(t, named, k, f)
<1> DEFINE n == Len(stack[t])
           frames == SubSeq(stack[t], 1, n - 1)
<1>1. n \in Nat \ {0} /\ stack[t] \in Seq(Frame) /\ Front(stack[t]) = frames
  BY TopFacts
<1>2. n - 1 \in 0 .. Len(stack[t])
  BY <1>1
<1>3. frames \in Seq(Frame) /\ Len(frames) = n - 1 /\ \A i \in 1 .. n - 1 : frames[i] = stack[t][i]
  BY <1>1, <1>2, PrefixFacts
<1> HIDE DEF frames
<1>4. DOMAIN frames = 1 .. n - 1
  BY <1>3, LenProperties
<1>5. Flushing(frames) = {i \in 1 .. n - 1 : stack[t][i].op = "flush"}
  BY <1>3, <1>4 DEF Flushing
<1>6. RaiseCompilation(t, frames, named)
  BY <1>1
<1>7. CASE Flushing(frames) = {}
  <2>1. \A i \in 1 .. n - 1 : stack[t][i].op # "flush" /\ frames[i].op # "flush"
    BY <1>3, <1>5, <1>7
  <2>2. stack' = [stack EXCEPT ![t] = <<>>]
        /\ ended' = ended \cup {[id |-> i, how |-> "errored"] : i \in named}
                          \cup {[id |-> i, how |-> "dropped"] : i \in UnfinishedIn(frames)}
    BY <1>6, <1>7 DEF RaiseCompilation
  <2>3. Keeps(t, 0, <<>>)
    BY <2>2, UnwindKeeps
  <2>4. UnfinishedIn(frames) = {frames[i].ev.id : i \in 1 .. n - 1}
    BY <1>3, <2>1, UnfinishedOfFires
  <2>5. {frames[i].ev.id : i \in 1 .. n - 1} = {stack[t][i].ev.id : i \in 1 .. n - 1}
    BY <1>3
  <2> QED BY <2>1, <2>2, <2>3, <2>4, <2>5 DEF Unwinds
<1>8. CASE Flushing(frames) # {}
  <2> DEFINE k == Max(Flushing(frames))
             above == SubSeq(frames, k + 1, Len(frames))
             cur == stack[t][k + 1].ev.id
             f == [stack[t][k] EXCEPT !.raised = @ \cup {cur}]
  <2>1. k \in Flushing(frames) /\ \A y \in Flushing(frames) : y <= k
    <3>1. Flushing(frames) \in SUBSET (1 .. n - 1) /\ n - 1 \in Nat
      BY <1>1, <1>5
    <3> QED BY <1>8, <3>1, MaxIsMax
  <2>2. k \in 1 .. n - 1 /\ stack[t][k].op = "flush"
    BY <1>5, <2>1
  <2>3. \A i \in k + 1 .. n - 1 : stack[t][i].op # "flush"
    <3> HIDE DEF k
    <3> QED BY <1>1, <1>5, <2>1, <2>2
  <2>4. /\ stack[t][k].list \in 1 .. Len(lists) /\ stack[t][k].at >= 1
        /\ stack[t][k + 1].op = "fire"
        /\ stack[t][k + 1].ev = lists[stack[t][k].list][stack[t][k].at]
    <3> HIDE DEF k
    <3>1. k \in 1 .. Len(stack[t]) /\ k < Len(stack[t])
      BY <1>1, <2>2
    <3>2. FrameOK(stack[t][k], lists) /\ Within(stack[t][k], stack[t][k + 1], lists)
      BY <3>1 DEF StackShape
    <3>3. stack[t][k] \in Frame
      BY <3>1, StackTypes
    <3>4. stack[t][k].list # 0 /\ stack[t][k].list \in Nat /\ stack[t][k].list <= Len(lists)
      BY <2>2, <3>2, <3>3 DEF Within, FrameOK, Frame
    <3> QED BY <2>2, <3>2, <3>4, ListTypes DEF Within
  <2>5. f \in Frame
    <3> HIDE DEF k
    <3>1. k \in 1 .. Len(stack[t]) /\ k + 1 \in 1 .. Len(stack[t])
      BY <1>1, <2>2
    <3>2. stack[t][k] \in Frame
      BY <3>1, StackTypes
    <3>3. cur \in Nat \ {0}
      <4>1. stack[t][k + 1].op # "flush"
        BY <2>4
      <4>2. cur \in 1 .. events
        BY <3>1, <4>1 DEF IdsAreCounted
      <4> QED BY <4>2 DEF EventTypeOK
    <3> HIDE DEF cur
    <3> QED BY <3>2, <3>3 DEF Frame
  <2>6. frames[k] = stack[t][k] /\ SubSeq(frames, 1, k - 1) = SubSeq(stack[t], 1, k - 1)
    <3>1. frames[k] = stack[t][k]
      BY <1>3, <2>2
    <3> DEFINE a == SubSeq(frames, 1, k - 1)
               b == SubSeq(stack[t], 1, k - 1)
    <3>2. /\ a \in Seq(Frame) /\ Len(a) = k - 1 /\ \A i \in 1 .. k - 1 : a[i] = frames[i]
          /\ b \in Seq(Frame) /\ Len(b) = k - 1 /\ \A i \in 1 .. k - 1 : b[i] = stack[t][i]
      <4> HIDE DEF k
      <4>1. k - 1 \in 0 .. Len(frames) /\ k - 1 \in 0 .. Len(stack[t])
        BY <1>1, <1>3, <2>2
      <4> QED BY <1>1, <1>3, <4>1, PrefixFacts
    <3>3. \A i \in 1 .. k - 1 : i \in 1 .. n - 1
      <4> HIDE DEF k
      <4> QED BY <1>1, <2>2
    <3> HIDE DEF a, b
    <3>4. a = b
      BY <1>3, <3>2, <3>3, SeqEqual
    <3> QED BY <3>1, <3>4 DEF a, b
  <2>7. UnfinishedIn(above) = {stack[t][i].ev.id : i \in k + 1 .. n - 1}
    <3> HIDE DEF k
    <3>1. k + 1 \in Int /\ Len(frames) \in Int /\ \A i \in k + 1 .. Len(frames) : frames[i] \in Frame
      BY <1>1, <1>3, <2>2
    <3>2. /\ above \in Seq(Frame)
          /\ Len(above) = IF k + 1 <= Len(frames) THEN Len(frames) - (k + 1) + 1 ELSE 0
          /\ \A i \in 1 .. Len(frames) - (k + 1) + 1 : above[i] = frames[(k + 1) + i - 1]
      BY <3>1, SubSeqProperties
    <3> HIDE DEF above
    <3>3. Len(above) = n - 1 - k /\ \A i \in 1 .. n - 1 - k : above[i] = stack[t][k + i]
      <4>1. \A i \in 1 .. n - 1 - k : k + i \in 1 .. n - 1 /\ (k + 1) + i - 1 = k + i
        BY <1>1, <2>2
      <4> QED BY <1>1, <1>3, <2>2, <3>2, <4>1
    <3>4. \A i \in 1 .. n - 1 - k : k + i \in k + 1 .. n - 1
      BY <1>1, <2>2
    <3>5. \A i \in 1 .. Len(above) : above[i].op # "flush"
      BY <2>3, <3>3, <3>4
    <3>6. UnfinishedIn(above) = {above[i].ev.id : i \in 1 .. n - 1 - k}
      BY <3>2, <3>3, <3>5, UnfinishedOfFires
    <3>7. ASSUME NEW i \in k + 1 .. n - 1
          PROVE  i - k \in 1 .. n - 1 - k /\ above[i - k] = stack[t][i]
      <4>1. i - k \in 1 .. n - 1 - k /\ k + (i - k) = i
        BY <1>1, <2>2
      <4> QED BY <3>3, <4>1
    <3>8. {above[i].ev.id : i \in 1 .. n - 1 - k} = {stack[t][i].ev.id : i \in k + 1 .. n - 1}
      <4> DEFINE F(i) == above[i].ev.id
                 G(j) == stack[t][j].ev.id
                 I == 1 .. n - 1 - k
                 J == k + 1 .. n - 1
      <4>1. \A i \in I : \E j \in J : F(i) = G(j)
        BY <3>3, <3>4
      <4>2. \A j \in J : \E i \in I : F(i) = G(j)
        BY <3>7
      <4>3. {F(i) : i \in I} = {G(j) : j \in J}
        <5> HIDE DEF F, G, I, J
        <5> QED BY <4>1, <4>2
      <4> QED BY <4>3
    <3> QED BY <3>6, <3>8
  <2>8. /\ stack' = [stack EXCEPT ![t] = SubSeq(stack[t], 1, k - 1) \o <<f>>]
        /\ EndAll((named \cup {stack[t][i].ev.id : i \in k + 1 .. n - 1}) \ {cur}, "dropped")
    <3>1. lists[frames[k].list][frames[k].at].id = cur
      BY <2>4, <2>6
    <3>2. /\ stack' = [stack EXCEPT ![t] = SubSeq(frames, 1, k - 1)
                         \o <<[frames[k] EXCEPT !.raised = @ \cup
                                 {lists[frames[k].list][frames[k].at].id}]>>]
          /\ EndAll((named \cup UnfinishedIn(above))
                        \ {lists[frames[k].list][frames[k].at].id}, "dropped")
      BY <1>6, <1>8 DEF RaiseCompilation
    <3> HIDE DEF k, above, cur
    <3> QED BY <2>6, <2>7, <3>1, <3>2
  <2>9. Keeps(t, k - 1, <<f>>)
    <3>1. k - 1 \in 0 .. Len(stack[t])
      <4> HIDE DEF k
      <4> QED BY <1>1, <2>2
    <3>2. <<f>> \in Seq(Frame)
      BY <2>5
    <3> HIDE DEF k, f
    <3> QED BY <2>8, <3>1, <3>2, KeepsPrefix
  <2>10. Caught(t, named, k, f)
    <3> HIDE DEF k
    <3> QED BY <2>2, <2>3, <2>4, <2>5, <2>8, <2>9 DEF Caught
  <2> HIDE DEF k, f
  <2> QED BY <2>2, <2>5, <2>10
<1> QED BY <1>7, <1>8

\* The two actions that raise an EventCompilationError.
LEMMA FireRaisesFacts ==
    ASSUME EventTypeOK, StackShape, IdsAreCounted, NEW t \in Threads, FireRaises(t)
    PROVE  LET n == Len(stack[t])
               d == stack[t][n]
               named == {d.ev.id}
           IN  /\ n \in Nat \ {0} /\ d \in Frame /\ d.op = "fire" /\ d.at = 0
               /\ Unwinds(t, named) \/ \E k \in 1 .. n - 1, f \in Frame : Caught(t, named, k, f)
               /\ fired' = Append(fired, d.ev)
               /\ UNCHANGED <<config, queues, counts, seen>>
<1> DEFINE n == Len(stack[t])
           d == stack[t][n]
<1>1. n \in Nat \ {0} /\ Top(t) = d /\ d \in Frame /\ d.op = "fire" /\ d.at = 0 /\ stack[t] # <<>>
  BY TopFacts DEF FireRaises, Deciding, In
<1>2. RaiseCompilation(t, Front(stack[t]), {d.ev.id}) /\ fired' = Append(fired, d.ev)
  BY <1>1 DEF FireRaises, LogFired
<1>3. Unwinds(t, {d.ev.id}) \/ \E k \in 1 .. n - 1, f \in Frame : Caught(t, {d.ev.id}, k, f)
  BY <1>1, <1>2, RaiseFacts
<1>4. UNCHANGED <<config, queues, counts, seen>>
  BY DEF FireRaises
<1> QED BY <1>1, <1>2, <1>3, <1>4

LEMMA FlushRaisesFacts ==
    ASSUME EventTypeOK, StackShape, IdsAreCounted, NEW t \in Threads, FlushRaises(t)
    PROVE  LET n == Len(stack[t])
               d == stack[t][n]
           IN  /\ n \in Nat \ {0} /\ d \in Frame /\ d.op = "flush"
               /\ Unwinds(t, d.raised) \/ \E k \in 1 .. n - 1, f \in Frame : Caught(t, d.raised, k, f)
               /\ UNCHANGED <<config, queues, counts, fired, seen>>
<1> DEFINE n == Len(stack[t])
           d == stack[t][n]
<1>1. n \in Nat \ {0} /\ Top(t) = d /\ d \in Frame /\ d.op = "flush" /\ stack[t] # <<>>
  BY TopFacts DEF FlushRaises, In
<1>2. RaiseCompilation(t, Front(stack[t]), d.raised)
  BY <1>1 DEF FlushRaises
<1>3. Unwinds(t, d.raised) \/ \E k \in 1 .. n - 1, f \in Frame : Caught(t, d.raised, k, f)
  BY <1>1, <1>2, RaiseFacts
<1>4. UNCHANGED <<config, queues, counts, fired, seen>>
  BY DEF FlushRaises
<1> QED BY <1>1, <1>3, <1>4

\* Call f has still to do something with event e.
Holds(f, e) ==
    \/ f.op # "flush" /\ f.ev.id = e
    \/ f.op = "flush" /\ e \in f.raised
    \/ /\ f.op = "flush" /\ f.list # 0
       /\ \E p \in f.at + 1 .. Len(lists[f.list]) : lists[f.list][p].id = e

LEMMA UnfinishedIsHeld ==
    ASSUME EventTypeOK, StackShape, NEW t \in Threads, NEW e
    PROVE  e \in UnfinishedIn(stack[t]) <=> \E i \in 1 .. Len(stack[t]) : Holds(stack[t][i], e)
<1>1. ToSet(stack[t]) = {stack[t][i] : i \in 1 .. Len(stack[t])}
  BY StackTypes, LenProperties DEF ToSet
<1>2. ASSUME NEW i \in 1 .. Len(stack[t])
      PROVE  e \in Unfinished(stack[t][i]) <=> Holds(stack[t][i], e)
  <2> DEFINE f == stack[t][i]
  <2>1. f \in Frame /\ FrameOK(f, lists)
    BY StackTypes DEF StackShape
  <2> HIDE DEF f
  <2>2. CASE f.op # "flush"
    <3>1. Unfinished(f) = {f.ev.id}
      BY <2>2 DEF Unfinished
    <3>2. Holds(f, e) <=> f.ev.id = e
      BY <2>2 DEF Holds
    <3> QED BY <3>1, <3>2 DEF f
  <2>3. CASE f.op = "flush"
    <3>1. Unfinished(f) = f.raised \cup {x.id : x \in ToSet(Remaining(f))}
      BY <2>3 DEF Unfinished
    <3>2. CASE f.list = 0
      <4>1. {x.id : x \in ToSet(Remaining(f))} = {}
        BY <2>1, <2>3, <3>2, RemainingFacts
      <4>2. Holds(f, e) <=> e \in f.raised
        BY <2>3, <3>2 DEF Holds
      <4> QED BY <3>1, <4>1, <4>2 DEF f
    <3>3. CASE f.list # 0
      <4>1. {x.id : x \in ToSet(Remaining(f))}
               = {lists[f.list][p].id : p \in f.at + 1 .. Len(lists[f.list])}
        BY <2>1, <2>3, <3>3, RemainingFacts
      <4>2. Holds(f, e) <=>
              \/ e \in f.raised
              \/ \E p \in f.at + 1 .. Len(lists[f.list]) : lists[f.list][p].id = e
        BY <2>3, <3>3 DEF Holds
      <4>3. e \in Unfinished(f) <=>
              e \in f.raised \/ e \in {lists[f.list][p].id : p \in f.at + 1 .. Len(lists[f.list])}
        BY <3>1, <4>1
      <4> QED BY <4>2, <4>3 DEF f
    <3> QED BY <3>2, <3>3
  <2> QED BY <2>2, <2>3 DEF f
<1>3. ASSUME e \in UnfinishedIn(stack[t])
      PROVE  \E i \in 1 .. Len(stack[t]) : Holds(stack[t][i], e)
  <2>1. PICK f \in ToSet(stack[t]) : e \in Unfinished(f)
    BY <1>3 DEF UnfinishedIn
  <2> QED BY <1>1, <1>2, <2>1
<1>4. ASSUME NEW i \in 1 .. Len(stack[t]), Holds(stack[t][i], e)
      PROVE  e \in UnfinishedIn(stack[t])
  <2>1. stack[t][i] \in ToSet(stack[t]) /\ e \in Unfinished(stack[t][i])
    BY <1>1, <1>2, <1>4
  <2> QED BY <2>1 DEF UnfinishedIn
<1> QED BY <1>3, <1>4

-----------------------------------------------------------------------------
(* What no step does                                                       *)

\* No step takes anything out of a list, forgets that an event was made, or
\* changes the application.
LEMMA StepGrows ==
    ASSUME EventTypeOK, StackShape, IdsAreCounted, [Next]_vars
    PROVE  ListsGrow /\ setup' = setup /\ events' \in Nat /\ events <= events'
<1> USE DEF config, queues, counts, history
<1>1. ASSUME lists' = lists PROVE ListsGrow
  BY <1>1, ListTypes DEF ListsGrow
<1>2. events \in Nat
  BY DEF EventTypeOK
<1>3. CASE Configure \/ UNCHANGED vars
  BY <1>1, <1>2, <1>3 DEF Configure, vars
<1>4. ASSUME NEW t \in Threads,
             \/ Fire(t) \/ Defer(t) \/ FindList(t)
             \/ Flush(t) \/ FlushNext(t) \/ FlushEnd(t) \/ FlushRaises(t)
             \/ FireRaises(t) \/ FireSilenced(t) \/ FireFirst(t) \/ FireNext(t)
             \/ FireEnd(t) \/ ReceiverRaises(t)
      PROVE  lists' = lists /\ setup' = setup /\ (events' = events \/ events' = events + 1)
  BY <1>4 DEF Fire, Defer, FindList, Flush, FlushNext, FlushEnd, FlushRaises, FireRaises,
              FireSilenced, FireFirst, FireNext, FireEnd, ReceiverRaises
<1>5. ASSUME NEW t \in Threads, AppendArgs(t) PROVE ListsGrow /\ setup' = setup /\ events' = events
  BY <1>5, AppendArgsFacts
<1>6. ASSUME NEW t \in Threads, CreateList(t) PROVE ListsGrow /\ setup' = setup /\ events' = events
  BY <1>6, CreateListFacts
<1> QED BY <1>1, <1>2, <1>3, <1>4, <1>5, <1>6 DEF Next

-----------------------------------------------------------------------------
(* Types                                                                   *)

\* The lists and groups keep their types.
LEMMA QueueTypes ==
    ASSUME EventTypeOK, StackShape, [Next]_vars
    PROVE  lists' \in Seq(Seq(Event)) /\ groups' \in [Groups -> 0 .. Len(lists')]
<1> USE DEF config, queues, counts, history
<1>1. lists \in Seq(Seq(Event)) /\ groups \in [Groups -> 0 .. Len(lists)] /\ Len(lists) \in Nat
  BY ListTypes DEF EventTypeOK
<1>2. CASE lists' = lists /\ groups' = groups
  BY <1>1, <1>2
<1>3. CASE Configure \/ UNCHANGED vars
  BY <1>2, <1>3 DEF Configure, vars
<1>4. ASSUME NEW t \in Threads,
             \/ Fire(t) \/ Defer(t) \/ FindList(t)
             \/ FlushNext(t) \/ FlushEnd(t) \/ FlushRaises(t)
             \/ FireRaises(t) \/ FireSilenced(t) \/ FireFirst(t) \/ FireNext(t)
             \/ FireEnd(t) \/ ReceiverRaises(t)
      PROVE  lists' = lists /\ groups' = groups
  BY <1>4 DEF Fire, Defer, FindList, FlushNext, FlushEnd, FlushRaises, FireRaises,
              FireSilenced, FireFirst, FireNext, FireEnd, ReceiverRaises
<1>5. ASSUME NEW t \in Threads, Flush(t) 
      PROVE  lists' \in Seq(Seq(Event)) /\ groups' \in [Groups -> 0 .. Len(lists')]
  <2>1. PICK g \in Groups : groups' = [groups EXCEPT ![g] = 0] /\ lists' = lists
    BY <1>5, FlushFacts
  <2> QED BY <1>1, <2>1
<1>6. ASSUME NEW t \in Threads, AppendArgs(t)
      PROVE  lists' \in Seq(Seq(Event)) /\ groups' \in [Groups -> 0 .. Len(lists')]
  <2>1. lists' \in Seq(Seq(Event)) /\ Len(lists') = Len(lists) /\ groups' = groups
    BY <1>6, AppendArgsFacts
  <2> QED BY <1>1, <2>1
<1>7. ASSUME NEW t \in Threads, CreateList(t)
      PROVE  lists' \in Seq(Seq(Event)) /\ groups' \in [Groups -> 0 .. Len(lists')]
  <2>1. /\ lists' \in Seq(Seq(Event)) /\ Len(lists') = Len(lists) + 1
        /\ \E g \in Groups : groups' = [groups EXCEPT ![g] = Len(lists) + 1]
    BY <1>7, CreateListFacts
  <2> QED BY <1>1, <2>1
<1> QED BY <1>2, <1>3, <1>4, <1>5, <1>6, <1>7 DEF Next

\* An end that is recorded for events is recorded as one.
LEMMA EndTypes ==
    ASSUME EventTypeOK, NEW ids, ids \subseteq Nat, NEW how \in Hows, EndAll(ids, how)
    PROVE  ended' \subseteq [id : Nat, how : Hows]
BY DEF EventTypeOK, EndAll

LEMMA RaiseTypes ==
    ASSUME EventTypeOK, IdsAreCounted, NEW t \in Threads, NEW named, named \subseteq Nat,
           Unwinds(t, named) \/ \E k \in 1 .. Len(stack[t]) - 1, f \in Frame : Caught(t, named, k, f)
    PROVE  stack' \in [Threads -> Seq(Frame)] /\ ended' \subseteq [id : Nat, how : Hows]
<1>1. ASSUME NEW i \in 1 .. Len(stack[t]) - 1 PROVE stack[t][i].ev.id \in Nat
  <2>1. i \in 1 .. Len(stack[t])
    BY StackTypes
  <2>2. stack[t][i] \in Frame
    BY <2>1, StackTypes
  <2> QED BY <2>2 DEF Frame, Event
<1>2. ended \subseteq [id : Nat, how : Hows]
  BY DEF EventTypeOK
<1>3. CASE Unwinds(t, named)
  BY <1>1, <1>2, <1>3 DEF Unwinds, Keeps, Hows
<1>4. ASSUME NEW k \in 1 .. Len(stack[t]) - 1, NEW f \in Frame, Caught(t, named, k, f)
      PROVE  stack' \in [Threads -> Seq(Frame)] /\ ended' \subseteq [id : Nat, how : Hows]
  <2>1. \A i \in k + 1 .. Len(stack[t]) - 1 : i \in 1 .. Len(stack[t]) - 1
    BY StackTypes
  <2>2. stack' \in [Threads -> Seq(Frame)]
    BY <1>4 DEF Caught, Keeps
  <2> DEFINE ids == (named \cup {stack[t][i].ev.id : i \in k + 1 .. Len(stack[t]) - 1})
                        \ {stack[t][k + 1].ev.id}
  <2>3. ids \subseteq Nat
    BY <1>1, <2>1
  <2>4. EndAll(ids, "dropped")
    BY <1>4 DEF Caught
  <2> HIDE DEF ids
  <2> QED BY <2>2, <2>3, <2>4, EndTypes DEF Hows
<1> QED BY <1>3, <1>4

LEMMA UnfinishedTypes ==
    ASSUME EventTypeOK, StackShape, NEW t \in Threads
    PROVE  UnfinishedIn(stack[t]) \subseteq Nat
<1> SUFFICES ASSUME NEW e \in UnfinishedIn(stack[t]) PROVE e \in Nat
  OBVIOUS
<1>1. PICK i \in 1 .. Len(stack[t]) : Holds(stack[t][i], e)
  BY UnfinishedIsHeld
<1>2. stack[t][i] \in Frame /\ FrameOK(stack[t][i], lists)
  BY StackTypes DEF StackShape
<1> DEFINE f == stack[t][i]
<1> HIDE DEF f
<1>3. f.op = "flush" /\ f.list # 0 => f.list \in 1 .. Len(lists) /\ f.at \in Nat
  BY <1>2, RemainingFacts, ListTypes DEF f, Frame
<1>4. ASSUME f.op = "flush", f.list # 0, NEW p \in f.at + 1 .. Len(lists[f.list]),
             lists[f.list][p].id = e
      PROVE  e \in Nat
  <2>1. p \in 1 .. Len(lists[f.list])
    BY <1>3, <1>4, ListTypes
  <2>2. lists[f.list][p] \in Event
    BY <1>3, <1>4, <2>1, ListTypes
  <2> QED BY <1>4, <2>2 DEF Event
<1> QED BY <1>1, <1>2, <1>4 DEF f, Holds, Frame, Event

LEMMA EventTypeNext ==
    ASSUME EventTypeOK, StackShape, IdsAreCounted, [Next]_vars
    PROVE  EventTypeOK'
<1> USE DEF config, queues, counts, history
<1>q. lists' \in Seq(Seq(Event)) /\ groups' \in [Groups -> 0 .. Len(lists')]
  BY QueueTypes
<1>s. setup' = setup /\ events' \in Nat /\ Receivers' = Receivers
  BY StepGrows DEF Receivers
<1>t. /\ setup \in Setups /\ deferring \in BOOLEAN /\ warnError \in BOOLEAN
      /\ flushes \in Nat
      /\ stack \in [Threads -> Seq(Frame)] /\ fired \in Seq(Event)
      /\ seen \in [ToSet(Receivers) -> Seq(Event)]
      /\ ended \subseteq [id : Nat, how : Hows]
  BY DEF EventTypeOK
<1>c. deferring' \in BOOLEAN /\ warnError' \in BOOLEAN
  <2>1. CASE Configure
    BY <1>t, <2>1, Zenon DEF Configure
  <2>2. CASE ~Configure
    <3>1. deferring' = deferring /\ warnError' = warnError
      BY <2>2 DEF Next, vars, Fire, Defer, FindList, CreateList, AppendArgs, Flush,
                  FlushNext, FlushEnd, FlushRaises, FireRaises, FireSilenced,
                  FireFirst, FireNext, FireEnd, ReceiverRaises
    <3> QED BY <1>t, <3>1, Zenon
  <2> QED BY <2>1, <2>2
<1>l. flushes' \in Nat
  <2>1. flushes' = flushes \/ flushes' = flushes + 1
    BY DEF Next, vars, Configure, Fire, Defer, FindList, CreateList, AppendArgs,
           Flush, FlushNext, FlushEnd, FlushRaises, FireRaises, FireSilenced,
           FireFirst, FireNext, FireEnd, ReceiverRaises
  <2> QED BY <1>t, <2>1
<1> DEFINE Rest == /\ stack' \in [Threads -> Seq(Frame)] /\ fired' \in Seq(Event)
                   /\ seen' \in [ToSet(Receivers) -> Seq(Event)]
                   /\ ended' \subseteq [id : Nat, how : Hows]
<1>1. SUFFICES Rest
  BY <1>q, <1>s, <1>t, <1>c, <1>l DEF EventTypeOK
<1>2. CASE Configure \/ UNCHANGED vars
  BY <1>2, <1>t DEF Configure, vars
<1>3. ASSUME NEW t \in Threads, Fire(t) PROVE Rest
  BY <1>3, <1>t, FireFacts DEF Keeps
<1>4. ASSUME NEW t \in Threads, Defer(t) PROVE Rest
  BY <1>4, <1>t, DeferFacts DEF Keeps
<1>5. ASSUME NEW t \in Threads, FindList(t) PROVE Rest
  BY <1>5, <1>t, FindListFacts DEF Keeps
<1>6. ASSUME NEW t \in Threads, CreateList(t) PROVE Rest
  BY <1>6, <1>t, CreateListFacts DEF Keeps
<1>7. ASSUME NEW t \in Threads, AppendArgs(t) PROVE Rest
  BY <1>7, <1>t, AppendArgsFacts DEF Keeps
<1>8. ASSUME NEW t \in Threads, Flush(t) PROVE Rest
  BY <1>8, <1>t, FlushFacts DEF Keeps
<1>9. ASSUME NEW t \in Threads, FlushNext(t) PROVE Rest
  BY <1>9, <1>t, FlushNextFacts DEF Keeps
<1>10. ASSUME NEW t \in Threads, FlushEnd(t) PROVE Rest
  BY <1>10, <1>t, FlushEndFacts DEF Keeps
<1>11. ASSUME NEW t \in Threads, FlushRaises(t) PROVE Rest
  <2> DEFINE named == stack[t][Len(stack[t])].raised
  <2>1. /\ stack[t][Len(stack[t])] \in Frame
        /\ Unwinds(t, named) \/ \E k \in 1 .. Len(stack[t]) - 1, f \in Frame : Caught(t, named, k, f)
        /\ UNCHANGED <<fired, seen>>
    BY <1>11, FlushRaisesFacts
  <2>2. named \subseteq Nat
    BY <2>1 DEF Frame
  <2> HIDE DEF named
  <2> QED BY <1>t, <2>1, <2>2, RaiseTypes
<1>12. ASSUME NEW t \in Threads, FireRaises(t) PROVE Rest
  <2> DEFINE d == stack[t][Len(stack[t])]
  <2>1. /\ d \in Frame
        /\ \/ Unwinds(t, {d.ev.id})
           \/ \E k \in 1 .. Len(stack[t]) - 1, f \in Frame : Caught(t, {d.ev.id}, k, f)
        /\ fired' = Append(fired, d.ev) /\ UNCHANGED seen
    BY <1>12, FireRaisesFacts
  <2>2. d.ev \in Event /\ {d.ev.id} \subseteq Nat
    BY <2>1 DEF Frame, Event
  <2> HIDE DEF d
  <2>3. fired' \in Seq(Event)
    BY <1>t, <2>1, <2>2, AppendProperties
  <2>4. stack' \in [Threads -> Seq(Frame)] /\ ended' \subseteq [id : Nat, how : Hows]
    BY <2>1, <2>2, RaiseTypes
  <2> QED BY <1>t, <2>1, <2>3, <2>4
<1>13. ASSUME NEW t \in Threads, FireSilenced(t) \/ FireEnd(t) PROVE Rest
  <2> DEFINE d == stack[t][Len(stack[t])]
  <2>1. /\ d \in Frame /\ stack' \in [Threads -> Seq(Frame)]
        /\ fired' = fired \/ fired' = Append(fired, d.ev)
        /\ EndAll({d.ev.id}, "silenced") \/ EndAll({d.ev.id}, "delivered")
        /\ UNCHANGED seen
    BY <1>13, FireOverFacts DEF Keeps
  <2>2. d.ev \in Event /\ {d.ev.id} \subseteq Nat
    BY <2>1 DEF Frame, Event
  <2> HIDE DEF d
  <2>3. ended' \subseteq [id : Nat, how : Hows]
    BY <2>1, <2>2, EndTypes DEF Hows
  <2>4. fired' \in Seq(Event)
    <3>1. Append(fired, d.ev) \in Seq(Event)
      BY <1>t, <2>2, AppendProperties
    <3> QED BY <1>t, <2>1, <3>1
  <2> QED BY <1>t, <2>1, <2>3, <2>4
<1>14. ASSUME NEW t \in Threads, FireFirst(t) \/ FireNext(t) PROVE Rest
  <2> DEFINE d == stack[t][Len(stack[t])]
  <2>1. PICK r \in 1 .. Len(Receivers) :
           /\ d \in Frame /\ stack' \in [Threads -> Seq(Frame)]
           /\ seen' = [seen EXCEPT ![Receivers[r]] = Append(seen[Receivers[r]], d.ev)]
           /\ fired' = fired \/ fired' = Append(fired, d.ev)
           /\ ended' = ended
    BY <1>14, GiveFacts DEF Keeps
  <2>2. d.ev \in Event /\ Receivers[r] \in ToSet(Receivers)
    BY <2>1, SetupFacts DEF Frame
  <2> HIDE DEF d
  <2>3. Append(seen[Receivers[r]], d.ev) \in Seq(Event)
    BY <1>t, <2>2, AppendProperties
  <2>4. seen' \in [ToSet(Receivers) -> Seq(Event)]
    BY <1>t, <2>1, <2>2, <2>3
  <2>5. fired' \in Seq(Event)
    <3>1. Append(fired, d.ev) \in Seq(Event)
      BY <1>t, <2>2, AppendProperties
    <3> QED BY <1>t, <2>1, <3>1
  <2> QED BY <1>t, <2>1, <2>4, <2>5
<1>15. ASSUME NEW t \in Threads, ReceiverRaises(t) PROVE Rest
  <2>1. stack' \in [Threads -> Seq(Frame)] /\ UNCHANGED <<fired, seen>>
        /\ EndAll(UnfinishedIn(stack[t]), "dropped")
    BY <1>15, ReceiverRaisesFacts DEF Keeps
  <2>2. ended' \subseteq [id : Nat, how : Hows]
    BY <2>1, UnfinishedTypes, EndTypes DEF Hows
  <2> QED BY <1>t, <2>1, <2>2
<1> HIDE DEF Rest
<1> QED BY <1>2, <1>3, <1>4, <1>5, <1>6, <1>7, <1>8, <1>9, <1>10, <1>11, <1>12, <1>13,
           <1>14, <1>15 DEF Next

-----------------------------------------------------------------------------
(* The shape of the stacks                                                 *)

LEMMA ListTypesNext ==
    ASSUME EventTypeOK'
    PROVE  /\ Len(lists') \in Nat
           /\ \A l \in 1 .. Len(lists') : lists'[l] \in Seq(Event) /\ Len(lists'[l]) \in Nat
           /\ \A l \in 1 .. Len(lists') : \A p \in 1 .. Len(lists'[l]) : lists'[l][p] \in Event
<1>1. lists' \in Seq(Seq(Event))
  BY DEF EventTypeOK
<1>2. Len(lists') \in Nat /\ \A l \in 1 .. Len(lists') : lists'[l] \in Seq(Event)
  BY <1>1
<1>3. ASSUME NEW l \in 1 .. Len(lists')
      PROVE  Len(lists'[l]) \in Nat /\ \A p \in 1 .. Len(lists'[l]) : lists'[l][p] \in Event
  <2>1. lists'[l] \in Seq(Event)
    BY <1>2
  <2> QED BY <2>1
<1> QED BY <1>2, <1>3

LEMMA StackTypesNext ==
    ASSUME EventTypeOK', NEW t \in Threads
    PROVE  /\ stack'[t] \in Seq(Frame) /\ Len(stack'[t]) \in Nat
           /\ \A i \in 1 .. Len(stack'[t]) : stack'[t][i] \in Frame
<1>1. stack'[t] \in Seq(Frame)
  BY DEF EventTypeOK
<1> QED BY <1>1

\* A call that is all right stays so when the lists grow, and so does the call
\* within it.
LEMMA FrameGrows ==
    ASSUME EventTypeOK, EventTypeOK', ListsGrow, NEW f \in Frame, FrameOK(f, lists)
    PROVE  /\ FrameOK(f, lists')
           /\ \A g : Within(f, g, lists) => Within(f, g, lists')
<1>1. /\ f.list \in Nat /\ f.at \in Nat /\ Len(lists) \in Nat /\ Len(lists') \in Nat
      /\ f.list <= Len(lists) /\ Len(lists) <= Len(lists')
  BY ListTypes, ListTypesNext DEF Frame, ListsGrow, FrameOK
<1>2. f.list # 0 => /\ f.list \in 1 .. Len(lists) /\ f.list \in 1 .. Len(lists')
                    /\ Len(lists[f.list]) \in Nat /\ Len(lists'[f.list]) \in Nat
                    /\ Len(lists[f.list]) <= Len(lists'[f.list])
  BY <1>1, ListTypes, ListTypesNext DEF ListsGrow
<1>3. FrameOK(f, lists')
  BY <1>1, <1>2 DEF FrameOK
<1>4. f.op = "flush" /\ f.list # 0 /\ f.at >= 1 => f.at \in 1 .. Len(lists[f.list])
  BY <1>1, <1>2 DEF FrameOK
<1>5. f.op = "flush" /\ f.list # 0 /\ f.at >= 1 => lists'[f.list][f.at] = lists[f.list][f.at]
  BY <1>2, <1>4 DEF ListsGrow
<1> QED BY <1>3, <1>5 DEF Within

\* A step that puts the calls in s on the first k calls of t.
LEMMA ShapeStep ==
    ASSUME EventTypeOK, EventTypeOK', StackShape, ListsGrow, setup' = setup,
           NEW t \in Threads, NEW k, NEW s, Keeps(t, k, s),
           Len(s) # 0 => t \in setup.threads,
           \A j \in 1 .. Len(s) : FrameOK(s[j], lists'),
           Len(s) # 0 /\ k # 0 => Within(stack[t][k], s[1], lists'),
           \A j \in 1 .. Len(s) - 1 : Within(s[j], s[j + 1], lists')
    PROVE  StackShape'
<1>0. Receivers' = Receivers /\ setup'.threads = setup.threads /\ setup'.calling = setup.calling
  BY DEF Receivers
<1> SUFFICES ASSUME NEW u \in Threads, NEW i \in 1 .. Len(stack'[u])
             PROVE  /\ u \in setup.threads /\ FrameOK(stack'[u][i], lists')
                    /\ i < Len(stack'[u]) => Within(stack'[u][i], stack'[u][i + 1], lists')
  <2>1. ASSUME NEW u \in Threads, NEW i \in 1 .. Len(stack'[u]),
               /\ u \in setup.threads /\ FrameOK(stack'[u][i], lists')
               /\ i < Len(stack'[u]) => Within(stack'[u][i], stack'[u][i + 1], lists')
        PROVE  (/\ u \in setup.threads
                /\ FrameOK(stack[u][i], lists)
                /\ i < Len(stack[u]) => Within(stack[u][i], stack[u][i + 1], lists))'
    BY <1>0, <2>1 DEF FrameOK, Within
  <2> QED BY <2>1 DEF StackShape
<1>1. /\ k \in 0 .. Len(stack[t]) /\ Len(s) \in Nat /\ Len(stack[t]) \in Nat
      /\ Len(stack[u]) \in Nat /\ Len(stack'[u]) \in Nat
  BY StackTypes, StackTypesNext DEF Keeps
<1>2. ASSUME u # t \/ i <= k
      PROVE  /\ i \in 1 .. Len(stack[u]) /\ stack'[u][i] = stack[u][i]
             /\ u \in setup.threads /\ FrameOK(stack[u][i], lists')
             /\ i < Len(stack[u]) =>
                   /\ Within(stack[u][i], stack[u][i + 1], lists')
  <2>1. i \in 1 .. Len(stack[u]) /\ stack'[u][i] = stack[u][i]
    BY <1>1, <1>2 DEF Keeps
  <2>2. stack[u][i] \in Frame /\ u \in setup.threads /\ FrameOK(stack[u][i], lists)
    BY <2>1, StackTypes DEF StackShape
  <2>3. i < Len(stack[u]) => Within(stack[u][i], stack[u][i + 1], lists)
    BY <2>1 DEF StackShape
  <2> QED BY <2>1, <2>2, <2>3, FrameGrows
<1>3. CASE u # t
  <2>1. stack'[u] = stack[u]
    BY <1>3 DEF Keeps
  <2> QED BY <1>2, <1>3, <2>1
<1>4. CASE u = t /\ i < k
  <2>1. i + 1 \in 1 .. k /\ i < Len(stack[t])
    BY <1>1, <1>4
  <2>2. stack'[t][i + 1] = stack[t][i + 1]
    BY <2>1 DEF Keeps
  <2> QED BY <1>1, <1>2, <1>4, <2>1, <2>2
<1>5. CASE u = t /\ i = k
  <2>1. i < Len(stack'[t]) => Len(s) # 0 /\ stack'[t][i + 1] = s[1]
    BY <1>1, <1>5 DEF Keeps
  <2> QED BY <1>1, <1>2, <1>5, <2>1
<1>6. CASE u = t /\ i > k
  <2>1. /\ i - k \in 1 .. Len(s) /\ k + (i - k) = i /\ k + ((i - k) + 1) = i + 1
        /\ i < Len(stack'[t]) => i - k \in 1 .. Len(s) - 1 /\ (i - k) + 1 \in 1 .. Len(s)
    BY <1>1, <1>6 DEF Keeps
  <2>2. stack'[t][i] = s[i - k]
    BY <2>1 DEF Keeps
  <2>3. i < Len(stack'[t]) => stack'[t][i + 1] = s[(i - k) + 1]
    BY <2>1 DEF Keeps
  <2>4. Len(s) # 0
    BY <1>1, <2>1
  <2> QED BY <1>6, <2>1, <2>2, <2>3, <2>4
<1> QED BY <1>1, <1>3, <1>4, <1>5, <1>6

\* The same call goes on: the same event, the same list if it flushes, and once
\* it has called a receiver it has.
GoesOn(f, g) ==
    /\ g.ev = f.ev /\ g.from = f.from
    /\ (g.op = "fire" <=> f.op = "fire") /\ (g.op = "flush" <=> f.op = "flush")
    /\ f.op = "flush" => g.list = f.list
    /\ f.op = "fire" /\ f.at # 0 => g.at # 0

LEMMA WithinGoesOn ==
    ASSUME NEW f, NEW g, NEW h, NEW ls, GoesOn(g, h), Within(f, g, ls)
    PROVE  Within(f, h, ls)
BY DEF GoesOn, Within

\* The call on top goes on.
LEMMA ShapeGoesOn ==
    ASSUME EventTypeOK, EventTypeOK', StackShape, ListsGrow, setup' = setup,
           NEW t \in Threads, NEW n \in 1 .. Len(stack[t]), NEW s, Keeps(t, n - 1, s), Len(s) # 0,
           GoesOn(stack[t][n], s[1]),
           \A j \in 1 .. Len(s) : FrameOK(s[j], lists'),
           \A j \in 1 .. Len(s) - 1 : Within(s[j], s[j + 1], lists')
    PROVE  StackShape'
<1>1. Len(stack[t]) \in Nat
  BY StackTypes
<1>2. t \in setup.threads
  BY DEF StackShape
<1>3. ASSUME n - 1 # 0 PROVE Within(stack[t][n - 1], s[1], lists')
  <2>1. n - 1 \in 1 .. Len(stack[t]) /\ n - 1 < Len(stack[t]) /\ (n - 1) + 1 = n
    BY <1>1, <1>3
  <2>2. stack[t][n - 1] \in Frame /\ FrameOK(stack[t][n - 1], lists)
    BY <2>1, StackTypes DEF StackShape
  <2>3. Within(stack[t][n - 1], stack[t][n], lists)
    BY <2>1 DEF StackShape
  <2>4. Within(stack[t][n - 1], s[1], lists)
    BY <2>3, WithinGoesOn
  <2> QED BY <2>2, <2>4, FrameGrows
<1> QED BY <1>2, <1>3, ShapeStep

LEMMA ShapeGoesOnAlone ==
    ASSUME EventTypeOK, EventTypeOK', StackShape, ListsGrow, setup' = setup,
           NEW t \in Threads, NEW n \in 1 .. Len(stack[t]), NEW f, Keeps(t, n - 1, <<f>>),
           GoesOn(stack[t][n], f), FrameOK(f, lists')
    PROVE  StackShape'
<1> DEFINE s == <<f>>
<1>1. Len(s) = 1 /\ s[1] = f /\ Keeps(t, n - 1, s)
  OBVIOUS
<1> HIDE DEF s
<1>2. \A j \in 1 .. Len(s) : FrameOK(s[j], lists')
  <2>1. \A j \in 1 .. Len(s) : j = 1
    BY <1>1
  <2> QED BY <1>1, <2>1
<1>3. \A j \in 1 .. Len(s) - 1 : Within(s[j], s[j + 1], lists')
  BY <1>1
<1>4. Len(s) # 0 /\ GoesOn(stack[t][n], s[1])
  BY <1>1
<1> QED BY <1>1, <1>2, <1>3, <1>4, ShapeGoesOn

\* A call is made, or one ends.
LEMMA ShapePush ==
    ASSUME EventTypeOK, EventTypeOK', StackShape, ListsGrow, setup' = setup,
           NEW t \in Threads, MayCall(t), NEW f \in Frame, Keeps(t, Len(stack[t]), <<f>>),
           f.op = "fire" => f.at = 0, f.list <= Len(lists), f.at = 0
    PROVE  StackShape'
<1>1. FrameOK(f, lists')
  <2>1. f.list \in Nat /\ f.list <= Len(lists') /\ (f.list # 0 => Len(lists'[f.list]) \in Nat)
    BY ListTypes, ListTypesNext DEF Frame, ListsGrow
  <2> QED BY <2>1, SetupFacts DEF FrameOK
<1>2. t \in setup.threads
  BY MayCallFacts
<1>3. Len(stack[t]) # 0 => Within(stack[t][Len(stack[t])], f, lists')
  BY StackTypes, MayCallFacts DEF Within
<1> DEFINE s == <<f>>
<1>4. Len(s) = 1 /\ s[1] = f
  OBVIOUS
<1>5. Keeps(t, Len(stack[t]), s)
  OBVIOUS
<1> HIDE DEF s
<1> QED BY <1>1, <1>2, <1>3, <1>4, <1>5, ShapeStep

LEMMA ShapePop ==
    ASSUME EventTypeOK, EventTypeOK', StackShape, ListsGrow, setup' = setup,
           NEW t \in Threads, NEW k, Keeps(t, k, <<>>)
    PROVE  StackShape'
<1> DEFINE s == <<>>
<1>1. Len(s) = 0 /\ Keeps(t, k, s)
  OBVIOUS
<1> HIDE DEF s
<1> QED BY <1>1, ShapeStep

LEMMA ShapeRaise ==
    ASSUME EventTypeOK, EventTypeOK', StackShape, ListsGrow, setup' = setup, lists' = lists,
           NEW t \in Threads, NEW named,
           Unwinds(t, named) \/ \E k \in 1 .. Len(stack[t]) - 1, f \in Frame : Caught(t, named, k, f)
    PROVE  StackShape'
<1>1. CASE Unwinds(t, named)
  BY <1>1, ShapePop DEF Unwinds
<1>2. ASSUME NEW k \in 1 .. Len(stack[t]) - 1, NEW f \in Frame, Caught(t, named, k, f)
      PROVE  StackShape'
  <2>1. k \in 1 .. Len(stack[t])
    BY StackTypes
  <2>2. stack[t][k] \in Frame /\ FrameOK(stack[t][k], lists)
    BY <2>1, StackTypes DEF StackShape
  <2>3. GoesOn(stack[t][k], f) /\ FrameOK(f, lists')
    BY <1>2, <2>2 DEF Caught, GoesOn, FrameOK, Frame
  <2>4. Keeps(t, k - 1, <<f>>)
    BY <1>2 DEF Caught
  <2> QED BY <2>1, <2>3, <2>4, ShapeGoesOnAlone
<1> QED BY <1>1, <1>2

LEMMA StackShapeNext ==
    ASSUME EventTypeOK, EventTypeOK', StackShape, IdsAreCounted, [Next]_vars
    PROVE  StackShape'
<1>g. ListsGrow /\ setup' = setup
  BY StepGrows
<1>n. ASSUME NEW t \in Threads, stack[t] # <<>>
      PROVE  Len(stack[t]) \in 1 .. Len(stack[t])
  BY <1>n, TopFacts
<1>o. ASSUME NEW t \in Threads, Len(stack[t]) \in Nat \ {0}
      PROVE  Len(stack[t]) \in 1 .. Len(stack[t]) /\ FrameOK(stack[t][Len(stack[t])], lists)
  BY <1>o DEF StackShape
<1>2. CASE Configure \/ UNCHANGED vars
  <2>1. stack' = stack /\ lists' = lists /\ setup' = setup
    BY <1>2 DEF Configure, vars, config, queues
  <2>2. ASSUME NEW u \in Threads, NEW i \in 1 .. Len(stack[u])
        PROVE  /\ u \in setup'.threads
               /\ FrameOK(stack[u][i], lists)'
               /\ i < Len(stack[u]) => Within(stack[u][i], stack[u][i + 1], lists)'
    <3>1. /\ u \in setup.threads /\ FrameOK(stack[u][i], lists)
          /\ i < Len(stack[u]) => Within(stack[u][i], stack[u][i + 1], lists)
      BY DEF StackShape
    <3>2. FrameOK(stack[u][i], lists)'
      BY <2>1, <3>1 DEF FrameOK, Receivers
    <3>3. i < Len(stack[u]) => Within(stack[u][i], stack[u][i + 1], lists)'
      BY <2>1, <3>1 DEF Within, Receivers
    <3> QED BY <2>1, <3>1, <3>2, <3>3
  <2> QED BY <2>1, <2>2 DEF StackShape
<1>3. ASSUME NEW t \in Threads, Fire(t) \/ Defer(t) PROVE StackShape'
  <2>1. MayCall(t)
    BY <1>3 DEF Fire, Defer
  <2>2. PICK f \in Frame : Keeps(t, Len(stack[t]), <<f>>) /\ f.at = 0 /\ f.list = 0
    BY <1>3, FireFacts, DeferFacts
  <2> QED BY <1>g, <2>1, <2>2, ListTypes, ShapePush
<1>4. ASSUME NEW t \in Threads, Flush(t) PROVE StackShape'
  <2>1. MayCall(t)
    BY <1>4 DEF Flush
  <2>2. PICK g \in Groups, f \in Frame :
           Keeps(t, Len(stack[t]), <<f>>) /\ f.at = 0 /\ f.list = groups[g]
    BY <1>4, FlushFacts
  <2>3. groups[g] <= Len(lists)
    BY ListTypes DEF EventTypeOK
  <2> QED BY <1>g, <2>1, <2>2, <2>3, ShapePush
<1>5. ASSUME NEW t \in Threads, FindList(t) PROVE StackShape'
  <2> DEFINE n == Len(stack[t])
             d == stack[t][n]
  <2>1. PICK f \in Frame :
           /\ n \in Nat \ {0} /\ d \in Frame /\ d.op = "defer"
           /\ Keeps(t, n - 1, <<f>>) /\ f.ev = d.ev /\ f.from = d.from
           /\ d.ev.group \in Groups /\ f.list = groups[d.ev.group] /\ f.op \in {"create", "defer"}
           /\ lists' = lists
    BY <1>5, FindListFacts DEF queues
  <2>2. GoesOn(d, f) /\ FrameOK(f, lists')
    <3>1. groups[d.ev.group] <= Len(lists)
      BY <2>1, ListTypes DEF EventTypeOK
    <3> HIDE DEF d
    <3> QED BY <2>1, <3>1 DEF GoesOn, FrameOK
  <2> QED BY <1>g, <1>o, <2>1, <2>2, ShapeGoesOnAlone
<1>6. ASSUME NEW t \in Threads, CreateList(t) PROVE StackShape'
  <2> DEFINE n == Len(stack[t])
             d == stack[t][n]
             f == [d EXCEPT !.op = "defer", !.list = Len(lists) + 1]
  <2>1. /\ n \in Nat \ {0} /\ d \in Frame /\ d.op = "create"
        /\ Keeps(t, n - 1, <<f>>) /\ Len(lists') = Len(lists) + 1
    BY <1>6, CreateListFacts
  <2>2. GoesOn(d, f) /\ FrameOK(f, lists')
    <3> HIDE DEF d
    <3> QED BY <2>1, ListTypes DEF GoesOn, FrameOK, Frame
  <2> HIDE DEF f
  <2> QED BY <1>g, <1>o, <2>1, <2>2, ShapeGoesOnAlone
<1>7. ASSUME NEW t \in Threads, FireFirst(t) \/ FireNext(t) PROVE StackShape'
  <2> DEFINE n == Len(stack[t])
             d == stack[t][n]
  <2>1. PICK r \in 1 .. Len(Receivers) :
           /\ n \in Nat \ {0} /\ d \in Frame /\ d.op = "fire"
           /\ Keeps(t, n - 1, <<[d EXCEPT !.at = r]>>) /\ lists' = lists
    BY <1>7, GiveFacts DEF queues
  <2> DEFINE f == [d EXCEPT !.at = r]
  <2>2. GoesOn(d, f) /\ FrameOK(f, lists')
    <3>1. FrameOK(d, lists)
      BY <1>o, <2>1
    <3> HIDE DEF d
    <3> QED BY <2>1, <3>1, SetupFacts DEF GoesOn, FrameOK, Frame
  <2> HIDE DEF f
  <2>3. Keeps(t, n - 1, <<f>>)
    BY <2>1 DEF f
  <2> QED BY <1>g, <1>o, <2>1, <2>2, <2>3, ShapeGoesOnAlone
<1>8. ASSUME NEW t \in Threads, FlushNext(t) PROVE StackShape'
  <2> DEFINE n == Len(stack[t])
             d == stack[t][n]
             f == [d EXCEPT !.at = @ + 1]
             g == FireFrame(lists[d.list][d.at + 1])
  <2>1. /\ n \in Nat \ {0} /\ d \in Frame /\ d.op = "flush"
        /\ d.list \in 1 .. Len(lists) /\ d.at \in Nat /\ d.at + 1 \in 1 .. Len(lists[d.list])
        /\ Keeps(t, n - 1, <<f, g>>) /\ lists' = lists
    BY <1>8, FlushNextFacts DEF queues
  <2>2. /\ GoesOn(d, f) /\ FrameOK(f, lists') /\ FrameOK(g, lists')
        /\ Within(f, g, lists')
    <3>1. Len(lists[d.list]) \in Nat /\ Len(lists) \in Nat
      BY <2>1, ListTypes
    <3> HIDE DEF d
    <3>2. f.op = "flush" /\ f.list = d.list /\ f.at = d.at + 1 /\ f.ev = d.ev /\ f.from = d.from
      BY <2>1 DEF Frame
    <3>3. g.op = "fire" /\ g.list = 0 /\ g.at = 0 /\ g.ev = lists[d.list][d.at + 1]
      BY DEF FireFrame
    <3> HIDE DEF f, g
    <3> QED BY <2>1, <3>1, <3>2, <3>3, SetupFacts DEF GoesOn, FrameOK, Within
  <2> HIDE DEF f, g
  <2> DEFINE s == <<f, g>>
  <2>3. Len(s) = 2 /\ s[1] = f /\ s[2] = g /\ Keeps(t, n - 1, s)
    BY <2>1
  <2> HIDE DEF s
  <2>4. (\A j \in 1 .. Len(s) : FrameOK(s[j], lists'))
        /\ \A j \in 1 .. Len(s) - 1 : Within(s[j], s[j + 1], lists')
    <3>1. \A j \in 1 .. Len(s) : j = 1 \/ j = 2
      BY <2>3
    <3>2. \A j \in 1 .. Len(s) - 1 : j = 1 /\ j + 1 = 2
      BY <2>3
    <3> QED BY <2>2, <2>3, <3>1, <3>2
  <2>5. n \in 1 .. Len(stack[t]) /\ Len(s) # 0 /\ GoesOn(stack[t][n], s[1])
    BY <1>o, <2>1, <2>2, <2>3
  <2> QED BY <1>g, <2>3, <2>4, <2>5, ShapeGoesOn
<1>9. ASSUME NEW t \in Threads,
             \/ AppendArgs(t) \/ FlushEnd(t) \/ FireSilenced(t) \/ FireEnd(t) \/ ReceiverRaises(t)
      PROVE  StackShape'
  <2>1. \E k : Keeps(t, k, <<>>)
    BY <1>9, AppendArgsFacts, FlushEndFacts, FireOverFacts, ReceiverRaisesFacts
  <2> QED BY <1>g, <2>1, ShapePop
<1>10. ASSUME NEW t \in Threads, FlushRaises(t) \/ FireRaises(t) PROVE StackShape'
  <2>1. PICK named : 
           Unwinds(t, named) \/ \E k \in 1 .. Len(stack[t]) - 1, f \in Frame : Caught(t, named, k, f)
    BY <1>10, FlushRaisesFacts, FireRaisesFacts
  <2>2. lists' = lists
    BY <1>10 DEF FlushRaises, FireRaises, queues
  <2> QED BY <1>g, <2>1, <2>2, ShapeRaise
<1> QED BY <1>2, <1>3, <1>4, <1>5, <1>6, <1>7, <1>8, <1>9, <1>10 DEF Next

-----------------------------------------------------------------------------
(* A step, call by call                                                    *)

\* The flush at place i of u catches the error of event e, which it was firing.
Catches(u, i, e) ==
    LET f == stack[u][i] IN
    /\ i < Len(stack[u]) /\ i = Len(stack'[u])
    /\ stack[u][i + 1].op = "fire" /\ stack[u][i + 1].ev.id = e
    /\ f.list \in 1 .. Len(lists) /\ f.at \in 1 .. Len(lists[f.list])
    /\ lists[f.list][f.at].id = e

\* The call at place i of u is there before the step and after it.
Stays(u, i) ==
    LET f == stack[u][i]
        g == stack'[u][i]
    IN  /\ i <= Len(stack[u]) /\ GoesOn(f, g)
        /\ g.op = "defer" /\ g.list # 0 =>
              (f.op = "defer" /\ g.list = f.list) \/ groups'[g.ev.group] = g.list
        /\ f.op = "flush" =>
              /\ g.at = (IF i = Len(stack[u]) /\ i < Len(stack'[u]) THEN f.at + 1 ELSE f.at)
              /\ f.raised \subseteq g.raised
              /\ \A e \in g.raised \ f.raised : Catches(u, i, e)

\* The call at place i of u is new: it has a new event, ...
ComesNew(u, i) ==
    LET g == stack'[u][i] IN
    /\ g.op \in {"fire", "defer"} /\ g.list = 0 /\ g.at = 0 /\ g.from = 0
    /\ g.ev.id = events + 1 /\ events' = events + 1 /\ groups' = groups
    /\ i > 1 => stack[u][i - 1].op = "fire"

\* ... it is a flush that has popped a group, ...
ComesFlush(u, i) ==
    LET g == stack'[u][i] IN
    /\ g.op = "flush" /\ g.at = 0 /\ g.from = events /\ events' = events
    /\ \E h \in Groups : g.list = groups[h] /\ groups' = [groups EXCEPT ![h] = 0]
    /\ i > 1 => stack[u][i - 1].op = "fire"

\* ... or it fires the next event of the flush below.
ComesOfFlush(u, i) ==
    LET f == stack[u][i - 1]
        g == stack'[u][i]
    IN  /\ i > 1 /\ f.op = "flush"
        /\ f.list \in 1 .. Len(lists) /\ f.at + 1 \in 1 .. Len(lists[f.list])
        /\ g.op = "fire" /\ g.from = 0 /\ g.at = 0 /\ g.ev = lists[f.list][f.at + 1]
        /\ events' = events /\ groups' = groups

Comes(u, i) ==
    /\ i = Len(stack[u]) + 1 /\ i = Len(stack'[u])
    /\ stack'[u][i].raised = {} /\ lists' = lists
    /\ ComesNew(u, i) \/ ComesFlush(u, i) \/ ComesOfFlush(u, i)

\* Thread t makes the step.
Moves(t) ==
    \A u \in Threads : \A i \in 1 .. Len(stack'[u]) : Stays(u, i) \/ (u = t /\ Comes(u, i))

LEMMA StaysSame ==
    ASSUME NEW u, NEW i, i <= Len(stack[u]), stack'[u][i] = stack[u][i],
           stack[u][i].op = "flush" => ~(i = Len(stack[u]) /\ i < Len(stack'[u]))
    PROVE  Stays(u, i)
<1> DEFINE f == stack[u][i]
<1>1. GoesOn(f, f)
  BY DEF GoesOn
<1>2. f.op = "flush" =>
         f.at = (IF i = Len(stack[u]) /\ i < Len(stack'[u]) THEN f.at + 1 ELSE f.at)
  OBVIOUS
<1>3. f.raised \subseteq f.raised /\ f.raised \ f.raised = {}
  OBVIOUS
<1> QED BY <1>1, <1>2, <1>3 DEF Stays

LEMMA MovesByKeeps ==
    ASSUME EventTypeOK, EventTypeOK', NEW t \in Threads, NEW k, NEW s, Keeps(t, k, s),
           k # 0 /\ k = Len(stack[t]) /\ Len(s) # 0 => stack[t][k].op # "flush",
           \A j \in 1 .. Len(s) : Stays(t, k + j) \/ Comes(t, k + j)
    PROVE  Moves(t)
<1> SUFFICES ASSUME NEW u \in Threads, NEW i \in 1 .. Len(stack'[u])
             PROVE  Stays(u, i) \/ (u = t /\ Comes(u, i))
  BY DEF Moves
<1>1. /\ k \in 0 .. Len(stack[t]) /\ Len(s) \in Nat /\ Len(stack[t]) \in Nat
      /\ Len(stack[u]) \in Nat /\ Len(stack'[u]) \in Nat
  BY StackTypes, StackTypesNext DEF Keeps
<1>2. CASE u # t \/ i <= k
  <2>1. i \in 1 .. Len(stack[u]) /\ stack'[u][i] = stack[u][i]
    BY <1>1, <1>2 DEF Keeps
  <2>2. stack[u][i].op = "flush" => ~(i = Len(stack[u]) /\ i < Len(stack'[u]))
    <3>1. CASE u # t
      BY <3>1 DEF Keeps
    <3>2. CASE u = t
      BY <1>1, <1>2, <2>1, <3>2 DEF Keeps
    <3> QED BY <3>1, <3>2
  <2> QED BY <1>1, <2>1, <2>2, StaysSame
<1>3. CASE u = t /\ i > k
  <2>1. i - k \in 1 .. Len(s) /\ k + (i - k) = i
    BY <1>1, <1>3 DEF Keeps
  <2>2. Stays(t, k + (i - k)) \/ Comes(t, k + (i - k))
    BY <2>1
  <2> QED BY <1>3, <2>1, <2>2
<1> QED BY <1>1, <1>2, <1>3

LEMMA MovesAlone ==
    ASSUME EventTypeOK, EventTypeOK', NEW t \in Threads, NEW k, NEW f, Keeps(t, k, <<f>>),
           k # 0 /\ k = Len(stack[t]) => stack[t][k].op # "flush",
           stack'[t][k + 1] = f => Stays(t, k + 1) \/ Comes(t, k + 1)
    PROVE  Moves(t)
<1> DEFINE s == <<f>>
<1>1. Len(s) = 1 /\ s[1] = f /\ Keeps(t, k, s)
  OBVIOUS
<1> HIDE DEF s
<1>2. stack'[t][k + 1] = f
  BY <1>1 DEF Keeps
<1>3. \A j \in 1 .. Len(s) : Stays(t, k + j) \/ Comes(t, k + j)
  <2>1. \A j \in 1 .. Len(s) : j = 1
    BY <1>1
  <2> QED BY <1>2, <2>1
<1> QED BY <1>1, <1>3, MovesByKeeps

LEMMA MovesPop ==
    ASSUME EventTypeOK, EventTypeOK', NEW t \in Threads, NEW k, Keeps(t, k, <<>>)
    PROVE  Moves(t)
<1> DEFINE s == <<>>
<1>1. Len(s) = 0 /\ Keeps(t, k, s)
  OBVIOUS
<1> HIDE DEF s
<1> QED BY <1>1, MovesByKeeps

LEMMA MovesRaise ==
    ASSUME EventTypeOK, EventTypeOK', NEW t \in Threads, StackShape, NEW named,
           Unwinds(t, named) \/ \E k \in 1 .. Len(stack[t]) - 1, f \in Frame : Caught(t, named, k, f)
    PROVE  Moves(t)
<1>1. CASE Unwinds(t, named)
  BY <1>1, MovesPop DEF Unwinds
<1>2. ASSUME NEW k \in 1 .. Len(stack[t]) - 1, NEW f \in Frame, Caught(t, named, k, f)
      PROVE  Moves(t)
  <2> DEFINE d == stack[t][k]
             cur == stack[t][k + 1].ev.id
  <2>1. /\ k \in 1 .. Len(stack[t]) /\ k < Len(stack[t]) /\ (k - 1) + 1 = k
        /\ Len(stack[t]) \in Nat
    BY StackTypes
  <2>2. d \in Frame /\ FrameOK(d, lists)
    BY <2>1, StackTypes DEF StackShape
  <2>3. /\ d.op = "flush" /\ stack[t][k + 1].op = "fire" /\ d.list \in 1 .. Len(lists) /\ d.at >= 1
        /\ cur = lists[d.list][d.at].id
        /\ f = [d EXCEPT !.raised = @ \cup {cur}]
        /\ Keeps(t, k - 1, <<f>>)
    BY <1>2 DEF Caught
  <2>4. d.at \in 1 .. Len(lists[d.list])
    <3> HIDE DEF d
    <3> QED BY <2>2, <2>3, ListTypes DEF FrameOK, Frame
  <2>5. /\ f.ev = d.ev /\ f.from = d.from /\ f.op = "flush" /\ f.list = d.list /\ f.at = d.at
        /\ f.raised = d.raised \cup {cur}
    <3> HIDE DEF d, cur
    <3> QED BY <2>2, <2>3 DEF Frame
  <2>6. ASSUME stack'[t][(k - 1) + 1] = f PROVE Stays(t, (k - 1) + 1)
    <3>0. Len(stack'[t]) = k
      <4>1. Len(<<f>>) = 1
        OBVIOUS
      <4> QED BY <2>1, <2>3, <4>1 DEF Keeps
    <3>1. stack'[t][k] = f
      BY <2>1, <2>6
    <3>2. Catches(t, k, cur)
      BY <2>1, <2>3, <2>4, <3>0 DEF Catches
    <3>3. GoesOn(d, f)
      BY <2>3, <2>5 DEF GoesOn
    <3>4. Stays(t, k)
      <4>1. ~(k = Len(stack[t]) /\ k < Len(stack'[t])) /\ k <= Len(stack[t])
        BY <2>1
      <4>2. d.raised \subseteq f.raised /\ \A e \in f.raised \ d.raised : Catches(t, k, e)
        <5> HIDE DEF cur, d
        <5> QED BY <2>5, <3>2
      <4> HIDE DEF cur
      <4> QED BY <2>3, <2>5, <3>1, <3>3, <4>1, <4>2 DEF Stays
    <3> QED BY <2>1, <3>4
  <2>7. ~(k - 1 # 0 /\ k - 1 = Len(stack[t]))
    BY <2>1
  <2> QED BY <2>3, <2>6, <2>7, MovesAlone
<1> QED BY <1>1, <1>2

LEMMA StepMoves ==
    ASSUME EventTypeOK, EventTypeOK', StackShape, IdsAreCounted, [Next]_vars
    PROVE  \E t : Moves(t)
<1> USE DEF config, queues, counts, history
<1>n. ASSUME NEW t \in Threads, Len(stack[t]) \in Nat \ {0}
      PROVE  /\ (Len(stack[t]) - 1) + 1 = Len(stack[t])
             /\ ~(Len(stack[t]) - 1 # 0 /\ Len(stack[t]) - 1 = Len(stack[t]))
  BY <1>n
<1>k. ASSUME NEW t \in Threads, NEW k, NEW f, Keeps(t, k, <<f>>)
      PROVE  Len(stack'[t]) = k + 1
  <2>1. Len(<<f>>) = 1
    OBVIOUS
  <2> QED BY <1>k, <2>1 DEF Keeps
<1>2. CASE Configure \/ UNCHANGED vars
  <2>1. stack' = stack
    BY <1>2 DEF Configure, vars
  <2>2. \A u \in Threads : \A i \in 1 .. Len(stack'[u]) : Stays(u, i)
    <3> SUFFICES ASSUME NEW u \in Threads, NEW i \in 1 .. Len(stack[u]) PROVE Stays(u, i)
      BY <2>1
    <3>1. Len(stack[u]) \in Nat
      BY StackTypes
    <3>2. i <= Len(stack[u]) /\ ~(i = Len(stack[u]) /\ i < Len(stack'[u]))
      BY <2>1, <3>1
    <3> QED BY <2>1, <3>2, Zenon DEF Stays, GoesOn
  <2> QED BY <2>2 DEF Moves
<1>3. ASSUME NEW t \in Threads, Fire(t) \/ Defer(t) PROVE Moves(t)
  <2> DEFINE n == Len(stack[t])
  <2>1. MayCall(t)
    BY <1>3 DEF Fire, Defer
  <2>2. PICK f \in Frame :
           /\ Keeps(t, n, <<f>>) /\ f.op \in {"fire", "defer"}
           /\ f.at = 0 /\ f.list = 0 /\ f.raised = {} /\ f.from = 0 /\ f.ev.id = events + 1
           /\ events' = events + 1 /\ UNCHANGED queues
    BY <1>3, FireFacts, DeferFacts
  <2>3. n \in Nat /\ (n > 0 => stack[t][n].op = "fire")
    BY <2>1, MayCallFacts
  <2>4. Len(stack'[t]) = n + 1
    BY <1>k, <2>2
  <2>5. ASSUME stack'[t][n + 1] = f PROVE Comes(t, n + 1)
    BY <2>2, <2>3, <2>4, <2>5 DEF Comes, ComesNew
  <2> QED BY <2>2, <2>3, <2>5, MovesAlone
<1>4. ASSUME NEW t \in Threads, Flush(t) PROVE Moves(t)
  <2> DEFINE n == Len(stack[t])
  <2>1. MayCall(t)
    BY <1>4 DEF Flush
  <2>2. PICK g \in Groups, f \in Frame :
           /\ Keeps(t, n, <<f>>) /\ f.op = "flush"
           /\ f.at = 0 /\ f.list = groups[g] /\ f.raised = {} /\ f.from = events
           /\ groups' = [groups EXCEPT ![g] = 0] /\ lists' = lists /\ events' = events
    <3>1. PICK g \in Groups, f \in Frame : Pops(t, g, f)
      BY <1>4, FlushPops
    <3>2. lists' = lists /\ events' = events
      BY <1>4 DEF Flush
    <3> QED BY <3>1, <3>2 DEF Pops
  <2>3. n \in Nat /\ (n > 0 => stack[t][n].op = "fire")
    BY <2>1, MayCallFacts
  <2>4. Len(stack'[t]) = n + 1
    BY <1>k, <2>2
  <2>5. ASSUME stack'[t][n + 1] = f PROVE Comes(t, n + 1)
    <3>1. \E h \in Groups : f.list = groups[h] /\ groups' = [groups EXCEPT ![h] = 0]
      BY <2>2
    <3>2. (n + 1) - 1 = n /\ (n + 1 > 1 => stack[t][n].op = "fire")
      BY <2>3
    <3>3. ComesFlush(t, n + 1)
      BY <2>2, <2>5, <3>1, <3>2 DEF ComesFlush
    <3> QED BY <2>2, <2>4, <2>5, <3>3 DEF Comes
  <2> QED BY <2>2, <2>3, <2>5, MovesAlone
<1>5. ASSUME NEW t \in Threads, FindList(t) PROVE Moves(t)
  <2> DEFINE n == Len(stack[t])
             d == stack[t][n]
  <2>1. PICK f \in Frame :
           /\ n \in Nat \ {0} /\ d \in Frame /\ d.op = "defer"
           /\ Keeps(t, n - 1, <<f>>) /\ f.ev = d.ev /\ f.from = d.from
           /\ f.list = groups[d.ev.group] /\ f.op \in {"create", "defer"}
           /\ groups' = groups
    BY <1>5, FindListFacts
  <2>2. GoesOn(d, f)
    BY <2>1 DEF GoesOn
  <2>3. ASSUME stack'[t][(n - 1) + 1] = f PROVE Stays(t, (n - 1) + 1)
    <3>1. stack'[t][n] = f /\ n <= Len(stack[t])
      BY <1>n, <2>1, <2>3
    <3>2. Stays(t, n)
      BY <2>1, <2>2, <3>1 DEF Stays
    <3> QED BY <1>n, <2>1, <3>2
  <2> QED BY <1>n, <2>1, <2>3, MovesAlone
<1>6. ASSUME NEW t \in Threads, CreateList(t) PROVE Moves(t)
  <2> DEFINE n == Len(stack[t])
             d == stack[t][n]
             f == [d EXCEPT !.op = "defer", !.list = Len(lists) + 1]
  <2>1. /\ n \in Nat \ {0} /\ d \in Frame /\ d.op = "create"
        /\ Keeps(t, n - 1, <<f>>) /\ d.ev.group \in Groups
        /\ groups' = [groups EXCEPT ![d.ev.group] = Len(lists) + 1]
    BY <1>6, CreateListFacts
  <2>2. f.ev = d.ev /\ f.from = d.from /\ f.op = "defer" /\ f.list = Len(lists) + 1
    <3> HIDE DEF d
    <3> QED BY <2>1 DEF Frame
  <2> HIDE DEF f
  <2>3. GoesOn(d, f)
    BY <2>1, <2>2 DEF GoesOn
  <2>4. groups'[f.ev.group] = f.list
    BY <2>1, <2>2 DEF EventTypeOK
  <2>5. ASSUME stack'[t][(n - 1) + 1] = f PROVE Stays(t, (n - 1) + 1)
    <3>1. stack'[t][n] = f /\ n <= Len(stack[t])
      BY <1>n, <2>1, <2>5
    <3>2. Stays(t, n)
      BY <2>1, <2>2, <2>3, <2>4, <3>1 DEF Stays
    <3> QED BY <1>n, <2>1, <3>2
  <2> QED BY <1>n, <2>1, <2>5, MovesAlone
<1>7. ASSUME NEW t \in Threads, FireFirst(t) \/ FireNext(t) PROVE Moves(t)
  <2> DEFINE n == Len(stack[t])
             d == stack[t][n]
  <2>1. PICK r \in 1 .. Len(Receivers) :
           /\ n \in Nat \ {0} /\ d \in Frame /\ d.op = "fire"
           /\ Keeps(t, n - 1, <<[d EXCEPT !.at = r]>>)
    BY <1>7, GiveFacts
  <2> DEFINE f == [d EXCEPT !.at = r]
  <2>2. f.ev = d.ev /\ f.from = d.from /\ f.op = "fire" /\ f.at # 0
    <3> HIDE DEF d
    <3>1. r # 0
      OBVIOUS
    <3> QED BY <2>1, <3>1 DEF Frame
  <2>k. Keeps(t, n - 1, <<f>>)
    BY <2>1
  <2> HIDE DEF f
  <2>3. GoesOn(d, f)
    BY <2>1, <2>2 DEF GoesOn
  <2>4. ASSUME stack'[t][(n - 1) + 1] = f PROVE Stays(t, (n - 1) + 1)
    <3>1. stack'[t][n] = f /\ n <= Len(stack[t])
      BY <1>n, <2>1, <2>4
    <3>2. Stays(t, n)
      BY <2>1, <2>2, <2>3, <3>1 DEF Stays
    <3> QED BY <1>n, <2>1, <3>2
  <2> QED BY <1>n, <2>1, <2>k, <2>4, MovesAlone
<1>8. ASSUME NEW t \in Threads, FlushNext(t) PROVE Moves(t)
  <2> DEFINE n == Len(stack[t])
             d == stack[t][n]
             f == [d EXCEPT !.at = @ + 1]
             g == FireFrame(lists[d.list][d.at + 1])
  <2>1. /\ n \in Nat \ {0} /\ d \in Frame /\ d.op = "flush"
        /\ d.list \in 1 .. Len(lists) /\ d.at \in Nat /\ d.at + 1 \in 1 .. Len(lists[d.list])
        /\ Keeps(t, n - 1, <<f, g>>) /\ lists' = lists /\ groups' = groups /\ events' = events
    BY <1>8, FlushNextFacts
  <2>2. /\ f.ev = d.ev /\ f.from = d.from /\ f.op = "flush" /\ f.list = d.list
        /\ f.at = d.at + 1 /\ f.raised = d.raised
    <3> HIDE DEF d
    <3> QED BY <2>1 DEF Frame
  <2>3. /\ g.op = "fire" /\ g.from = 0 /\ g.at = 0 /\ g.raised = {}
        /\ g.ev = lists[d.list][d.at + 1]
    BY DEF FireFrame
  <2> HIDE DEF f, g
  <2> DEFINE s == <<f, g>>
  <2>4. Len(s) = 2 /\ s[1] = f /\ s[2] = g /\ Keeps(t, n - 1, s)
    BY <2>1
  <2> HIDE DEF s
  <2>5. Len(stack'[t]) = n + 1 /\ stack'[t][n] = f /\ stack'[t][n + 1] = g /\ n <= Len(stack[t])
    <3>1. (n - 1) + 1 = n /\ (n - 1) + 2 = n + 1
      BY <2>1
    <3>2. 1 \in 1 .. Len(s) /\ 2 \in 1 .. Len(s)
      BY <2>4
    <3>3. stack'[t][(n - 1) + 1] = f /\ stack'[t][(n - 1) + 2] = g /\ Len(stack'[t]) = (n - 1) + 2
      BY <2>4, <3>2 DEF Keeps
    <3> QED BY <2>1, <3>1, <3>3
  <2>6. GoesOn(d, f)
    BY <2>1, <2>2 DEF GoesOn
  <2>7. Stays(t, n)
    BY <2>1, <2>2, <2>5, <2>6 DEF Stays
  <2>8. Comes(t, n + 1)
    <3>1. (n + 1) - 1 = n /\ n + 1 > 1
      BY <2>1
    <3>2. ComesOfFlush(t, n + 1)
      BY <2>1, <2>3, <2>5, <3>1 DEF ComesOfFlush
    <3> QED BY <2>1, <2>3, <2>5, <3>2 DEF Comes
  <2>9. \A j \in 1 .. Len(s) : Stays(t, (n - 1) + j) \/ Comes(t, (n - 1) + j)
    <3>1. \A j \in 1 .. Len(s) : j = 1 \/ j = 2
      BY <2>4
    <3>2. (n - 1) + 1 = n /\ (n - 1) + 2 = n + 1
      BY <2>1
    <3> QED BY <2>7, <2>8, <3>1, <3>2
  <2> QED BY <1>n, <2>1, <2>4, <2>9, MovesByKeeps
<1>9. ASSUME NEW t \in Threads,
             \/ AppendArgs(t) \/ FlushEnd(t) \/ FireSilenced(t) \/ FireEnd(t) \/ ReceiverRaises(t)
      PROVE  Moves(t)
  <2>1. \E k : Keeps(t, k, <<>>)
    BY <1>9, AppendArgsFacts, FlushEndFacts, FireOverFacts, ReceiverRaisesFacts
  <2> QED BY <2>1, MovesPop
<1>10. ASSUME NEW t \in Threads, FlushRaises(t) \/ FireRaises(t) PROVE Moves(t)
  <2>1. PICK named : 
           Unwinds(t, named) \/ \E k \in 1 .. Len(stack[t]) - 1, f \in Frame : Caught(t, named, k, f)
    BY <1>10, FlushRaisesFacts, FireRaisesFacts
  <2> QED BY <2>1, MovesRaise
<1> QED BY <1>2, <1>3, <1>4, <1>5, <1>6, <1>7, <1>8, <1>9, <1>10 DEF Next

\* Position p of list l is there before the step.
IsOld(l, p) ==
    /\ l \in 1 .. Len(lists) /\ p \in 1 .. Len(lists[l])
    /\ lists'[l][p] = lists[l][p]

\* Position p of list l is new: thread t appends the event that it defers.
Appends(t, l, p) ==
    LET n == Len(stack[t]) IN
    /\ n \in Nat \ {0} /\ Len(stack'[t]) = n - 1
    /\ stack[t][n].op = "defer" /\ stack[t][n].list = l /\ lists'[l][p] = stack[t][n].ev
    /\ l \in 1 .. Len(lists) /\ p = Len(lists[l]) + 1
    /\ groups' = groups /\ events' = events

LEMMA StepPositions ==
    ASSUME EventTypeOK, EventTypeOK', StackShape, [Next]_vars,
           NEW l \in 1 .. Len(lists'), NEW p \in 1 .. Len(lists'[l])
    PROVE  IsOld(l, p) \/ \E t \in Threads : Appends(t, l, p)
<1> USE DEF config, queues, counts, history
<1>1. CASE lists' = lists
  BY <1>1 DEF IsOld
<1>2. CASE Configure \/ UNCHANGED vars
  BY <1>1, <1>2 DEF Configure, vars
<1>3. ASSUME NEW t \in Threads,
             \/ Fire(t) \/ Defer(t) \/ FindList(t)
             \/ Flush(t) \/ FlushNext(t) \/ FlushEnd(t) \/ FlushRaises(t)
             \/ FireRaises(t) \/ FireSilenced(t) \/ FireFirst(t) \/ FireNext(t)
             \/ FireEnd(t) \/ ReceiverRaises(t)
      PROVE  lists' = lists
  BY <1>3 DEF Fire, Defer, FindList, Flush, FlushNext, FlushEnd, FlushRaises, FireRaises,
              FireSilenced, FireFirst, FireNext, FireEnd, ReceiverRaises
<1>4. ASSUME NEW t \in Threads, CreateList(t) PROVE IsOld(l, p)
  <2>1. /\ Len(lists) \in Nat /\ Len(lists') = Len(lists) + 1
        /\ \A k \in 1 .. Len(lists) : lists'[k] = lists[k]
        /\ lists'[Len(lists) + 1] = <<>>
    BY <1>4, CreateListFacts
  <2>2. l # Len(lists) + 1
    BY <2>1
  <2>3. l \in 1 .. Len(lists)
    BY <2>1, <2>2
  <2> QED BY <2>1, <2>3 DEF IsOld
<1>5. ASSUME NEW t \in Threads, AppendArgs(t) PROVE IsOld(l, p) \/ Appends(t, l, p)
  <2> DEFINE n == Len(stack[t])
             d == stack[t][n]
             m == Len(lists[d.list])
  <2>1. /\ n \in Nat \ {0} /\ d.op = "defer" /\ Keeps(t, n - 1, <<>>)
        /\ d.list \in 1 .. Len(lists) /\ m \in Nat /\ Len(lists') = Len(lists)
        /\ \A k \in 1 .. Len(lists) : k # d.list => lists'[k] = lists[k]
        /\ Len(lists'[d.list]) = m + 1
        /\ \A q \in 1 .. m : lists'[d.list][q] = lists[d.list][q]
        /\ lists'[d.list][m + 1] = d.ev
        /\ groups' = groups /\ events' = events
    BY <1>5, AppendArgsFacts
  <2>2. CASE l # d.list
    BY <2>1, <2>2 DEF IsOld
  <2>3. CASE l = d.list /\ p # m + 1
    <3>1. p \in 1 .. m
      <4>1. m \in Nat /\ Len(lists'[l]) = m + 1
        BY <2>1, <2>3
      <4> HIDE DEF m
      <4> QED BY <2>3, <4>1
    <3>2. l \in 1 .. Len(lists) /\ p \in 1 .. Len(lists[l]) /\ lists'[l][p] = lists[l][p]
      BY <2>1, <2>3, <3>1
    <3> QED BY <3>2 DEF IsOld
  <2>4. CASE l = d.list /\ p = m + 1
    <3>1. Len(stack'[t]) = n - 1
      <4>1. Len(<<>>) = 0
        OBVIOUS
      <4>2. n \in Nat /\ Len(stack'[t]) = (n - 1) + Len(<<>>)
        BY <2>1 DEF Keeps
      <4> HIDE DEF n
      <4> QED BY <4>1, <4>2
    <3> QED BY <2>1, <2>4, <3>1 DEF Appends
  <2> QED BY <2>2, <2>3, <2>4
<1> QED BY <1>1, <1>2, <1>3, <1>4, <1>5 DEF Next

\* What becomes of the list of a group.
LEMMA StepGroups ==
    ASSUME EventTypeOK, EventTypeOK', StackShape, [Next]_vars, NEW g \in Groups
    PROVE  \/ groups'[g] = groups[g] \/ groups'[g] = 0
           \/ /\ groups'[g] = Len(lists) + 1 /\ lists' # lists
              /\ \A h \in Groups : h # g => groups'[h] = groups[h]
<1> USE DEF config, queues, counts, history
<1>0. groups \in [Groups -> 0 .. Len(lists)]
  BY DEF EventTypeOK
<1>2. CASE Configure \/ UNCHANGED vars
  BY <1>2 DEF Configure, vars
<1>3. ASSUME NEW t \in Threads,
             \/ Fire(t) \/ Defer(t) \/ FindList(t) \/ AppendArgs(t)
             \/ FlushNext(t) \/ FlushEnd(t) \/ FlushRaises(t)
             \/ FireRaises(t) \/ FireSilenced(t) \/ FireFirst(t) \/ FireNext(t)
             \/ FireEnd(t) \/ ReceiverRaises(t)
      PROVE  groups' = groups
  BY <1>3 DEF Fire, Defer, FindList, AppendArgs, FlushNext, FlushEnd, FlushRaises, FireRaises,
              FireSilenced, FireFirst, FireNext, FireEnd, ReceiverRaises
<1>4. ASSUME NEW t \in Threads, Flush(t) PROVE groups'[g] = groups[g] \/ groups'[g] = 0
  <2>1. PICK h \in Groups : groups' = [groups EXCEPT ![h] = 0]
    BY <1>4, FlushFacts
  <2> QED BY <1>0, <2>1
<1>5. ASSUME NEW t \in Threads, CreateList(t)
      PROVE  \/ groups'[g] = groups[g]
             \/ /\ groups'[g] = Len(lists) + 1 /\ lists' # lists
                /\ \A h \in Groups : h # g => groups'[h] = groups[h]
  <2>1. PICK e \in Groups :
           /\ groups' = [groups EXCEPT ![e] = Len(lists) + 1]
           /\ Len(lists) \in Nat /\ Len(lists') = Len(lists) + 1
    BY <1>5, CreateListFacts
  <2> QED BY <1>0, <2>1
<1> QED BY <1>2, <1>3, <1>4, <1>5 DEF Next

-----------------------------------------------------------------------------
(* Lists and groups                                                        *)

LEMMA ListsAreOwnedNext ==
    ASSUME EventTypeOK, EventTypeOK', StackShape, ListsAreOwned, [Next]_vars, NEW t, Moves(t)
    PROVE  ListsAreOwned'
<1>0. /\ groups \in [Groups -> 0 .. Len(lists)] /\ Len(lists) \in Nat
      /\ \A g \in Groups : groups[g] \in Nat /\ groups[g] <= Len(lists)
  BY ListTypes DEF EventTypeOK
<1>1. ASSUME NEW g \in Groups, NEW h \in Groups, groups'[g] = groups'[h], groups'[g] # 0
      PROVE  g = h
  BY <1>0, <1>1, StepGroups DEF ListsAreOwned
<1>f. ASSUME NEW u \in Threads, NEW i \in 1 .. Len(stack'[u]), stack'[u][i].op = "flush"
      PROVE  \/ /\ i \in 1 .. Len(stack[u]) /\ stack[u][i].op = "flush"
                /\ stack'[u][i].list = stack[u][i].list /\ stack[u][i].list <= Len(lists)
             \/ /\ u = t /\ i = Len(stack[u]) + 1 /\ lists' = lists
                /\ \E h \in Groups : /\ stack'[u][i].list = groups[h]
                                     /\ groups' = [groups EXCEPT ![h] = 0]
  <2>1. CASE Stays(u, i)
    <3>1. i \in 1 .. Len(stack[u])
      BY <2>1, StackTypes DEF Stays
    <3>2. FrameOK(stack[u][i], lists)
      BY <3>1 DEF StackShape
    <3> QED BY <1>f, <2>1, <3>1, <3>2 DEF Stays, GoesOn, FrameOK
  <2>2. CASE u = t /\ Comes(u, i)
    BY <1>f, <2>2 DEF Comes, ComesNew, ComesFlush, ComesOfFlush
  <2> QED BY <2>1, <2>2 DEF Moves
<1>2. ASSUME NEW u \in Threads, NEW i \in 1 .. Len(stack'[u]),
             stack'[u][i].op = "flush", stack'[u][i].list # 0,
             NEW g \in Groups
      PROVE  groups'[g] # stack'[u][i].list
  <2>1. CASE /\ i \in 1 .. Len(stack[u]) /\ stack[u][i].op = "flush"
             /\ stack'[u][i].list = stack[u][i].list /\ stack[u][i].list <= Len(lists)
    <3>1. groups[g] # stack[u][i].list
      BY <1>2, <2>1 DEF ListsAreOwned
    <3>2. groups'[g] = groups[g] \/ groups'[g] = 0 \/ groups'[g] = Len(lists) + 1
      BY StepGroups
    <3>3. stack[u][i] \in Frame
      BY <2>1, StackTypes
    <3> QED BY <1>0, <1>2, <2>1, <3>1, <3>2, <3>3 DEF Frame
  <2>2. ASSUME NEW h \in Groups, stack'[u][i].list = groups[h],
               groups' = [groups EXCEPT ![h] = 0]
        PROVE  groups'[g] # stack'[u][i].list
    BY <1>0, <1>2, <2>2 DEF ListsAreOwned
  <2> QED BY <1>f, <1>2, <2>1, <2>2
<1>3. ASSUME NEW u \in Threads, NEW i \in 1 .. Len(stack'[u]),
             NEW v \in Threads, NEW j \in 1 .. Len(stack'[v]),
             stack'[u][i].op = "flush", stack'[u][i].list # 0,
             stack'[v][j].op = "flush", stack'[v][j].list = stack'[u][i].list
      PROVE  u = v /\ i = j
  <2> DEFINE Old(w, k) == /\ k \in 1 .. Len(stack[w]) /\ stack[w][k].op = "flush"
                          /\ stack'[w][k].list = stack[w][k].list
             New(w, k) == /\ w = t /\ k = Len(stack[w]) + 1
                          /\ \E h \in Groups : stack'[w][k].list = groups[h]
  <2>1. (Old(u, i) \/ New(u, i)) /\ (Old(v, j) \/ New(v, j))
    BY <1>f, <1>3
  <2>2. CASE Old(u, i) /\ Old(v, j)
    BY <1>3, <2>2 DEF ListsAreOwned
  <2>3. CASE New(u, i) /\ New(v, j)
    BY <2>3
  <2>4. ~(Old(u, i) /\ New(v, j))
    BY <1>3 DEF ListsAreOwned
  <2>5. ~(New(u, i) /\ Old(v, j))
    BY <1>3 DEF ListsAreOwned
  <2> QED BY <2>1, <2>2, <2>3, <2>4, <2>5, Zenon
<1> QED BY <1>1, <1>2, <1>3 DEF ListsAreOwned

-----------------------------------------------------------------------------
(* Events are counted                                                      *)

\* An event that a call holds has been counted.
LEMMA HeldIsCounted ==
    ASSUME EventTypeOK, StackShape, IdsAreCounted, RaisedWereFired,
           NEW t \in Threads, NEW i \in 1 .. Len(stack[t]), NEW e, Holds(stack[t][i], e)
    PROVE  e \in 1 .. events
<1> DEFINE f == stack[t][i]
<1>1. f \in Frame /\ FrameOK(f, lists)
  BY StackTypes DEF StackShape
<1>2. f.op = "flush" /\ f.list # 0 =>
         f.list \in 1 .. Len(lists) /\ f.at \in 0 .. Len(lists[f.list]) /\ Len(lists[f.list]) \in Nat
  <2> HIDE DEF f
  <2> QED BY <1>1, RemainingFacts, ListTypes
<1>3. CASE f.op # "flush"
  BY <1>3 DEF Holds, IdsAreCounted
<1>4. CASE f.op = "flush" /\ e \in f.raised
  <2>1. PICK p \in 1 .. f.at : lists[f.list][p].id = e /\ f.list # 0
    BY <1>4 DEF RaisedWereFired
  <2>2. f.list \in 1 .. Len(lists) /\ p \in 1 .. Len(lists[f.list])
    <3> HIDE DEF f
    <3> QED BY <1>2, <1>4, <2>1
  <2> QED BY <2>1, <2>2 DEF IdsAreCounted
<1>5. CASE f.op = "flush" /\ f.list # 0 /\ \E p \in f.at + 1 .. Len(lists[f.list]) : lists[f.list][p].id = e
  <2>1. PICK p \in f.at + 1 .. Len(lists[f.list]) : lists[f.list][p].id = e
    BY <1>5
  <2>2. f.list \in 1 .. Len(lists) /\ p \in 1 .. Len(lists[f.list])
    <3> HIDE DEF f
    <3> QED BY <1>2, <1>5, <2>1
  <2> QED BY <2>1, <2>2 DEF IdsAreCounted
<1> QED BY <1>3, <1>4, <1>5 DEF Holds

\* What a step puts into the histories comes from the call on top.
LEMMA StepHistory ==
    ASSUME EventTypeOK, StackShape, IdsAreCounted, [Next]_vars
    PROVE  /\ \/ fired' = fired
              \/ \E t \in Threads : /\ Len(stack[t]) \in 1 .. Len(stack[t])
                                    /\ stack[t][Len(stack[t])].op = "fire"
                                    /\ stack[t][Len(stack[t])].at = 0
                                    /\ stack[t][Len(stack[t])].ev \in Event
                                    /\ fired' = Append(fired, stack[t][Len(stack[t])].ev)
           /\ \/ seen' = seen
              \/ \E t \in Threads, r \in ToSet(Receivers) :
                    /\ Len(stack[t]) \in 1 .. Len(stack[t])
                    /\ stack[t][Len(stack[t])].op = "fire"
                    /\ stack[t][Len(stack[t])].ev \in Event
                    /\ seen' = [seen EXCEPT ![r] = Append(seen[r], stack[t][Len(stack[t])].ev)]
<1> USE DEF config, queues, counts, history
<1> DEFINE FiredStep(t) == /\ Len(stack[t]) \in 1 .. Len(stack[t])
                           /\ stack[t][Len(stack[t])].op = "fire"
                           /\ stack[t][Len(stack[t])].at = 0
                           /\ stack[t][Len(stack[t])].ev \in Event
                           /\ fired' = Append(fired, stack[t][Len(stack[t])].ev)
           SeenStep(t, r) == 
                    /\ Len(stack[t]) \in 1 .. Len(stack[t])
                    /\ stack[t][Len(stack[t])].op = "fire"
                    /\ stack[t][Len(stack[t])].ev \in Event
                    /\ seen' = [seen EXCEPT ![r] = Append(seen[r], stack[t][Len(stack[t])].ev)]
<1>1. ASSUME Configure \/ UNCHANGED vars PROVE fired' = fired /\ seen' = seen
  BY <1>1 DEF Configure, vars
<1>2. ASSUME NEW t \in Threads,
             \/ Fire(t) \/ Defer(t) \/ FindList(t) \/ CreateList(t) \/ AppendArgs(t)
             \/ Flush(t) \/ FlushNext(t) \/ FlushEnd(t) \/ FlushRaises(t) \/ ReceiverRaises(t)
      PROVE  fired' = fired /\ seen' = seen
  BY <1>2 DEF Fire, Defer, FindList, CreateList, AppendArgs, Flush, FlushNext, FlushEnd,
              FlushRaises, ReceiverRaises
<1>n. ASSUME NEW t \in Threads, Len(stack[t]) \in Nat \ {0}
      PROVE  Len(stack[t]) \in 1 .. Len(stack[t])
  BY <1>n
<1>3. ASSUME NEW t \in Threads, FireRaises(t) PROVE FiredStep(t) /\ seen' = seen
  BY <1>3, <1>n, FireRaisesFacts DEF Frame
<1>4. ASSUME NEW t \in Threads, FireSilenced(t) \/ FireEnd(t)
      PROVE  (FiredStep(t) \/ fired' = fired) /\ seen' = seen
  BY <1>4, <1>n, FireOverFacts DEF Frame
<1>5. ASSUME NEW t \in Threads, FireFirst(t) \/ FireNext(t)
      PROVE  (FiredStep(t) \/ fired' = fired) /\ \E r \in ToSet(Receivers) : SeenStep(t, r)
  <2> DEFINE d == stack[t][Len(stack[t])]
  <2>1. PICK r \in 1 .. Len(Receivers) :
           /\ Len(stack[t]) \in Nat \ {0} /\ d \in Frame /\ d.op = "fire"
           /\ seen' = [seen EXCEPT ![Receivers[r]] = Append(seen[Receivers[r]], d.ev)]
           /\ (d.at = 0 /\ fired' = Append(fired, d.ev)) \/ fired' = fired
    BY <1>5, GiveFacts
  <2>2. d.ev \in Event /\ Receivers[r] \in ToSet(Receivers)
    BY <2>1, SetupFacts DEF Frame
  <2>3. Len(stack[t]) \in 1 .. Len(stack[t])
    BY <1>n, <2>1
  <2>4. SeenStep(t, Receivers[r])
    BY <2>1, <2>2, <2>3
  <2>5. FiredStep(t) \/ fired' = fired
    BY <2>1, <2>2, <2>3
  <2> HIDE DEF SeenStep, FiredStep
  <2> QED BY <2>2, <2>4, <2>5
<1> HIDE DEF FiredStep, SeenStep
<1>6. (fired' = fired \/ \E t \in Threads : FiredStep(t))
      /\ (seen' = seen \/ \E t \in Threads, r \in ToSet(Receivers) : SeenStep(t, r))
  <2> DEFINE G == (fired' = fired \/ \E t \in Threads : FiredStep(t))
                  /\ (seen' = seen \/ \E t \in Threads, r \in ToSet(Receivers) : SeenStep(t, r))
  <2>1. ASSUME Configure \/ UNCHANGED vars PROVE G
    BY <1>1, <2>1
  <2>2. ASSUME NEW t \in Threads,
               \/ Fire(t) \/ Defer(t) \/ FindList(t) \/ CreateList(t) \/ AppendArgs(t)
               \/ Flush(t) \/ FlushNext(t) \/ FlushEnd(t) \/ FlushRaises(t) \/ ReceiverRaises(t)
        PROVE  G
    BY <1>2, <2>2
  <2>3. ASSUME NEW t \in Threads, FireRaises(t) PROVE G
    BY <1>3, <2>3
  <2>4. ASSUME NEW t \in Threads, FireSilenced(t) \/ FireEnd(t) PROVE G
    BY <1>4, <2>4
  <2>5. ASSUME NEW t \in Threads, FireFirst(t) \/ FireNext(t) PROVE G
    BY <1>5, <2>5
  <2> HIDE DEF G
  <2>6. G
    BY <2>1, <2>2, <2>3, <2>4, <2>5 DEF Next
  <2> QED BY <2>6 DEF G
<1> QED BY <1>6 DEF FiredStep, SeenStep

-----------------------------------------------------------------------------
(* Who holds an event                                                      *)

\* A flush that holds an event has it in its list, and not where the call
\* above it comes from.
LEMMA FlushHolds ==
    ASSUME EventTypeOK, StackShape, RaisedWereFired,
           NEW t \in Threads, NEW i \in 1 .. Len(stack[t]), NEW e, Holds(stack[t][i], e),
           stack[t][i].op = "flush"
    PROVE  /\ stack[t][i].list \in 1 .. Len(lists)
           /\ \E p \in 1 .. Len(lists[stack[t][i].list]) :
                 /\ lists[stack[t][i].list][p].id = e
                 /\ i < Len(stack[t]) => p # stack[t][i].at
<1> DEFINE f == stack[t][i]
<1>1. f \in Frame /\ FrameOK(f, lists)
  BY StackTypes DEF StackShape
<1>2. f.list # 0 =>
         f.list \in 1 .. Len(lists) /\ f.at \in 0 .. Len(lists[f.list]) /\ Len(lists[f.list]) \in Nat
  <2>1. f.op = "flush"
    OBVIOUS
  <2> HIDE DEF f
  <2> QED BY <1>1, <2>1, RemainingFacts, ListTypes
<1>3. CASE e \in f.raised
  <2>1. PICK p \in 1 .. f.at :
           lists[f.list][p].id = e /\ f.list # 0 /\ (i < Len(stack[t]) => p < f.at)
    BY <1>3 DEF RaisedWereFired
  <2>2. f.list \in 1 .. Len(lists) /\ p \in 1 .. Len(lists[f.list]) /\ (i < Len(stack[t]) => p # f.at)
    <3> HIDE DEF f
    <3> QED BY <1>2, <2>1
  <2> QED BY <2>1, <2>2
<1>4. CASE f.list # 0 /\ \E p \in f.at + 1 .. Len(lists[f.list]) : lists[f.list][p].id = e
  <2>1. PICK p \in f.at + 1 .. Len(lists[f.list]) : lists[f.list][p].id = e
    BY <1>4
  <2>2. f.list \in 1 .. Len(lists) /\ p \in 1 .. Len(lists[f.list]) /\ p # f.at
    <3> HIDE DEF f
    <3> QED BY <1>2, <1>4, <2>1
  <2> QED BY <2>1, <2>2
<1> QED BY <1>3, <1>4 DEF Holds

\* The parts of the invariant, one by one.
Lies(l, p, e) == l \in 1 .. Len(lists) /\ p \in 1 .. Len(lists[l]) /\ lists[l][p].id = e

CallOf(t, i, e) == /\ i \in 1 .. Len(stack[t]) /\ stack[t][i].op # "flush"
                   /\ stack[t][i].ev.id = e

FlushOf(t, i, l) == /\ i \in 1 .. Len(stack[t]) /\ stack[t][i].op = "flush"
                    /\ stack[t][i].list = l

LEMMA PositionOnce ==
    ASSUME PlacesAreDistinct, NEW e, NEW l, NEW p, Lies(l, p, e), NEW m, NEW q, Lies(m, q, e)
    PROVE  l = m /\ p = q
BY DEF PlacesAreDistinct, Lies

LEMMA CallOnce ==
    ASSUME PlacesAreDistinct, NEW e, NEW t \in Threads, NEW i, CallOf(t, i, e),
           NEW u \in Threads, NEW j, CallOf(u, j, e)
    PROVE  t = u /\ i = j
BY DEF PlacesAreDistinct, CallOf

LEMMA CallPlace ==
    ASSUME PlacesAreDistinct, NEW e, NEW t \in Threads, NEW i, CallOf(t, i, e),
           NEW l, NEW p, Lies(l, p, e)
    PROVE  /\ stack[t][i].op = "fire" /\ i > 1
           /\ stack[t][i - 1].op = "flush"
           /\ stack[t][i - 1].list = l /\ stack[t][i - 1].at = p
BY DEF PlacesAreDistinct, CallOf, Lies

LEMMA FlushOnce ==
    ASSUME ListsAreOwned, NEW l, l # 0, NEW t \in Threads, NEW i, FlushOf(t, i, l),
           NEW u \in Threads, NEW j, FlushOf(u, j, l)
    PROVE  t = u /\ i = j
BY DEF ListsAreOwned, FlushOf

\* The event that a flush holds is in the flush's list, and not where the flush is.
FlushAt(t, i, l, p, e) ==
    /\ l # 0 /\ stack[t][i].list = l /\ lists[l][p].id = e
    /\ i < Len(stack[t]) => p # stack[t][i].at

LEMMA FlushHoldsAt ==
    ASSUME EventTypeOK, StackShape, RaisedWereFired,
           NEW t \in Threads, NEW i \in 1 .. Len(stack[t]), NEW e, Holds(stack[t][i], e),
           stack[t][i].op = "flush"
    PROVE  \E l \in 1 .. Len(lists) : \E p \in 1 .. Len(lists[l]) : FlushAt(t, i, l, p, e)
<1>1. stack[t][i].list \in 1 .. Len(lists)
  BY FlushHolds
<1>2. PICK p \in 1 .. Len(lists[stack[t][i].list]) :
         /\ lists[stack[t][i].list][p].id = e
         /\ i < Len(stack[t]) => p # stack[t][i].at
  BY FlushHolds
<1>3. stack[t][i].list # 0
  BY <1>1
<1>4. FlushAt(t, i, stack[t][i].list, p, e)
  BY <1>2, <1>3 DEF FlushAt
<1> QED BY <1>1, <1>4

\* No two calls hold one event.
LEMMA HeldOnce ==
    ASSUME EventTypeOK, StackShape, ListsAreOwned, PlacesAreDistinct, RaisedWereFired,
           NEW t \in Threads, NEW i \in 1 .. Len(stack[t]),
           NEW u \in Threads, NEW j \in 1 .. Len(stack[u]),
           NEW e, Holds(stack[t][i], e), Holds(stack[u][j], e)
    PROVE  t = u /\ i = j
<1>0. ASSUME NEW w \in Threads, NEW k \in 1 .. Len(stack[w]), stack[w][k].op = "flush",
             Holds(stack[w][k], e)
      PROVE  \E l \in 1 .. Len(lists) : \E p \in 1 .. Len(lists[l]) : FlushAt(w, k, l, p, e)
  BY <1>0, FlushHoldsAt
<1>1. ASSUME NEW w \in Threads, NEW k \in 1 .. Len(stack[w]), stack[w][k].op # "flush",
             Holds(stack[w][k], e)
      PROVE  /\ stack[w][k].ev.id = e
             /\ \A l \in 1 .. Len(lists) : \A p \in 1 .. Len(lists[l]) :
                   lists[l][p].id = e =>
                     /\ k - 1 \in 1 .. Len(stack[w]) /\ k - 1 < Len(stack[w])
                     /\ stack[w][k - 1].op = "flush"
                     /\ stack[w][k - 1].list = l /\ stack[w][k - 1].at = p
  <2>1. stack[w][k].ev.id = e
    BY <1>1 DEF Holds
  <2>2. Len(stack[w]) \in Nat
    BY StackTypes
  <2>3. k > 1 => k - 1 \in 1 .. Len(stack[w]) /\ k - 1 < Len(stack[w])
    BY <2>2
  <2>4. ASSUME NEW l \in 1 .. Len(lists), NEW p \in 1 .. Len(lists[l]), lists[l][p].id = e
        PROVE  k > 1 /\ stack[w][k - 1].op = "flush"
               /\ stack[w][k - 1].list = l /\ stack[w][k - 1].at = p
    <3>1. stack[w][k].op # "flush" /\ lists[l][p].id = stack[w][k].ev.id
      BY <1>1, <2>1, <2>4
    <3> QED BY <3>1 DEF PlacesAreDistinct
  <2> QED BY <2>1, <2>3, <2>4
<1>2. ASSUME NEW w \in Threads, NEW k \in 1 .. Len(stack[w]), stack[w][k].op # "flush",
             Holds(stack[w][k], e),
             NEW v \in Threads, NEW m \in 1 .. Len(stack[v]), stack[v][m].op = "flush",
             Holds(stack[v][m], e)
      PROVE  FALSE
  <2>0. PICK l \in 1 .. Len(lists) : \E p \in 1 .. Len(lists[l]) : FlushAt(v, m, l, p, e)
    BY <1>0, <1>2
  <2>1. PICK p \in 1 .. Len(lists[l]) : FlushAt(v, m, l, p, e)
    BY <2>0
  <2>2. /\ l # 0 /\ stack[v][m].list = l /\ lists[l][p].id = e
        /\ m < Len(stack[v]) => p # stack[v][m].at
    BY <2>1 DEF FlushAt
  <2>3. /\ k - 1 \in 1 .. Len(stack[w]) /\ k - 1 < Len(stack[w])
        /\ stack[w][k - 1].op = "flush"
        /\ stack[w][k - 1].list = l /\ stack[w][k - 1].at = p
    BY <1>1, <1>2, <2>2
  <2>4. w = v /\ k - 1 = m
    <3>1. FlushOf(w, k - 1, l) /\ FlushOf(v, m, l)
      BY <1>2, <2>2, <2>3 DEF FlushOf
    <3> QED BY <2>2, <3>1, FlushOnce
  <2> QED BY <2>2, <2>3, <2>4
<1>3. CASE stack[t][i].op # "flush" /\ stack[u][j].op # "flush"
  BY <1>1, <1>3 DEF PlacesAreDistinct
<1>4. CASE stack[t][i].op = "flush" /\ stack[u][j].op = "flush"
  <2>a. PICK l \in 1 .. Len(lists) : \E p \in 1 .. Len(lists[l]) : FlushAt(t, i, l, p, e)
    BY <1>0, <1>4
  <2>1. PICK p \in 1 .. Len(lists[l]) : FlushAt(t, i, l, p, e)
    BY <2>a
  <2>b. PICK m \in 1 .. Len(lists) : \E q \in 1 .. Len(lists[m]) : FlushAt(u, j, m, q, e)
    BY <1>0, <1>4
  <2>2. PICK q \in 1 .. Len(lists[m]) : FlushAt(u, j, m, q, e)
    BY <2>b
  <2>3. lists[l][p].id = lists[m][q].id
    BY <2>1, <2>2 DEF FlushAt
  <2>4. l = m
    BY <2>3 DEF PlacesAreDistinct
  <2>5. l # 0 /\ stack[t][i].list = l /\ stack[u][j].list = l
    BY <2>1, <2>2, <2>4 DEF FlushAt
  <2>6. FlushOf(t, i, l) /\ FlushOf(u, j, l)
    BY <1>4, <2>5 DEF FlushOf
  <2> QED BY <2>5, <2>6, FlushOnce
<1> QED BY <1>2, <1>3, <1>4

\* The list that has an event which a call holds belongs to no group.
LEMMA HeldIsPopped ==
    ASSUME EventTypeOK, StackShape, ListsAreOwned, PlacesAreDistinct, RaisedWereFired,
           NEW t \in Threads, NEW i \in 1 .. Len(stack[t]), NEW e, Holds(stack[t][i], e),
           NEW l \in 1 .. Len(lists), NEW p \in 1 .. Len(lists[l]), lists[l][p].id = e
    PROVE  \A g \in Groups : groups[g] # l
<1>1. \E k \in 1 .. Len(stack[t]) : stack[t][k].op = "flush" /\ stack[t][k].list = l
  <2>1. CASE stack[t][i].op = "flush"
    <3>0. PICK m \in 1 .. Len(lists) : \E q \in 1 .. Len(lists[m]) : FlushAt(t, i, m, q, e)
      BY <2>1, FlushHoldsAt
    <3>1. PICK q \in 1 .. Len(lists[m]) : FlushAt(t, i, m, q, e)
      BY <3>0
    <3>2. stack[t][i].list = m /\ lists[m][q].id = e
      BY <3>1 DEF FlushAt
    <3>3. m = l
      BY <3>2 DEF PlacesAreDistinct
    <3> QED BY <2>1, <3>2, <3>3
  <2>2. CASE stack[t][i].op # "flush"
    <3>1. stack[t][i].ev.id = e
      BY <2>2 DEF Holds
    <3>2. i > 1 /\ stack[t][i - 1].op = "flush" /\ stack[t][i - 1].list = l
      BY <2>2, <3>1 DEF PlacesAreDistinct
    <3>3. i - 1 \in 1 .. Len(stack[t])
      BY <3>2, StackTypes
    <3> QED BY <3>2, <3>3
  <2> QED BY <2>1, <2>2
<1>2. l # 0
  OBVIOUS
<1> QED BY <1>1, <1>2 DEF ListsAreOwned

\* What has ended is held by no call.
LEMMA RestIsNotHeld ==
    ASSUME EventTypeOK, StackShape, NEW e, AtRest(e),
           NEW t \in Threads, NEW i \in 1 .. Len(stack[t])
    PROVE  ~Holds(stack[t][i], e)
<1> DEFINE f == stack[t][i]
<1>1. f \in Frame /\ FrameOK(f, lists)
  BY StackTypes DEF StackShape
<1>2. f.op = "flush" /\ f.list # 0 =>
         f.list \in 1 .. Len(lists) /\ f.at \in 0 .. Len(lists[f.list]) /\ Len(lists[f.list]) \in Nat
  <2> HIDE DEF f
  <2> QED BY <1>1, RemainingFacts, ListTypes
<1>3. ASSUME f.op = "flush", f.list # 0, NEW p \in f.at + 1 .. Len(lists[f.list]),
             lists[f.list][p].id = e
      PROVE  FALSE
  <2>1. f.list \in 1 .. Len(lists) /\ p \in 1 .. Len(lists[f.list]) /\ ~(p <= f.at)
    <3> HIDE DEF f
    <3> QED BY <1>2, <1>3
  <2>2. Consumed(f.list, p)
    BY <1>3, <2>1 DEF AtRest
  <2>3. p <= f.at
    BY <1>3, <2>2 DEF Consumed
  <2> QED BY <2>1, <2>3
<1> QED BY <1>3 DEF AtRest, Holds

-----------------------------------------------------------------------------
(* How events end                                                          *)

\* Call i of t, which holds event e, is over, and the calls above it are.
Ending(t, i, e) ==
    /\ i \in 1 .. Len(stack[t]) /\ Holds(stack[t][i], e) /\ Len(stack'[t]) < i
    /\ lists' = lists /\ groups' = groups /\ events' = events
    /\ \A u \in Threads \ {t} : stack'[u] = stack[u]
    /\ \A j \in 1 .. Len(stack'[t]) :
          e \in stack'[t][j].raised => e \in stack[t][j].raised

\* The ends of a step are of events that a call held, and each has one.
NewEnds ==
    /\ ended \subseteq ended'
    /\ \A x \in ended' : x \in ended \/ \E t \in Threads : \E i \in Nat : Ending(t, i, x.id)
    /\ \A x, y \in ended' \ ended : x.id = y.id => x = y

LEMMA EndsNone ==
    ASSUME ended' = ended
    PROVE  NewEnds
BY DEF NewEnds

\* Events that end in one way.
LEMMA EndsAlike ==
    ASSUME NEW ids, NEW how, EndAll(ids, how),
           \A e \in ids : \E t \in Threads : \E i \in Nat : Ending(t, i, e)
    PROVE  NewEnds
<1>1. ended' = ended \cup {[id |-> e, how |-> how] : e \in ids}
  BY DEF EndAll
<1>2. ASSUME NEW x \in ended', x \notin ended PROVE x.id \in ids /\ x = [id |-> x.id, how |-> how]
  BY <1>1, <1>2
<1> QED BY <1>1, <1>2 DEF NewEnds

LEMMA EndsPop ==
    ASSUME EventTypeOK, NEW t \in Threads, NEW k, Keeps(t, k, <<>>), NEW i \in 1 .. Len(stack[t]), i > k,
           NEW e, Holds(stack[t][i], e),
           lists' = lists, groups' = groups, events' = events
    PROVE  Ending(t, i, e)
<1>1. Len(<<>>) = 0
  OBVIOUS
<1>2. k \in 0 .. Len(stack[t]) /\ Len(stack[t]) \in Nat
  BY StackTypes DEF Keeps
<1>3. Len(stack'[t]) = k /\ \A j \in 1 .. k : stack'[t][j] = stack[t][j]
  BY <1>1, <1>2 DEF Keeps
<1> QED BY <1>2, <1>3 DEF Ending, Keeps

LEMMA EndsRaise ==
    ASSUME EventTypeOK, StackShape, ListsAreOwned, PlacesAreDistinct, RaisedWereFired,
           NEW t \in Threads, NEW named,
           Unwinds(t, named) \/ \E k \in 1 .. Len(stack[t]) - 1, f \in Frame : Caught(t, named, k, f),
           Len(stack[t]) \in 1 .. Len(stack[t]),
           \A e \in named : Holds(stack[t][Len(stack[t])], e),
           lists' = lists, groups' = groups, events' = events
    PROVE  NewEnds
<1> DEFINE n == Len(stack[t])
<1>n. n \in Nat /\ n \in 1 .. Len(stack[t])
  BY StackTypes
<1>1. CASE Unwinds(t, named)
  <2> DEFINE low == {stack[t][i].ev.id : i \in 1 .. n - 1}
  <2>1. /\ \A i \in 1 .. n - 1 : stack[t][i].op # "flush"
        /\ Keeps(t, 0, <<>>)
        /\ ended' = ended \cup {[id |-> e, how |-> "errored"] : e \in named}
                          \cup {[id |-> e, how |-> "dropped"] : e \in low}
    BY <1>1 DEF Unwinds
  <2>2. \A i \in 1 .. n - 1 : i \in 1 .. Len(stack[t]) /\ i # n
    BY <1>n
  <2>3. \A i \in 1 .. n - 1 : Holds(stack[t][i], stack[t][i].ev.id)
    BY <2>1 DEF Holds
  <2>4. ASSUME NEW e \in named, NEW i \in 1 .. n - 1 PROVE e # stack[t][i].ev.id
    <3>1. Holds(stack[t][n], e) /\ Holds(stack[t][i], stack[t][i].ev.id)
      BY <2>3
    <3>2. i \in 1 .. Len(stack[t]) /\ i # n /\ n \in 1 .. Len(stack[t])
      BY <1>n, <2>2
    <3>3. SUFFICES ASSUME e = stack[t][i].ev.id PROVE FALSE
      OBVIOUS
    <3>4. Holds(stack[t][i], e)
      BY <3>1, <3>3
    <3>5. ASSUME NEW j \in 1 .. Len(stack[t]), NEW m \in 1 .. Len(stack[t]),
                 Holds(stack[t][j], e), Holds(stack[t][m], e)
          PROVE  t = t /\ j = m
      BY <3>5, HeldOnce, Zenon
    <3> HIDE DEF n
    <3> QED BY <3>1, <3>2, <3>4, <3>5
  <2>5. ASSUME NEW i \in 1 .. Len(stack[t]), NEW e, Holds(stack[t][i], e) PROVE Ending(t, i, e)
    <3>1. i > 0
      OBVIOUS
    <3> QED BY <2>1, <2>5, <3>1, EndsPop
  <2>6. \A e \in named \cup low : \E i \in Nat : Ending(t, i, e)
    <3>1. \A e \in named : Ending(t, n, e)
      BY <1>n, <2>5
    <3>2. \A i \in 1 .. n - 1 : Ending(t, i, stack[t][i].ev.id)
      BY <2>2, <2>3, <2>5
    <3> QED BY <1>n, <3>1, <3>2
  <2>7. \A e \in named : e \notin low
    BY <2>4
  <2> HIDE DEF low
  <2>8. ASSUME NEW x \in ended', x \notin ended
        PROVE  \/ x.id \in named /\ x = [id |-> x.id, how |-> "errored"]
               \/ x.id \in low /\ x = [id |-> x.id, how |-> "dropped"]
    BY <2>1, <2>8 DEF low
  <2>9. ended \subseteq ended'
    BY <2>1
  <2> QED BY <2>6, <2>7, <2>8, <2>9 DEF NewEnds
<1>2. ASSUME NEW k \in 1 .. n - 1, NEW f \in Frame, Caught(t, named, k, f)
      PROVE  NewEnds
  <2> DEFINE cur == stack[t][k + 1].ev.id
             ids == (named \cup {stack[t][i].ev.id : i \in k + 1 .. n - 1}) \ {cur}
  <2>1. /\ \A i \in k + 1 .. n - 1 : stack[t][i].op # "flush"
        /\ f = [stack[t][k] EXCEPT !.raised = @ \cup {cur}]
        /\ Keeps(t, k - 1, <<f>>) /\ EndAll(ids, "dropped")
    BY <1>2 DEF Caught
  <2>2. k \in 1 .. Len(stack[t]) /\ n > k /\ \A i \in k + 1 .. n - 1 : i \in 1 .. Len(stack[t]) /\ i > k
    BY <1>n
  <2>3. Len(stack'[t]) = k /\ stack'[t][k] = f /\ \A j \in 1 .. k - 1 : stack'[t][j] = stack[t][j]
    <3> DEFINE s == <<f>>
    <3>1. Len(s) = 1 /\ s[1] = f /\ Keeps(t, k - 1, s)
      BY <2>1
    <3> HIDE DEF s
    <3>2. (k - 1) + 1 = k /\ 1 \in 1 .. Len(s)
      BY <2>2, <3>1
    <3>3. stack'[t][(k - 1) + 1] = s[1] /\ Len(stack'[t]) = (k - 1) + 1
      BY <3>1, <3>2 DEF Keeps
    <3> QED BY <3>1, <3>2, <3>3 DEF Keeps
  <2>4. f.raised = stack[t][k].raised \cup {cur}
    <3>1. stack[t][k] \in Frame
      BY <2>2, StackTypes
    <3> QED BY <2>1, <3>1 DEF Frame
  <2>5. \A u \in Threads \ {t} : stack'[u] = stack[u]
    BY <2>1 DEF Keeps
  <2>6. ASSUME NEW i \in 1 .. Len(stack[t]), i > k, NEW e, Holds(stack[t][i], e), e # cur
        PROVE  Ending(t, i, e)
    <3>1. ASSUME NEW j \in 1 .. Len(stack'[t]), e \in stack'[t][j].raised
          PROVE  e \in stack[t][j].raised
      <4>1. CASE j = k
        BY <2>3, <2>4, <2>6, <3>1, <4>1
      <4>2. CASE j # k
        <5>1. j \in 1 .. k - 1
          BY <2>2, <2>3, <4>2
        <5> QED BY <2>3, <3>1, <5>1
      <4> QED BY <4>1, <4>2
    <3> QED BY <2>3, <2>5, <2>6, <3>1 DEF Ending
  <2>7. ASSUME NEW e \in ids PROVE \E i \in Nat : Ending(t, i, e)
    <3>1. CASE e \in named
      BY <1>n, <2>2, <2>6, <3>1
    <3>2. ASSUME NEW i \in k + 1 .. n - 1, e = stack[t][i].ev.id PROVE Ending(t, i, e)
      <4>1. Holds(stack[t][i], e)
        BY <2>1, <3>2 DEF Holds
      <4> QED BY <2>2, <2>6, <4>1
    <3> QED BY <1>n, <3>1, <3>2
  <2> HIDE DEF ids
  <2> QED BY <2>1, <2>7, EndsAlike
<1> QED BY <1>1, <1>2

LEMMA StepEnds ==
    ASSUME EventTypeOK, StackShape, IdsAreCounted, ListsAreOwned, PlacesAreDistinct,
           RaisedWereFired, [Next]_vars
    PROVE  NewEnds
<1> USE DEF config, queues, counts, history
<1>n. ASSUME NEW t \in Threads, Len(stack[t]) \in Nat \ {0}
      PROVE  Len(stack[t]) \in 1 .. Len(stack[t]) /\ Len(stack[t]) > Len(stack[t]) - 1
  BY <1>n
<1>1. ASSUME Configure \/ UNCHANGED vars PROVE NewEnds
  BY <1>1, EndsNone DEF Configure, vars
<1>2. ASSUME NEW t \in Threads,
             \/ Fire(t) \/ Defer(t) \/ FindList(t) \/ CreateList(t) \/ AppendArgs(t)
             \/ Flush(t) \/ FlushNext(t) \/ FlushEnd(t) \/ FireFirst(t) \/ FireNext(t)
      PROVE  NewEnds
  <2>1. ended' = ended
    BY <1>2 DEF Fire, Defer, FindList, CreateList, AppendArgs, Flush, FlushNext, FlushEnd,
              FireFirst, FireNext
  <2> QED BY <2>1, EndsNone
<1>3. ASSUME NEW t \in Threads, FireRaises(t) PROVE NewEnds
  <2> DEFINE d == stack[t][Len(stack[t])]
  <2>1. /\ Len(stack[t]) \in Nat \ {0} /\ d.op = "fire"
        /\ \/ Unwinds(t, {d.ev.id})
           \/ \E k \in 1 .. Len(stack[t]) - 1, f \in Frame : Caught(t, {d.ev.id}, k, f)
        /\ lists' = lists /\ groups' = groups /\ events' = events
    BY <1>3, FireRaisesFacts
  <2>2. \A e \in {d.ev.id} : Holds(d, e)
    BY <2>1 DEF Holds
  <2>3. Len(stack[t]) \in 1 .. Len(stack[t])
    BY <1>n, <2>1
  <2> DEFINE named == {d.ev.id}
  <2>4. /\ Unwinds(t, named) \/ \E k \in 1 .. Len(stack[t]) - 1, f \in Frame : Caught(t, named, k, f)
        /\ \A e \in named : Holds(stack[t][Len(stack[t])], e)
    BY <2>1, <2>2
  <2> HIDE DEF named
  <2> QED BY <2>1, <2>3, <2>4, EndsRaise
<1>4. ASSUME NEW t \in Threads, FlushRaises(t) PROVE NewEnds
  <2> DEFINE d == stack[t][Len(stack[t])]
  <2>1. /\ Len(stack[t]) \in Nat \ {0} /\ d.op = "flush"
        /\ \/ Unwinds(t, d.raised)
           \/ \E k \in 1 .. Len(stack[t]) - 1, f \in Frame : Caught(t, d.raised, k, f)
        /\ lists' = lists /\ groups' = groups /\ events' = events
    BY <1>4, FlushRaisesFacts
  <2>2. \A e \in d.raised : Holds(d, e)
    BY <2>1 DEF Holds
  <2>3. Len(stack[t]) \in 1 .. Len(stack[t])
    BY <1>n, <2>1
  <2> DEFINE named == d.raised
  <2>4. /\ Unwinds(t, named) \/ \E k \in 1 .. Len(stack[t]) - 1, f \in Frame : Caught(t, named, k, f)
        /\ \A e \in named : Holds(stack[t][Len(stack[t])], e)
    BY <2>1, <2>2
  <2> HIDE DEF named
  <2> QED BY <2>1, <2>3, <2>4, EndsRaise
<1>5. ASSUME NEW t \in Threads, FireSilenced(t) \/ FireEnd(t) PROVE NewEnds
  <2> DEFINE n == Len(stack[t])
             d == stack[t][n]
  <2>1. /\ n \in Nat \ {0} /\ d.op = "fire" /\ Keeps(t, n - 1, <<>>)
        /\ EndAll({d.ev.id}, "silenced") \/ EndAll({d.ev.id}, "delivered")
        /\ lists' = lists /\ groups' = groups /\ events' = events
    BY <1>5, FireOverFacts
  <2>2. Holds(d, d.ev.id)
    BY <2>1 DEF Holds
  <2>3. Ending(t, n, d.ev.id)
    BY <1>n, <2>1, <2>2, EndsPop
  <2> DEFINE ids == {d.ev.id}
  <2>4. \A e \in ids : \E u \in Threads : \E i \in Nat : Ending(u, i, e)
    BY <2>1, <2>3
  <2>5. EndAll(ids, "silenced") \/ EndAll(ids, "delivered")
    BY <2>1
  <2> HIDE DEF ids
  <2> QED BY <2>4, <2>5, EndsAlike
<1>6. ASSUME NEW t \in Threads, ReceiverRaises(t) PROVE NewEnds
  <2>1. /\ Keeps(t, 0, <<>>) /\ EndAll(UnfinishedIn(stack[t]), "dropped")
        /\ lists' = lists /\ groups' = groups /\ events' = events
    BY <1>6, ReceiverRaisesFacts
  <2>2. ASSUME NEW e \in UnfinishedIn(stack[t]) PROVE \E i \in Nat : Ending(t, i, e)
    <3>1. PICK i \in 1 .. Len(stack[t]) : Holds(stack[t][i], e)
      BY UnfinishedIsHeld
    <3>2. i > 0 /\ i \in Nat
      OBVIOUS
    <3>3. Ending(t, i, e)
      BY <2>1, <3>1, <3>2, EndsPop
    <3> QED BY <3>2, <3>3
  <2> QED BY <2>1, <2>2, EndsAlike
<1> QED BY <1>1, <1>2, <1>3, <1>4, <1>5, <1>6 DEF Next

LEMMA IdsAreCountedNext ==
    ASSUME EventTypeOK, EventTypeOK', StackShape, IdsAreCounted, ListsAreOwned, PlacesAreDistinct,
           RaisedWereFired, [Next]_vars, NEW t, Moves(t)
    PROVE  IdsAreCounted'
<1>e. events \in Nat /\ events' \in Nat /\ events <= events' /\ Receivers' = Receivers
  BY StepGrows DEF EventTypeOK, Receivers
<1>l. ASSUME NEW l \in 1 .. Len(lists), NEW p \in 1 .. Len(lists[l])
      PROVE  lists[l][p].id \in 1 .. events'
  BY <1>e DEF IdsAreCounted
<1>s. ASSUME NEW u \in Threads, NEW i \in 1 .. Len(stack[u])
      PROVE  /\ stack[u][i].op # "flush" => stack[u][i].ev.id \in 1 .. events'
             /\ stack[u][i].from \in Nat /\ stack[u][i].from <= events'
  <2>1. stack[u][i].op # "flush" => stack[u][i].ev.id \in 1 .. events
    BY DEF IdsAreCounted
  <2>2. stack[u][i].from <= events /\ stack[u][i] \in Frame
    BY StackTypes DEF IdsAreCounted
  <2> QED BY <1>e, <2>1, <2>2 DEF Frame
<1>1. ASSUME NEW u \in Threads, NEW i \in 1 .. Len(stack'[u])
      PROVE  /\ stack'[u][i].op # "flush" => stack'[u][i].ev.id \in 1 .. events'
             /\ stack'[u][i].from <= events'
  <2>1. CASE Stays(u, i)
    <3>1. i \in 1 .. Len(stack[u])
      BY <2>1, StackTypes DEF Stays
    <3> QED BY <1>s, <2>1, <3>1 DEF Stays, GoesOn
  <2>2. CASE Comes(u, i)
    <3>1. CASE ComesNew(u, i)
      BY <1>e, <3>1 DEF ComesNew
    <3>2. CASE ComesFlush(u, i)
      BY <1>e, <3>2 DEF ComesFlush
    <3>3. CASE ComesOfFlush(u, i)
      <4> DEFINE f == stack[u][i - 1]
                 g == stack'[u][i]
      <4>1. /\ f.list \in 1 .. Len(lists) /\ f.at + 1 \in 1 .. Len(lists[f.list])
            /\ g.from = 0 /\ g.ev = lists[f.list][f.at + 1]
        BY <3>3 DEF ComesOfFlush
      <4>2. lists[f.list][f.at + 1].id \in 1 .. events'
        BY <1>l, <4>1
      <4> HIDE DEF f
      <4> QED BY <1>e, <4>1, <4>2
    <3> QED BY <2>2, <3>1, <3>2, <3>3 DEF Comes
  <2> QED BY <2>1, <2>2 DEF Moves
<1>2. ASSUME NEW l \in 1 .. Len(lists'), NEW p \in 1 .. Len(lists'[l])
      PROVE  lists'[l][p].id \in 1 .. events'
  <2>1. CASE IsOld(l, p)
    BY <1>l, <2>1 DEF IsOld
  <2>2. ASSUME NEW u \in Threads, Appends(u, l, p) PROVE lists'[l][p].id \in 1 .. events'
    <3>1. Len(stack[u]) \in 1 .. Len(stack[u])
      BY <2>2 DEF Appends
    <3> QED BY <1>s, <2>2, <3>1 DEF Appends
  <2> QED BY <2>1, <2>2, StepPositions
<1>h. ASSUME NEW u \in Threads, Len(stack[u]) \in 1 .. Len(stack[u]), stack[u][Len(stack[u])].op = "fire"
      PROVE  stack[u][Len(stack[u])].ev.id \in 1 .. events'
  BY <1>s, <1>h
<1>3. \A i \in 1 .. Len(fired') : fired'[i].id <= events'
  <2>1. fired \in Seq(Event)
    BY DEF EventTypeOK
  <2>2. ASSUME NEW i \in 1 .. Len(fired) PROVE fired[i].id <= events'
    <3>1. fired[i] \in Event /\ fired[i].id <= events
      BY <2>1 DEF IdsAreCounted
    <3> QED BY <1>e, <3>1 DEF Event
  <2>3. CASE fired' = fired
    BY <2>2, <2>3
  <2>4. ASSUME NEW u \in Threads,
               /\ Len(stack[u]) \in 1 .. Len(stack[u])
               /\ stack[u][Len(stack[u])].op = "fire"
               /\ stack[u][Len(stack[u])].ev \in Event
               /\ fired' = Append(fired, stack[u][Len(stack[u])].ev)
        PROVE  \A i \in 1 .. Len(fired') : fired'[i].id <= events'
    <3> DEFINE e == stack[u][Len(stack[u])].ev
    <3>1. e.id \in 1 .. events' /\ e \in Event /\ fired' = Append(fired, e)
      BY <1>h, <2>4
    <3> HIDE DEF e
    <3>2. /\ Len(fired') = Len(fired) + 1 /\ fired'[Len(fired) + 1] = e
          /\ \A i \in 1 .. Len(fired) : fired'[i] = fired[i]
      BY <2>1, <3>1, AppendProperties
    <3>3. Len(fired) \in Nat
      BY <2>1
    <3> QED BY <1>e, <2>2, <3>1, <3>2, <3>3
  <2> QED BY <2>3, <2>4, StepHistory
<1>4. \A r \in ToSet(Receivers) : \A i \in 1 .. Len(seen'[r]) : seen'[r][i].id <= events'
  <2>0. seen \in [ToSet(Receivers) -> Seq(Event)]
    BY DEF EventTypeOK
  <2>1. ASSUME NEW r \in ToSet(Receivers) PROVE seen[r] \in Seq(Event)
    BY <2>0
  <2>2. ASSUME NEW r \in ToSet(Receivers), NEW i \in 1 .. Len(seen[r]) PROVE seen[r][i].id <= events'
    <3>1. seen[r][i] \in Event /\ seen[r][i].id <= events
      BY <2>1 DEF IdsAreCounted
    <3> QED BY <1>e, <3>1 DEF Event
  <2>3. CASE seen' = seen
    BY <2>2, <2>3
  <2>4. ASSUME NEW u \in Threads, NEW r \in ToSet(Receivers),
               /\ Len(stack[u]) \in 1 .. Len(stack[u])
               /\ stack[u][Len(stack[u])].op = "fire"
               /\ stack[u][Len(stack[u])].ev \in Event
               /\ seen' = [seen EXCEPT ![r] = Append(seen[r], stack[u][Len(stack[u])].ev)],
               NEW q \in ToSet(Receivers), NEW i \in 1 .. Len(seen'[q])
        PROVE  seen'[q][i].id <= events'
    <3> DEFINE e == stack[u][Len(stack[u])].ev
    <3>1. e.id \in 1 .. events' /\ e \in Event
          /\ seen' = [seen EXCEPT ![r] = Append(seen[r], e)]
      BY <1>h, <2>4
    <3> HIDE DEF e
    <3>2. CASE q # r
      <4>1. seen'[q] = seen[q]
        BY <2>0, <3>1, <3>2
      <4> QED BY <2>2, <4>1
    <3>3. CASE q = r
      <4>1. seen'[q] = Append(seen[q], e)
        BY <2>0, <3>1, <3>3
      <4>2. /\ Len(seen'[q]) = Len(seen[q]) + 1 /\ seen'[q][Len(seen[q]) + 1] = e
            /\ \A k \in 1 .. Len(seen[q]) : seen'[q][k] = seen[q][k]
        BY <2>1, <3>1, <4>1, AppendProperties
      <4>3. Len(seen[q]) \in Nat
        BY <2>1
      <4> QED BY <1>e, <2>2, <3>1, <4>2, <4>3
    <3> QED BY <3>2, <3>3
  <2> QED BY <2>3, <2>4, StepHistory
<1>5. ASSUME NEW x \in ended' PROVE x.id \in 1 .. events'
  <2>1. CASE x \in ended
    BY <1>e, <2>1 DEF IdsAreCounted
  <2>2. ASSUME NEW u \in Threads, NEW i \in Nat, Ending(u, i, x.id) PROVE x.id \in 1 .. events'
    <3>1. i \in 1 .. Len(stack[u]) /\ Holds(stack[u][i], x.id)
      BY <2>2 DEF Ending
    <3>2. x.id \in 1 .. events
      BY <3>1, HeldIsCounted
    <3> QED BY <1>e, <3>2
  <2> QED BY <2>1, <2>2, StepEnds DEF NewEnds
<1> QED BY <1>e, <1>1, <1>2, <1>3, <1>4, <1>5 DEF IdsAreCounted

-----------------------------------------------------------------------------
(* Popped lists                                                            *)

\* A flush after the step was one before it, or has just popped its group.
LEMMA FlushWas ==
    ASSUME EventTypeOK, EventTypeOK', StackShape, NEW t, Moves(t),
           NEW u \in Threads, NEW i \in 1 .. Len(stack'[u]), stack'[u][i].op = "flush"
    PROVE  /\ stack'[u][i].list \in 0 .. Len(lists)
           /\ \/ /\ i \in 1 .. Len(stack[u]) /\ stack[u][i].op = "flush" /\ Stays(u, i)
                 /\ stack[u][i].list = stack'[u][i].list /\ stack[u][i].from = stack'[u][i].from
              \/ /\ u = t /\ i = Len(stack[u]) + 1 /\ i = Len(stack'[u]) /\ ComesFlush(u, i)
                 /\ lists' = lists /\ stack'[u][i].raised = {}
<1>1. CASE Stays(u, i)
  <2>1. i \in 1 .. Len(stack[u])
    BY <1>1, StackTypes DEF Stays
  <2>2. FrameOK(stack[u][i], lists) /\ stack[u][i] \in Frame
    BY <2>1, StackTypes DEF StackShape
  <2>3. stack[u][i].op = "flush" /\ stack[u][i].list = stack'[u][i].list
        /\ stack[u][i].from = stack'[u][i].from
    BY <1>1 DEF Stays, GoesOn
  <2>4. stack[u][i].list \in 0 .. Len(lists)
    BY <2>2, ListTypes DEF FrameOK, Frame
  <2> QED BY <1>1, <2>1, <2>3, <2>4
<1>2. CASE u = t /\ Comes(u, i)
  <2>1. ComesFlush(u, i) /\ i = Len(stack[u]) + 1 /\ i = Len(stack'[u]) /\ lists' = lists
        /\ stack'[u][i].raised = {}
    BY <1>2 DEF Comes, ComesNew, ComesOfFlush
  <2>2. stack'[u][i].list \in 0 .. Len(lists)
    BY <2>1 DEF ComesFlush, EventTypeOK
  <2> QED BY <1>2, <2>1, <2>2
<1> QED BY <1>1, <1>2 DEF Moves

LEMMA PoppedIsOldNext ==
    ASSUME EventTypeOK, EventTypeOK', StackShape, IdsAreCounted, ListsAreOwned, ListsAreOwned',
           PoppedIsOld, [Next]_vars, NEW t, Moves(t)
    PROVE  PoppedIsOld'
<1>1. ASSUME NEW u \in Threads, NEW i \in 1 .. Len(stack'[u]),
             stack'[u][i].op = "flush", stack'[u][i].list # 0,
             NEW p \in 1 .. Len(lists'[stack'[u][i].list])
      PROVE  lists'[stack'[u][i].list][p].id <= stack'[u][i].from
  <2> DEFINE l == stack'[u][i].list
  <2>1. l \in 1 .. Len(lists) /\ l \in 1 .. Len(lists')
    <3>1. l \in 0 .. Len(lists)
      BY <1>1, FlushWas
    <3>2. ListsGrow
      BY StepGrows
    <3> QED BY <1>1, <3>1, <3>2, ListTypes, ListTypesNext DEF ListsGrow
  <2>2. CASE /\ i \in 1 .. Len(stack[u]) /\ stack[u][i].op = "flush" /\ Stays(u, i)
             /\ stack[u][i].list = l /\ stack[u][i].from = stack'[u][i].from
    <3>1. CASE IsOld(l, p)
      BY <1>1, <2>2, <3>1 DEF IsOld, PoppedIsOld
    <3>2. ASSUME NEW v \in Threads, Appends(v, l, p)
          PROVE  lists'[l][p].id <= stack'[u][i].from
      <4>1. Len(stack[v]) \in 1 .. Len(stack[v])
        BY <3>2 DEF Appends
      <4> QED BY <1>1, <2>2, <3>2, <4>1 DEF Appends, PoppedIsOld
    <3> QED BY <2>1, <3>1, <3>2, StepPositions
  <2>3. CASE ComesFlush(u, i) /\ lists' = lists
    <3>1. lists[l][p].id \in 1 .. events
      BY <1>1, <2>1, <2>3 DEF IdsAreCounted
    <3> QED BY <2>3, <3>1 DEF ComesFlush, EventTypeOK
  <2> HIDE DEF l
  <2>4. \/ /\ i \in 1 .. Len(stack[u]) /\ stack[u][i].op = "flush" /\ Stays(u, i)
           /\ stack[u][i].list = l /\ stack[u][i].from = stack'[u][i].from
        \/ ComesFlush(u, i) /\ lists' = lists
    BY <1>1, FlushWas DEF l
  <2> QED BY <2>2, <2>3, <2>4
<1>2. ASSUME NEW u \in Threads, NEW i \in 1 .. Len(stack'[u]),
             stack'[u][i].op = "flush", stack'[u][i].list # 0,
             NEW v \in Threads, NEW j \in 1 .. Len(stack'[v]),
             stack'[v][j].op = "defer", stack'[v][j].list = stack'[u][i].list
      PROVE  stack'[v][j].ev.id <= stack'[u][i].from
  <2> DEFINE l == stack'[u][i].list
  <2>1. ASSUME Stays(v, j)
        PROVE  /\ j \in 1 .. Len(stack[v]) /\ stack[v][j].op # "flush"
               /\ stack[v][j].ev = stack'[v][j].ev
               /\ stack[v][j].op = "defer" /\ stack[v][j].list = l
    <3>1. j \in 1 .. Len(stack[v])
      BY <2>1, StackTypes DEF Stays
    <3>2. stack'[v][j] \in Frame
      BY StackTypesNext
    <3>3. stack'[v][j].ev.group \in Groups
      BY <3>2 DEF Frame, Event
    <3>4. groups'[stack'[v][j].ev.group] # l
      BY <1>2, <3>3 DEF ListsAreOwned
    <3> QED BY <1>2, <2>1, <3>1, <3>4 DEF Stays, GoesOn
  <2>2. ASSUME v = t, Comes(v, j) PROVE FALSE
    BY <1>2, <2>2 DEF Comes, ComesNew, ComesFlush, ComesOfFlush
  <2>3. Stays(v, j)
    BY <2>2 DEF Moves
  <2>4. CASE /\ i \in 1 .. Len(stack[u]) /\ stack[u][i].op = "flush"
             /\ stack[u][i].list = l /\ stack[u][i].from = stack'[u][i].from
    BY <1>2, <2>1, <2>3, <2>4 DEF PoppedIsOld
  <2>5. CASE ComesFlush(u, i)
    <3>1. stack[v][j].ev.id \in 1 .. events
      BY <2>1, <2>3 DEF IdsAreCounted
    <3>2. stack'[u][i].from = events /\ events \in Nat
      BY <2>5 DEF ComesFlush, EventTypeOK
    <3>3. stack'[v][j].ev = stack[v][j].ev
      BY <2>1, <2>3 DEF Stays, GoesOn
    <3> QED BY <3>1, <3>2, <3>3
  <2> HIDE DEF l
  <2>6. \/ /\ i \in 1 .. Len(stack[u]) /\ stack[u][i].op = "flush"
           /\ stack[u][i].list = l /\ stack[u][i].from = stack'[u][i].from
        \/ ComesFlush(u, i)
    BY <1>2, FlushWas DEF l
  <2> QED BY <2>4, <2>5, <2>6
<1> QED BY <1>1, <1>2 DEF PoppedIsOld

LEMMA RaisedWereFiredNext ==
    ASSUME EventTypeOK, EventTypeOK', StackShape, IdsAreCounted, RaisedWereFired,
           [Next]_vars, NEW t, Moves(t)
    PROVE  RaisedWereFired'
<1>1. ASSUME NEW u \in Threads, NEW i \in 1 .. Len(stack'[u]), stack'[u][i].op = "flush",
             NEW e \in stack'[u][i].raised
      PROVE  /\ stack'[u][i].list # 0
             /\ \E p \in 1 .. stack'[u][i].at :
                   /\ lists'[stack'[u][i].list][p].id = e
                   /\ i < Len(stack'[u]) => p < stack'[u][i].at
  <2> DEFINE f == stack[u][i]
             g == stack'[u][i]
             l == g.list
  <2>1. /\ i \in 1 .. Len(stack[u]) /\ f.op = "flush" /\ Stays(u, i) /\ f.list = l
    BY <1>1, FlushWas
  <2>2. f \in Frame /\ FrameOK(f, lists) /\ g \in Frame /\ Len(stack[u]) \in Nat
    BY <2>1, StackTypes, StackTypesNext DEF StackShape
  <2>3. ListsGrow
    BY StepGrows
  <2>4. /\ g.at = (IF i = Len(stack[u]) /\ i < Len(stack'[u]) THEN f.at + 1 ELSE f.at)
        /\ e \in f.raised \/ Catches(u, i, e)
    BY <2>1 DEF Stays
  <2>5. CASE e \in f.raised
    <3>1. PICK p \in 1 .. f.at :
             l # 0 /\ lists[l][p].id = e /\ (i < Len(stack[u]) => p < f.at)
      BY <2>1, <2>5 DEF RaisedWereFired
    <3>2. f.list \in 1 .. Len(lists) /\ f.at \in 0 .. Len(lists[f.list]) /\ Len(lists[f.list]) \in Nat
      <4> HIDE DEF f
      <4> QED BY <2>1, <2>2, <3>1, RemainingFacts, ListTypes
    <3>3. p \in 1 .. Len(lists[l]) /\ l \in 1 .. Len(lists)
      <4> HIDE DEF f, l
      <4> QED BY <2>1, <3>2
    <3>4. lists'[l][p].id = e
      BY <2>3, <3>1, <3>3 DEF ListsGrow
    <3>5. p \in 1 .. g.at /\ (i < Len(stack'[u]) => p < g.at)
      <4> HIDE DEF f, g
      <4> QED BY <2>1, <2>2, <2>4, <3>1, <3>2
    <3> QED BY <3>1, <3>4, <3>5
  <2>6. CASE Catches(u, i, e)
    <3>1. /\ i < Len(stack[u]) /\ i = Len(stack'[u]) /\ f.list \in 1 .. Len(lists)
          /\ f.at \in 1 .. Len(lists[f.list]) /\ lists[f.list][f.at].id = e
      BY <2>6 DEF Catches
    <3>2. g.at = f.at /\ f.at \in 1 .. g.at /\ ~(i < Len(stack'[u])) /\ l # 0
      <4> HIDE DEF f, g, l
      <4> QED BY <2>1, <2>2, <2>4, <3>1, StackTypesNext
    <3>3. lists'[l][f.at].id = e
      BY <2>1, <2>3, <3>1 DEF ListsGrow
    <3> QED BY <3>2, <3>3
  <2> QED BY <2>4, <2>5, <2>6
<1> QED BY <1>1 DEF RaisedWereFired

-----------------------------------------------------------------------------
(* Places                                                                  *)

\* A call that fires or defers an event after the step did so before it, or has
\* a new event, or the next one of the flush below.
CallsOn(u, i) ==
    /\ i \in 1 .. Len(stack[u]) /\ stack[u][i].op # "flush" /\ Stays(u, i)
    /\ stack[u][i].ev = stack'[u][i].ev
    /\ stack[u][i].op = "fire" => stack'[u][i].op = "fire"

CallsNew(u, i) == i = Len(stack'[u]) /\ stack'[u][i].ev.id = events + 1 /\ lists' = lists

CallsNext(u, i, l, p) ==
    /\ i = Len(stack'[u]) /\ stack'[u][i].op = "fire" /\ lists' = lists
    /\ i > 1 /\ i - 1 \in 1 .. Len(stack[u])
    /\ stack'[u][i].ev = lists[l][p]
    /\ stack[u][i - 1].op = "flush" /\ stack[u][i - 1].list = l
    /\ stack[u][i - 1].at # p /\ ~(p <= stack[u][i - 1].at)
    /\ stack'[u][i - 1].op = "flush" /\ stack'[u][i - 1].list = l
    /\ stack'[u][i - 1].at = p

LEMMA CallWas ==
    ASSUME EventTypeOK, EventTypeOK', StackShape, NEW t, Moves(t),
           NEW u \in Threads, NEW i \in 1 .. Len(stack'[u]), stack'[u][i].op # "flush"
    PROVE  \/ CallsOn(u, i)
           \/ u = t /\ CallsNew(u, i)
           \/ /\ u = t
              /\ \E l \in 1 .. Len(lists) : \E p \in 1 .. Len(lists[l]) : CallsNext(u, i, l, p)
<1>1. CASE Stays(u, i)
  <2>1. i \in 1 .. Len(stack[u])
    BY <1>1, StackTypes DEF Stays
  <2>2. CallsOn(u, i)
    BY <1>1, <2>1 DEF CallsOn, Stays, GoesOn
  <2> QED BY <2>2
<1>2. CASE u = t /\ Comes(u, i)
  <2>1. CASE ComesNew(u, i)
    <3>1. CallsNew(u, i)
      BY <1>2, <2>1 DEF Comes, ComesNew, CallsNew
    <3> QED BY <1>2, <3>1
  <2>2. CASE ComesOfFlush(u, i)
    <3> DEFINE f == stack[u][i - 1]
               g == stack'[u][i - 1]
    <3>1. /\ i > 1 /\ i = Len(stack[u]) + 1 /\ i = Len(stack'[u]) /\ lists' = lists
          /\ f.op = "flush" /\ f.list \in 1 .. Len(lists) /\ f.at + 1 \in 1 .. Len(lists[f.list])
          /\ stack'[u][i].op = "fire" /\ stack'[u][i].ev = lists[f.list][f.at + 1]
      BY <1>2, <2>2 DEF Comes, ComesOfFlush
    <3>2. /\ Len(stack[u]) \in Nat /\ Len(stack'[u]) \in Nat
          /\ i - 1 \in 1 .. Len(stack[u]) /\ i - 1 \in 1 .. Len(stack'[u]) /\ i - 1 < Len(stack'[u])
          /\ i - 1 = Len(stack[u]) /\ ~(i - 1 = Len(stack[u]) + 1)
      BY <3>1, StackTypes, StackTypesNext
    <3>3. Stays(u, i - 1)
      BY <3>2 DEF Moves, Comes
    <3>4. g.op = "flush" /\ g.list = f.list /\ g.at = f.at + 1
      BY <3>1, <3>2, <3>3 DEF Stays, GoesOn
    <3>5. f.at # f.at + 1 /\ ~(f.at + 1 <= f.at)
      <4>1. f \in Frame
        BY <3>2, StackTypes
      <4> HIDE DEF f
      <4>2. f.at \in Nat
        BY <4>1 DEF Frame
      <4> QED BY <4>2
    <3> HIDE DEF f, g
    <3>6. CallsNext(u, i, f.list, f.at + 1)
      BY <3>1, <3>2, <3>4, <3>5 DEF f, g, CallsNext
    <3> QED BY <1>2, <3>1, <3>6
  <2>3. ~ComesFlush(u, i)
    BY DEF ComesFlush
  <2> QED BY <1>2, <2>1, <2>2, <2>3 DEF Comes
<1> QED BY <1>1, <1>2 DEF Moves

LEMMA PlacesAreDistinctNext ==
    ASSUME EventTypeOK, EventTypeOK', StackShape, IdsAreCounted, ListsAreOwned, PlacesAreDistinct,
           [Next]_vars, NEW t, Moves(t)
    PROVE  PlacesAreDistinct'
<1>e. events \in Nat /\ ListsGrow
  BY StepGrows DEF EventTypeOK
<1> DEFINE Puts(v, n, l, p) ==
             /\ n = Len(stack[v]) /\ Len(stack'[v]) = n - 1
             /\ stack[v][n].op = "defer" /\ stack[v][n].list = l
             /\ stack[v][n].ev = lists'[l][p] /\ p = Len(lists[l]) + 1 /\ l \in 1 .. Len(lists)
             /\ lists' # lists
<1>a. ASSUME NEW l \in 1 .. Len(lists'), NEW p \in 1 .. Len(lists'[l]), ~IsOld(l, p)
      PROVE  \E v \in Threads : \E n \in 1 .. Len(stack[v]) : Puts(v, n, l, p)
  <2>1. PICK v \in Threads : Appends(v, l, p)
    BY <1>a, StepPositions
  <2>2. Len(stack[v]) \in 1 .. Len(stack[v])
    BY <2>1 DEF Appends
  <2>3. lists' # lists
    <3>1. ~(p \in 1 .. Len(lists[l])) /\ p \in 1 .. Len(lists'[l])
      BY <2>1, ListTypes DEF Appends
    <3> QED BY <3>1
  <2>4. Puts(v, Len(stack[v]), l, p)
    BY <2>1, <2>2, <2>3 DEF Appends
  <2> HIDE DEF Puts
  <2> QED BY <2>2, <2>4
<1> HIDE DEF Puts
<1>o. ASSUME NEW l \in 1 .. Len(lists'), NEW p \in 1 .. Len(lists'[l]), IsOld(l, p)
      PROVE  l \in 1 .. Len(lists) /\ p \in 1 .. Len(lists[l]) /\ lists'[l][p] = lists[l][p]
             /\ lists'[l][p].id \in 1 .. events
  BY <1>o DEF IsOld, IdsAreCounted
\* an event of a list that grows is at no other position
<1>1. ASSUME NEW l \in 1 .. Len(lists'), NEW m \in 1 .. Len(lists'),
             NEW p \in 1 .. Len(lists'[l]), NEW q \in 1 .. Len(lists'[m]),
             lists'[l][p].id = lists'[m][q].id
      PROVE  l = m /\ p = q
  <2>1. CASE IsOld(l, p) /\ IsOld(m, q)
    <3>1. /\ l \in 1 .. Len(lists) /\ p \in 1 .. Len(lists[l]) /\ lists'[l][p] = lists[l][p]
          /\ m \in 1 .. Len(lists) /\ q \in 1 .. Len(lists[m]) /\ lists'[m][q] = lists[m][q]
      BY <1>o, <2>1
    <3>2. Lies(l, p, lists[l][p].id) /\ Lies(m, q, lists[l][p].id)
      BY <1>1, <3>1 DEF Lies
    <3> QED BY <3>2, PositionOnce
  <2>2. ASSUME NEW k \in 1 .. Len(lists'), NEW r \in 1 .. Len(lists'[k]), ~IsOld(k, r),
               NEW h \in 1 .. Len(lists'), NEW s \in 1 .. Len(lists'[h]), IsOld(h, s),
               lists'[k][r].id = lists'[h][s].id
        PROVE  FALSE
    <3>0. PICK v \in Threads : \E n \in 1 .. Len(stack[v]) : Puts(v, n, k, r)
      BY <1>a, <2>2
    <3>a. PICK n \in 1 .. Len(stack[v]) : Puts(v, n, k, r)
      BY <3>0
    <3>1. stack[v][n].op = "defer" /\ stack[v][n].ev = lists'[k][r]
      BY <3>a DEF Puts
    <3>2. lists[h][s].id = stack[v][n].ev.id /\ h \in 1 .. Len(lists) /\ s \in 1 .. Len(lists[h])
      BY <1>o, <2>2, <3>1
    <3>3. stack[v][n].op # "fire" /\ CallOf(v, n, lists[h][s].id) /\ Lies(h, s, lists[h][s].id)
      BY <3>1, <3>2 DEF CallOf, Lies
    <3> QED BY <3>3, CallPlace
  <2>3. CASE ~IsOld(l, p) /\ ~IsOld(m, q)
    <3>a. PICK v \in Threads : \E n \in 1 .. Len(stack[v]) : Puts(v, n, l, p)
      BY <1>a, <2>3
    <3>1. PICK n \in 1 .. Len(stack[v]) : Puts(v, n, l, p)
      BY <3>a
    <3>b. PICK w \in Threads : \E k \in 1 .. Len(stack[w]) : Puts(w, k, m, q)
      BY <1>a, <2>3
    <3>2. PICK k \in 1 .. Len(stack[w]) : Puts(w, k, m, q)
      BY <3>b
    <3>3. v = w /\ n = k
      <4>1. CallOf(v, n, lists'[l][p].id) /\ CallOf(w, k, lists'[l][p].id)
        BY <1>1, <3>1, <3>2 DEF Puts, CallOf
      <4> QED BY <4>1, CallOnce
    <3> QED BY <3>1, <3>2, <3>3 DEF Puts
  <2> QED BY <1>1, <2>1, <2>2, <2>3
\* two calls
<1>2. ASSUME NEW u \in Threads, NEW i \in 1 .. Len(stack'[u]), stack'[u][i].op # "flush",
             NEW v \in Threads, NEW j \in 1 .. Len(stack'[v]), stack'[v][j].op # "flush",
             stack'[u][i].ev.id = stack'[v][j].ev.id
      PROVE  u = v /\ i = j
  <2> DEFINE Old(w, k) == /\ k \in 1 .. Len(stack[w]) /\ stack[w][k].op # "flush"
                          /\ stack[w][k].ev = stack'[w][k].ev
             New(w, k) == w = t /\ k = Len(stack'[w])
  <2>1. ASSUME NEW w \in Threads, NEW k \in 1 .. Len(stack'[w]), stack'[w][k].op # "flush"
        PROVE  Old(w, k) \/ New(w, k)
    <3>1. CASE CallsOn(w, k)
      BY <3>1 DEF CallsOn
    <3>2. CASE w = t /\ CallsNew(w, k)
      BY <3>2 DEF CallsNew
    <3>3. ASSUME w = t, NEW l, NEW p, CallsNext(w, k, l, p) PROVE New(w, k)
      BY <3>3 DEF CallsNext
    <3> HIDE DEF Old, New
    <3> QED BY <2>1, <3>1, <3>2, <3>3, CallWas
  <2>2. ASSUME NEW w \in Threads, NEW k \in 1 .. Len(stack'[w]), stack'[w][k].op # "flush", Old(w, k),
               NEW x \in Threads, NEW m \in 1 .. Len(stack'[x]), stack'[x][m].op # "flush", ~Old(x, m),
               stack'[w][k].ev.id = stack'[x][m].ev.id
        PROVE  FALSE
    <3>1. stack[w][k].ev.id \in 1 .. events
      BY <2>2 DEF IdsAreCounted
    <3>2. stack'[x][m].ev.id # events + 1
      BY <1>e, <2>2, <3>1
    <3> DEFINE Of(l, p) ==
             /\ m - 1 \in 1 .. Len(stack[x])
             /\ stack'[x][m].ev = lists[l][p]
             /\ stack[x][m - 1].op = "flush" /\ stack[x][m - 1].list = l
             /\ stack[x][m - 1].at # p
    <3>a. ~CallsOn(x, m) /\ ~CallsNew(x, m)
      BY <2>2, <3>2 DEF CallsOn, CallsNew
    <3>b. PICK l \in 1 .. Len(lists) : \E p \in 1 .. Len(lists[l]) : CallsNext(x, m, l, p)
      <4> HIDE DEF Old
      <4> QED BY <2>2, <3>a, CallWas
    <3>c. PICK p \in 1 .. Len(lists[l]) : CallsNext(x, m, l, p)
      BY <3>b
    <3>3. Of(l, p)
      BY <3>c DEF CallsNext
    <3>4. /\ k > 1 /\ stack[w][k - 1].op = "flush"
          /\ stack[w][k - 1].list = l /\ stack[w][k - 1].at = p
      <4>1. CallOf(w, k, lists[l][p].id) /\ Lies(l, p, lists[l][p].id)
        BY <2>2, <3>3 DEF CallOf, Lies
      <4> QED BY <4>1, CallPlace
    <3>5. k - 1 \in 1 .. Len(stack[w]) /\ l # 0
      <4>1. k \in 1 .. Len(stack[w]) /\ Len(stack[w]) \in Nat
        BY <2>2, StackTypes
      <4> QED BY <3>4, <4>1
    <3>6. w = x /\ k - 1 = m - 1
      <4> DEFINE a == k - 1
                 b == m - 1
      <4> HIDE DEF a, b
      <4>1. FlushOf(w, a, l) /\ FlushOf(x, b, l) /\ l # 0
        BY <3>3, <3>4, <3>5 DEF a, b, FlushOf
      <4>2. w = x /\ a = b
        BY <4>1, FlushOnce
      <4> QED BY <4>2 DEF a, b
    <3> QED BY <3>3, <3>4, <3>6
  <2>3. CASE Old(u, i) /\ Old(v, j)
    <3>1. CallOf(u, i, stack[u][i].ev.id) /\ CallOf(v, j, stack[u][i].ev.id)
      BY <1>2, <2>3 DEF CallOf
    <3> QED BY <3>1, CallOnce
  <2>4. CASE New(u, i) /\ New(v, j)
    BY <2>4
  <2> HIDE DEF Old, New
  <2> QED BY <1>2, <2>1, <2>2, <2>3, <2>4
\* a call and a list
<1>3. ASSUME NEW u \in Threads, NEW i \in 1 .. Len(stack'[u]), stack'[u][i].op # "flush",
             NEW l \in 1 .. Len(lists'), NEW p \in 1 .. Len(lists'[l]),
             lists'[l][p].id = stack'[u][i].ev.id
      PROVE  /\ stack'[u][i].op = "fire" /\ i > 1
             /\ stack'[u][i - 1].op = "flush"
             /\ stack'[u][i - 1].list = l /\ stack'[u][i - 1].at = p
  <2>1. CASE CallsOn(u, i)
    <3>0. /\ i \in 1 .. Len(stack[u]) /\ stack[u][i].op # "flush"
          /\ stack[u][i].ev = stack'[u][i].ev
          /\ stack[u][i].op = "fire" => stack'[u][i].op = "fire"
      BY <2>1 DEF CallsOn
    <3>1. IsOld(l, p)
      <4>1. SUFFICES ASSUME ~IsOld(l, p) PROVE FALSE
        OBVIOUS
      <4>a. PICK v \in Threads : \E n \in 1 .. Len(stack[v]) : Puts(v, n, l, p)
        BY <1>a, <4>1
      <4>b. PICK n \in 1 .. Len(stack[v]) : Puts(v, n, l, p)
        BY <4>a
      <4>2. /\ n = Len(stack[v]) /\ Len(stack'[v]) = n - 1
            /\ stack[v][n].op = "defer" /\ stack[v][n].ev = lists'[l][p]
        BY <4>b DEF Puts
      <4>3. v = u /\ n = i
        <5>1. CallOf(v, n, stack[v][n].ev.id) /\ CallOf(u, i, stack[v][n].ev.id)
          BY <1>3, <3>0, <4>2 DEF CallOf
        <5> QED BY <5>1, CallOnce
      <4> QED BY <4>2, <4>3, StackTypes
    <3>2. l \in 1 .. Len(lists) /\ p \in 1 .. Len(lists[l]) /\ lists[l][p].id = stack[u][i].ev.id
      BY <1>3, <1>o, <3>0, <3>1
    <3>3. /\ stack[u][i].op = "fire" /\ i > 1 /\ stack[u][i - 1].op = "flush"
          /\ stack[u][i - 1].list = l /\ stack[u][i - 1].at = p
      <4>1. CallOf(u, i, lists[l][p].id) /\ Lies(l, p, lists[l][p].id)
        BY <3>0, <3>2 DEF CallOf, Lies
      <4> QED BY <4>1, CallPlace
    <3>4. /\ i - 1 \in 1 .. Len(stack'[u]) /\ i - 1 # Len(stack[u]) + 1 /\ i - 1 # Len(stack[u])
      BY <3>0, <3>3, StackTypes, StackTypesNext
    <3>5. Stays(u, i - 1)
      BY <3>4 DEF Moves, Comes
    <3> QED BY <3>0, <3>3, <3>4, <3>5 DEF Stays, GoesOn
  <2>2. CASE CallsNew(u, i)
    <3>1. IsOld(l, p) /\ stack'[u][i].ev.id = events + 1
      BY <2>2 DEF IsOld, CallsNew
    <3> QED BY <1>3, <1>e, <1>o, <3>1
  <2>3. ASSUME NEW k \in 1 .. Len(lists), NEW q \in 1 .. Len(lists[k]), CallsNext(u, i, k, q)
        PROVE  /\ stack'[u][i].op = "fire" /\ i > 1
               /\ stack'[u][i - 1].op = "flush"
               /\ stack'[u][i - 1].list = l /\ stack'[u][i - 1].at = p
    <3>1. l = k /\ p = q
      <4>1. lists[k][q].id = lists[l][p].id /\ l \in 1 .. Len(lists) /\ p \in 1 .. Len(lists[l])
        BY <1>3, <2>3 DEF CallsNext
      <4>2. Lies(l, p, lists[l][p].id) /\ Lies(k, q, lists[l][p].id)
        BY <4>1 DEF Lies
      <4> QED BY <4>2, PositionOnce
    <3> QED BY <2>3, <3>1 DEF CallsNext
  <2> QED BY <1>3, <2>1, <2>2, <2>3, CallWas
<1> QED BY <1>1, <1>2, <1>3 DEF PlacesAreDistinct

-----------------------------------------------------------------------------
(* Ends                                                                    *)

\* An event at rest stays there.
LEMMA ConsumedStays ==
    ASSUME EventTypeOK, EventTypeOK', StackShape, [Next]_vars, NEW t, Moves(t),
           NEW l \in 1 .. Len(lists), NEW p \in 1 .. Len(lists[l]), Consumed(l, p)
    PROVE  Consumed(l, p)'
<1>0. Len(lists) \in Nat
  BY ListTypes
<1>1. ASSUME NEW g \in Groups PROVE groups'[g] # l
  <2>1. groups[g] # l
    BY DEF Consumed
  <2> QED BY <1>0, <2>1, StepGroups
<1>2. ASSUME NEW u \in Threads, NEW i \in 1 .. Len(stack'[u]), stack'[u][i].op = "flush",
             stack'[u][i].list = l
      PROVE  p <= stack'[u][i].at
  <2>1. CASE /\ i \in 1 .. Len(stack[u]) /\ stack[u][i].op = "flush" /\ Stays(u, i)
             /\ stack[u][i].list = l
    <3>1. p <= stack[u][i].at
      BY <2>1 DEF Consumed
    <3>2. stack[u][i].at \in Nat
      BY <2>1, StackTypes DEF Frame
    <3>3. stack'[u][i].at = stack[u][i].at \/ stack'[u][i].at = stack[u][i].at + 1
      BY <2>1 DEF Stays
    <3>4. p \in Nat
      OBVIOUS
    <3> QED BY <3>1, <3>2, <3>3, <3>4
  <2>2. CASE ComesFlush(u, i)
    BY <1>2, <2>2 DEF ComesFlush, Consumed
  <2> QED BY <1>2, <2>1, <2>2, FlushWas
<1> QED BY <1>1, <1>2 DEF Consumed

LEMMA RestStays ==
    ASSUME EventTypeOK, EventTypeOK', StackShape, [Next]_vars, NEW t, Moves(t),
           NEW e \in 1 .. events, AtRest(e)
    PROVE  AtRest(e)'
<1>0. events \in Nat /\ Len(lists) \in Nat
  BY ListTypes DEF EventTypeOK
<1>c. ASSUME NEW u \in Threads, NEW i \in 1 .. Len(stack[u]), stack[u][i].op # "flush"
      PROVE  stack[u][i].ev.id # e
  BY <1>c DEF AtRest
<1>l. ASSUME NEW l \in 1 .. Len(lists), NEW p \in 1 .. Len(lists[l]), lists[l][p].id = e
      PROVE  Consumed(l, p)
  BY <1>l DEF AtRest
<1>1. ASSUME NEW u \in Threads, NEW i \in 1 .. Len(stack'[u]), stack'[u][i].op # "flush"
      PROVE  stack'[u][i].ev.id # e
  <2>1. CASE CallsOn(u, i)
    BY <1>c, <2>1 DEF CallsOn
  <2>2. CASE CallsNew(u, i)
    BY <1>0, <2>2 DEF CallsNew
  <2>3. ASSUME NEW l \in 1 .. Len(lists), NEW p \in 1 .. Len(lists[l]), CallsNext(u, i, l, p)
        PROVE  stack'[u][i].ev.id # e
    <3>1. /\ i - 1 \in 1 .. Len(stack[u]) /\ stack'[u][i].ev = lists[l][p]
          /\ stack[u][i - 1].op = "flush" /\ stack[u][i - 1].list = l
          /\ ~(p <= stack[u][i - 1].at)
      BY <2>3 DEF CallsNext
    <3> QED BY <1>l, <3>1 DEF Consumed
  <2> QED BY <1>1, <2>1, <2>2, <2>3, CallWas
<1>2. ASSUME NEW u \in Threads, NEW i \in 1 .. Len(stack'[u]), stack'[u][i].op = "flush"
      PROVE  e \notin stack'[u][i].raised
  <2>1. CASE i \in 1 .. Len(stack[u]) /\ stack[u][i].op = "flush" /\ Stays(u, i)
    <3>1. e \notin stack[u][i].raised
      BY <2>1 DEF AtRest
    <3>2. SUFFICES ASSUME e \in stack'[u][i].raised PROVE FALSE
      OBVIOUS
    <3>3. Catches(u, i, e)
      BY <2>1, <3>1, <3>2 DEF Stays
    <3>4. i + 1 \in 1 .. Len(stack[u]) /\ stack[u][i + 1].op = "fire" /\ stack[u][i + 1].ev.id = e
      BY <3>3, StackTypes DEF Catches
    <3> QED BY <1>c, <3>4
  <2> QED BY <1>2, <2>1, FlushWas
<1>3. ASSUME NEW l \in 1 .. Len(lists'), NEW p \in 1 .. Len(lists'[l]), lists'[l][p].id = e
      PROVE  Consumed(l, p)'
  <2>1. l \in 1 .. Len(lists) /\ p \in 1 .. Len(lists[l]) /\ lists[l][p].id = e
    <3>1. CASE IsOld(l, p)
      BY <1>3, <3>1 DEF IsOld
    <3>2. ASSUME NEW v \in Threads, Appends(v, l, p) PROVE FALSE
      <4>1. Len(stack[v]) \in 1 .. Len(stack[v]) /\ stack[v][Len(stack[v])].op # "flush"
            /\ stack[v][Len(stack[v])].ev.id = e
        BY <1>3, <3>2 DEF Appends
      <4> QED BY <1>c, <4>1
    <3> QED BY <3>1, <3>2, StepPositions
  <2> QED BY <1>l, <2>1, ConsumedStays
<1> QED BY <1>1, <1>2, <1>3 DEF AtRest

\* An event that ends comes to rest.
LEMMA EndRests ==
    ASSUME EventTypeOK, EventTypeOK', StackShape, ListsAreOwned, PlacesAreDistinct,
           RaisedWereFired, [Next]_vars, NEW t, Moves(t),
           NEW e \in Nat, NEW v \in Threads, NEW k \in Nat, Ending(v, k, e)
    PROVE  AtRest(e)'
<1>0. /\ k \in 1 .. Len(stack[v]) /\ Holds(stack[v][k], e) /\ Len(stack'[v]) < k
      /\ lists' = lists /\ groups' = groups
      /\ \A u \in Threads \ {v} : stack'[u] = stack[u]
      /\ \A j \in 1 .. Len(stack'[v]) : e \in stack'[v][j].raised => e \in stack[v][j].raised
  BY DEF Ending
<1>1. ASSUME NEW u \in Threads, NEW i \in 1 .. Len(stack[u]), Holds(stack[u][i], e)
      PROVE  v = u /\ k = i
  <2>1. k \in 1 .. Len(stack[v]) /\ Holds(stack[v][k], e)
    BY <1>0
  <2>2. ASSUME NEW j \in 1 .. Len(stack[v]), Holds(stack[v][j], e) PROVE v = u /\ j = i
    BY <1>1, <2>2, HeldOnce, Zenon
  <2> QED BY <2>1, <2>2
<1>2. ASSUME NEW u \in Threads, NEW i \in 1 .. Len(stack'[u])
      PROVE  /\ i \in 1 .. Len(stack[u]) /\ Stays(u, i) /\ ~Holds(stack[u][i], e)
             /\ Len(stack'[u]) <= Len(stack[u])
             /\ e \in stack'[u][i].raised => e \in stack[u][i].raised
  <2>1. CASE u = v
    <3>1. i \in 1 .. Len(stack[u]) /\ i # k /\ i # Len(stack[u]) + 1 /\ Len(stack'[u]) <= Len(stack[u])
      BY <1>0, <2>1, StackTypes, StackTypesNext
    <3> QED BY <1>0, <1>1, <2>1, <3>1 DEF Moves, Comes
  <2>2. CASE u # v
    <3>1. stack'[u] = stack[u] /\ Len(stack[u]) \in Nat
      BY <1>0, <2>2, StackTypes
    <3>2. i \in 1 .. Len(stack[u]) /\ i # Len(stack[u]) + 1 /\ Len(stack'[u]) <= Len(stack[u])
      BY <3>1
    <3> QED BY <1>1, <2>2, <3>1, <3>2 DEF Moves, Comes
  <2> QED BY <2>1, <2>2
<1>3. ASSUME NEW u \in Threads, NEW i \in 1 .. Len(stack'[u])
      PROVE  /\ stack'[u][i].op # "flush" => stack'[u][i].ev.id # e
             /\ stack'[u][i].op = "flush" => e \notin stack'[u][i].raised
  BY <1>2 DEF Stays, GoesOn, Holds
<1>4. ASSUME NEW l \in 1 .. Len(lists'), NEW p \in 1 .. Len(lists'[l]), lists'[l][p].id = e
      PROVE  /\ \A g \in Groups : groups'[g] # l
             /\ \A u \in Threads : \A i \in 1 .. Len(stack'[u]) :
                   stack'[u][i].op = "flush" /\ stack'[u][i].list = l => p <= stack'[u][i].at
  <2>1. l \in 1 .. Len(lists) /\ p \in 1 .. Len(lists[l]) /\ lists[l][p].id = e
        /\ Len(lists[l]) \in Nat /\ l # 0
    BY <1>0, <1>4, ListTypes
  <2>2. \A g \in Groups : groups[g] # l
    BY <1>0, <2>1, HeldIsPopped
  <2>3. ASSUME NEW u \in Threads, NEW i \in 1 .. Len(stack'[u]), stack'[u][i].op = "flush",
               stack'[u][i].list = l
        PROVE  p <= stack'[u][i].at
    <3>1. /\ i \in 1 .. Len(stack[u]) /\ Stays(u, i) /\ ~Holds(stack[u][i], e)
          /\ ~(i = Len(stack[u]) /\ i < Len(stack'[u]))
      BY <1>2, StackTypes, StackTypesNext
    <3>2. stack[u][i].op = "flush" /\ stack[u][i].list = l /\ stack[u][i].at = stack'[u][i].at
      BY <2>3, <3>1 DEF Stays, GoesOn
    <3>3. stack[u][i].at \in Nat
      BY <3>1, StackTypes DEF Frame
    <3>4. p \notin stack[u][i].at + 1 .. Len(lists[l])
      BY <2>1, <3>1, <3>2 DEF Holds
    <3> QED BY <2>1, <3>2, <3>3, <3>4
  <2> QED BY <1>0, <2>2, <2>3
<1> QED BY <1>3, <1>4 DEF AtRest, Consumed

LEMMA EndsAreFinalNext ==
    ASSUME EventTypeOK, EventTypeOK', StackShape, IdsAreCounted, ListsAreOwned, PlacesAreDistinct,
           RaisedWereFired, EndsAreFinal, [Next]_vars, NEW t, Moves(t)
    PROVE  EndsAreFinal'
<1>1. NewEnds
  BY StepEnds
<1>2. ASSUME NEW x \in ended', x \notin ended
      PROVE  \E v \in Threads : \E k \in Nat : Ending(v, k, x.id)
  BY <1>1, <1>2 DEF NewEnds
<1>3. ASSUME NEW x \in ended' PROVE x.id \in Nat
  BY <1>3 DEF EventTypeOK
<1>4. ASSUME NEW x \in ended' PROVE AtRest(x.id)'
  <2> DEFINE e == x.id
  <2>1. CASE x \in ended
    <3>1. e \in 1 .. events /\ AtRest(e)
      BY <2>1 DEF IdsAreCounted, EndsAreFinal
    <3> HIDE DEF e
    <3>2. AtRest(e)'
      BY <3>1, RestStays
    <3> QED BY <3>2 DEF e
  <2>2. CASE x \notin ended
    <3>1. PICK v \in Threads : \E k \in Nat : Ending(v, k, e)
      BY <1>2, <2>2
    <3>2. PICK k \in Nat : Ending(v, k, e)
      BY <3>1
    <3>3. e \in Nat
      BY <1>3
    <3> HIDE DEF e
    <3>4. AtRest(e)'
      BY <3>2, <3>3, EndRests
    <3> QED BY <3>4 DEF e
  <2> QED BY <2>1, <2>2
<1>5. ASSUME NEW x \in ended', NEW y \in ended', x \in ended, y \notin ended, x.id = y.id
      PROVE  FALSE
  <2>1. PICK v \in Threads : \E k \in Nat : Ending(v, k, y.id)
    BY <1>2, <1>5
  <2>2. PICK k \in 1 .. Len(stack[v]) : Holds(stack[v][k], y.id)
    BY <2>1 DEF Ending
  <2>3. AtRest(y.id)
    BY <1>5 DEF EndsAreFinal
  <2> QED BY <2>2, <2>3, RestIsNotHeld
<1>6. ASSUME NEW x \in ended', NEW y \in ended', x.id = y.id PROVE x = y
  <2>1. CASE x \in ended /\ y \in ended
    BY <1>6, <2>1 DEF EndsAreFinal
  <2>2. CASE x \notin ended /\ y \notin ended
    BY <1>1, <1>6, <2>2 DEF NewEnds
  <2> QED BY <1>5, <1>6, <2>1, <2>2
<1> QED BY <1>4, <1>6 DEF EndsAreFinal

-----------------------------------------------------------------------------
(* The invariant of the queues                                             *)

LEMMA QueueInit == Init => QueueInv
<1> SUFFICES ASSUME Init PROVE QueueInv
  OBVIOUS
<1>1. /\ \A t \in Threads : stack[t] = <<>> /\ Len(stack[t]) = 0
      /\ Len(lists) = 0 /\ Len(fired) = 0 /\ events = 0 /\ ended = {}
      /\ \A r \in ToSet(Receivers) : seen[r] = <<>> /\ Len(seen[r]) = 0
  BY DEF Init
<1>2. EventTypeOK
  <2>1. lists \in Seq(Seq(Event)) /\ fired \in Seq(Event)
    BY DEF Init
  <2>2. seen \in [ToSet(Receivers) -> Seq(Event)]
    BY DEF Init
  <2>3. stack \in [Threads -> Seq(Frame)]
    BY DEF Init
  <2>4. groups \in [Groups -> 0 .. Len(lists)]
    BY <1>1 DEF Init
  <2> QED BY <2>1, <2>2, <2>3, <2>4 DEF Init, EventTypeOK
<1>3. StackShape
  BY <1>1 DEF StackShape
<1>4. IdsAreCounted
  BY <1>1 DEF IdsAreCounted
<1>5. ListsAreOwned
  BY <1>1 DEF ListsAreOwned, Init
<1>6. PoppedIsOld
  BY <1>1 DEF PoppedIsOld
<1>7. PlacesAreDistinct
  BY <1>1 DEF PlacesAreDistinct
<1>8. RaisedWereFired
  BY <1>1 DEF RaisedWereFired
<1>9. EndsAreFinal
  BY <1>1 DEF EndsAreFinal
<1> QED BY <1>2, <1>3, <1>4, <1>5, <1>6, <1>7, <1>8, <1>9 DEF QueueInv

LEMMA QueueNext == QueueInv /\ [Next]_vars => QueueInv'
<1> SUFFICES ASSUME QueueInv, [Next]_vars PROVE QueueInv'
  OBVIOUS
<1>0. /\ EventTypeOK /\ StackShape /\ IdsAreCounted /\ ListsAreOwned /\ PoppedIsOld
      /\ PlacesAreDistinct /\ RaisedWereFired /\ EndsAreFinal
  BY DEF QueueInv
<1>1. EventTypeOK'
  BY <1>0, EventTypeNext
<1>2. StackShape'
  BY <1>0, <1>1, StackShapeNext
<1>3. PICK t : Moves(t)
  BY <1>0, <1>1, StepMoves
<1>4. ListsAreOwned'
  BY <1>0, <1>1, <1>3, ListsAreOwnedNext
<1>5. IdsAreCounted'
  BY <1>0, <1>1, <1>3, IdsAreCountedNext
<1>6. PoppedIsOld'
  BY <1>0, <1>1, <1>3, <1>4, PoppedIsOldNext
<1>7. RaisedWereFired'
  BY <1>0, <1>1, <1>3, RaisedWereFiredNext
<1>8. PlacesAreDistinct'
  BY <1>0, <1>1, <1>3, PlacesAreDistinctNext
<1>9. EndsAreFinal'
  BY <1>0, <1>1, <1>3, EndsAreFinalNext
<1> QED BY <1>1, <1>2, <1>4, <1>5, <1>6, <1>7, <1>8, <1>9 DEF QueueInv

LEMMA QueueAlways == Spec => []QueueInv
BY QueueInit, QueueNext, PTL DEF Spec

-----------------------------------------------------------------------------
(* Theorems                                                                *)

\* The fields of the manager and the calls of the threads always have their
\* types: fire_event, fire_or_defer_event and fire_deferred_events.
THEOREM EventTypes == Spec => []EventTypeOK
<1>1. QueueInv => EventTypeOK
  BY DEF QueueInv
<1> QED BY <1>1, QueueAlways, PTL

\* What fire_deferred_events fires was deferred before it was called, whatever
\* threads and receivers do while it runs, also through a list that a thread
\* looked up before the group was popped.
THEOREM FlushesAreBounded == Spec => []FlushIsBounded
<1>1. QueueInv => FlushIsBounded
  <2> SUFFICES ASSUME QueueInv, NEW t \in Threads, NEW i \in 1 .. Len(stack[t]) - 1,
                      stack[t][i].op = "flush"
               PROVE  stack[t][i + 1].ev.id <= stack[t][i].from
    BY DEF FlushIsBounded
  <2>1. EventTypeOK /\ StackShape /\ PoppedIsOld
    BY DEF QueueInv
  <2>2. i \in 1 .. Len(stack[t]) /\ i < Len(stack[t]) /\ stack[t][i] \in Frame
    BY <2>1, StackTypes
  <2>3. /\ FrameOK(stack[t][i], lists) /\ stack[t][i].list # 0 /\ stack[t][i].at >= 1
        /\ stack[t][i + 1].ev = lists[stack[t][i].list][stack[t][i].at]
    BY <2>1, <2>2 DEF StackShape, Within
  <2>4. stack[t][i].at \in 1 .. Len(lists[stack[t][i].list])
    <3>1. stack[t][i].at \in Nat /\ stack[t][i].list \in Nat
      BY <2>2 DEF Frame
    <3>2. stack[t][i].list \in 1 .. Len(lists) /\ stack[t][i].at <= Len(lists[stack[t][i].list])
      BY <2>1, <2>3, <3>1, ListTypes DEF FrameOK
    <3> QED BY <2>1, <2>3, <3>1, <3>2, ListTypes
  <2> QED BY <2>1, <2>2, <2>3, <2>4 DEF PoppedIsOld
<1> QED BY <1>1, QueueAlways, PTL

\* An event has one end, and once it has one no call and no list will ever bring
\* it back: it is in no stack, no flush has kept its error, and no group and no
\* flush will come to its place in a list.
THEOREM EventsEndOnce == Spec => []EndsAreFinal
<1>1. QueueInv => EndsAreFinal
  BY DEF QueueInv
<1> QED BY <1>1, QueueAlways, PTL
=============================================================================
