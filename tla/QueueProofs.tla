----------------------------- MODULE QueueProofs -----------------------------
(***************************************************************************)
(* Proofs about ReplayQueue: which saved records answer which calls, for    *)
(* any threads, types, params and recordings.                              *)
(***************************************************************************)
EXTENDS ReplayQueue, SequenceTheorems, WellFoundedInduction, TLAPS

\* The types whose lists are made once: by the only thread that asks for them, or
\* before the threads started.
Steady == Private \cup loaded
Places == {"idle", "check", "build", "assign", "get", "scan", "remove"}

QueueTypeOK ==
    /\ asDict \in BOOLEAN /\ loaded \in SUBSET DOMAIN saved /\ loaded \subseteq known
    /\ DOMAIN saved \subseteq Types /\ saved \in [DOMAIN saved -> Seq(Params)]
    /\ known \in SUBSET Types /\ current \in [Types -> Threads]
    /\ lists \in [Types -> [Threads -> Seq(Obj)]]
    /\ pc \in [Threads -> Places] /\ type \in [Threads -> Types \cup Unregistered]
    /\ params \in [Threads -> Params] /\ match \in [Threads -> Obj]
    /\ using \in [Threads -> Threads] /\ index \in [Threads -> Nat] /\ pops \in [Threads -> Nat]
    /\ outcomes \subseteq [by : Threads, nth : Nat, type : Types \cup Unregistered, params : Params,
                           how : {"found", "missing", "error"}, entry : Nat]
    /\ \A t \in Threads : /\ pc[t] \notin {"idle", "check"} => type[t] \in Types
                          /\ pc[t] \in {"scan", "remove"} => index[t] >= 1

\* A call has its record.
Found(y, e) == \E o \in outcomes : o.how = "found" /\ o.type = y /\ o.entry = e

\* What list s of type y holds: saved records in their order, each as long as no
\* call has it.
HoldsTheRest(y, s) ==
    /\ y \in DOMAIN saved
    /\ \A i \in DOMAIN s : /\ s[i].entry \in DOMAIN saved[y]
                           /\ s[i].params = saved[y][s[i].entry]
                           /\ ~Found(y, s[i].entry)
    /\ \A i, j \in DOMAIN s : i < j => s[i].entry < s[j].entry
    /\ \A e \in DOMAIN saved[y] : Found(y, e) \/ \E i \in DOMAIN s : s[i].entry = e

ListInv(y) ==
    /\ y \in known => HoldsTheRest(y, lists[y][current[y]])
    /\ y \notin known => \A e \in Nat : ~Found(y, e)

\* A thread that asks for a steady type.
AsksInv(t) ==
    /\ pc[t] \in {"build", "assign"} => type[t] \in Types \ known
    /\ pc[t] = "assign" => HoldsTheRest(type[t], lists[type[t]][t])
    /\ pc[t] \in {"get", "scan", "remove"} => type[t] \in known
    /\ pc[t] \in {"scan", "remove"} => using[t] = current[type[t]]
    /\ pc[t] = "remove" => match[t].params = params[t]

\* A thread that searches a list that is its own.
SearchInv(t) ==
    /\ pc[t] \in {"scan", "remove"} =>
          \A i \in DOMAIN Searched(t) : i < index[t] => Searched(t)[i].params # params[t]
    /\ pc[t] = "remove" => index[t] \in DOMAIN Searched(t) /\ Searched(t)[index[t]] = match[t]

ThreadInv(t) ==
    /\ pc[t] # "idle" => type[t] \in TypesOf[t]
    /\ type[t] \in Steady => AsksInv(t)
    /\ type[t] \in Private => SearchInv(t)

OutcomesInv ==
    \A o \in outcomes : (o.how = "found" /\ o.type \in Steady) =>
        /\ o.type \in known /\ o.entry \in DOMAIN saved[o.type]
        /\ saved[o.type][o.entry] = o.params

QueueInv ==
    /\ QueueTypeOK /\ \A y \in Steady : ListInv(y)
    /\ \A t \in Threads : ThreadInv(t)
    /\ OutcomesInv /\ EntryAnswersOnce /\ NoFalseMiss /\ TakenInOrder

-----------------------------------------------------------------------------
(* Taking an element out of a list                                         *)

\* An element that is in a list once leaves it, and the others move up.
LEMMA RemoveFirstRemoves ==
    ASSUME NEW S, NEW s \in Seq(S), NEW k \in DOMAIN s, \A i \in DOMAIN s : s[i] = s[k] => i = k
    PROVE  \E r \in Seq(S) : /\ r = RemoveFirst(s, s[k]) /\ Len(r) = Len(s) - 1
                              /\ \A i \in DOMAIN r : r[i] = IF i < k THEN s[i] ELSE s[i + 1]
  <1> DEFINE n == Len(s)
             r == RemoveFirst(s, s[k])
             I == {i \in 1 .. n : s[i] = s[k]}
             p == SubSeq(s, 1, k - 1)
             q == SubSeq(s, k + 1, n)
  <1>1. n \in Nat /\ k \in 1 .. n /\ DOMAIN s = 1 .. n
    OBVIOUS
  <1>2. I = {k}
    BY <1>1
  <1>3. SelectInSeq(s, LAMBDA v : v = s[k]) = k
    <2>1. SelectInSeq(s, LAMBDA v : v = s[k]) = IF I # {} THEN Min(I) ELSE 0
      BY DEF SelectInSeq
    <2>2. Min({k}) = k
      BY <1>1 DEF Min
    <2> HIDE DEF I
    <2> QED BY <1>2, <2>1, <2>2
  <1>4. r = p \o q
    <2>1. r = RemoveAt(s, SelectInSeq(s, LAMBDA v : v = s[k]))
      BY <1>1 DEF RemoveFirst
    <2> QED BY <1>3, <2>1 DEF RemoveAt
  <1>5. /\ p \in Seq(S) /\ Len(p) = k - 1 /\ \A i \in 1 .. k - 1 : p[i] = s[i]
    <2>1. k - 1 \in Nat /\ \A i \in 1 .. k - 1 : s[i] \in S
      BY <1>1
    <2> QED BY <1>1, <2>1, SubSeqProperties
  <1>6. /\ q \in Seq(S) /\ Len(q) = n - k /\ \A i \in 1 .. n - k : q[i] = s[k + i]
    <2>1. k + 1 \in 1 .. n + 1 /\ \A i \in k + 1 .. n : s[i] \in S
      BY <1>1
    <2> QED BY <1>1, <2>1, SubSeqProperties
  <1> HIDE DEF p, q, r
  <1>7. /\ r \in Seq(S) /\ Len(r) = Len(p) + Len(q)
        /\ \A i \in 1 .. Len(p) + Len(q) : r[i] = IF i <= Len(p) THEN p[i] ELSE q[i - Len(p)]
    BY <1>4, <1>5, <1>6, ConcatProperties
  <1>8. Len(r) = n - 1 /\ DOMAIN r = 1 .. n - 1
    BY <1>1, <1>5, <1>6, <1>7
  <1>9. ASSUME NEW i \in DOMAIN r PROVE r[i] = IF i < k THEN s[i] ELSE s[i + 1]
    <2>1. CASE i < k
      <3>1. i \in 1 .. k - 1 /\ i \in 1 .. (k - 1) + (n - k) /\ i <= k - 1
        BY <1>1, <1>8, <2>1
      <3>2. r[i] = p[i]
        BY <1>5, <1>6, <1>7, <3>1
      <3> QED BY <1>5, <2>1, <3>1, <3>2
    <2>2. CASE ~(i < k)
      <3>1. /\ i \in 1 .. (k - 1) + (n - k) /\ ~(i <= k - 1)
            /\ i - (k - 1) \in 1 .. n - k /\ k + (i - (k - 1)) = i + 1
        BY <1>1, <1>8, <2>2
      <3>2. r[i] = q[i - (k - 1)]
        BY <1>5, <1>6, <1>7, <3>1
      <3> QED BY <1>6, <2>2, <3>1, <3>2
    <2> QED BY <2>1, <2>2
  <1> QED BY <1>7, <1>8, <1>9 DEF r

\* What a list holds when the record k of it is given to a call.
LEMMA TheRestIsHeld ==
    ASSUME NEW y, NEW s \in Seq(Obj), HoldsTheRest(y, s), NEW k \in DOMAIN s, UNCHANGED saved,
           \A e : Found(y, e)' <=> (Found(y, e) \/ e = s[k].entry),
           saved \in [DOMAIN saved -> Seq(Params)]
    PROVE  \E r \in Seq(Obj) : /\ r = RemoveFirst(s, s[k]) /\ HoldsTheRest(y, r)'
                                /\ \A i \in DOMAIN r : i < k => i \in DOMAIN s /\ r[i] = s[i]
  <1>0. DOMAIN s = 1 .. Len(s) /\ Len(s) \in Nat /\ \A i \in DOMAIN s : s[i].entry \in Nat
    <2>1. DOMAIN s = 1 .. Len(s) /\ Len(s) \in Nat /\ \A i \in DOMAIN s : s[i] \in Obj
      OBVIOUS
    <2>2. \A x \in Obj : x.entry \in Nat
      BY DEF Obj
    <2> QED BY <2>1, <2>2
  <1>1. \A i, j \in DOMAIN s : i < j => s[i].entry < s[j].entry
    BY DEF HoldsTheRest
  <1>2. \A i \in DOMAIN s : s[i].entry = s[k].entry => i = k
    BY <1>0, <1>1
  <1>3. PICK r \in Seq(Obj) :
          /\ r = RemoveFirst(s, s[k]) /\ Len(r) = Len(s) - 1
          /\ \A i \in DOMAIN r : r[i] = IF i < k THEN s[i] ELSE s[i + 1]
    <2>1. \A i \in DOMAIN s : s[i] = s[k] => i = k
      BY <1>2
    <2> QED BY ONLY s \in Seq(Obj), k \in DOMAIN s, <2>1, RemoveFirstRemoves
  <1>4. /\ r \in Seq(Obj) /\ Len(r) = Len(s) - 1
        /\ \A i \in DOMAIN r : r[i] = IF i < k THEN s[i] ELSE s[i + 1]
    BY <1>3
  <1>5. DOMAIN r = 1 .. Len(s) - 1
    BY <1>0, <1>4
  <1> DEFINE At(i) == IF i < k THEN i ELSE i + 1
  <1>6. \A i \in DOMAIN r : At(i) \in DOMAIN s /\ At(i) # k /\ r[i] = s[At(i)]
    <2> TAKE i \in DOMAIN r
    <2>1. CASE i < k
      BY <1>0, <1>4, <1>5, <2>1
    <2>2. CASE ~(i < k)
      BY <1>0, <1>4, <1>5, <2>2
    <2> QED BY <2>1, <2>2
  <1>7. \A i, j \in DOMAIN r : i < j => At(i) < At(j)
    BY <1>0, <1>5
  <1>8. \A j \in DOMAIN s : j # k => \E i \in DOMAIN r : r[i] = s[j]
    <2> TAKE j \in DOMAIN s
    <2>1. CASE j < k
      <3>1. j \in DOMAIN r
        BY <1>0, <1>5, <2>1
      <3> QED BY <1>4, <2>1, <3>1
    <2>2. CASE j > k
      <3>1. j - 1 \in DOMAIN r /\ ~(j - 1 < k) /\ (j - 1) + 1 = j
        BY <1>0, <1>5, <2>2
      <3> QED BY <1>4, <3>1
    <2> QED BY <1>0, <2>1, <2>2
  <1>9. \A i \in DOMAIN r : i < k => i \in DOMAIN s /\ r[i] = s[i]
    BY <1>0, <1>4, <1>5
  <1> HIDE DEF At
  <1>10. HoldsTheRest(y, r)'
    <2>1. ASSUME NEW i \in DOMAIN r
          PROVE  /\ r[i].entry \in DOMAIN saved[y] /\ r[i].params = saved[y][r[i].entry]
                 /\ ~Found(y, r[i].entry)'
      <3>1. PICK j \in DOMAIN s : j # k /\ r[i] = s[j]
        BY <1>6
      <3>2. s[j].entry # s[k].entry
        BY <1>2, <3>1
      <3>3. Found(y, s[j].entry)' <=> (Found(y, s[j].entry) \/ s[j].entry = s[k].entry)
        OBVIOUS
      <3>4. /\ s[j].entry \in DOMAIN saved[y] /\ s[j].params = saved[y][s[j].entry]
            /\ ~Found(y, s[j].entry)
        BY DEF HoldsTheRest
      <3>5. ~Found(y, s[j].entry)'
        BY <3>2, <3>3, <3>4
      <3> QED BY <3>1, <3>4, <3>5
    <2>2. ASSUME NEW i \in DOMAIN r, NEW j \in DOMAIN r, i < j PROVE r[i].entry < r[j].entry
      BY <1>1, <1>6, <1>7, <2>2
    <2>3. ASSUME NEW e \in DOMAIN saved[y]
          PROVE  Found(y, e)' \/ \E i \in DOMAIN r : r[i].entry = e
      <3>1. Found(y, e)' <=> (Found(y, e) \/ e = s[k].entry)
        OBVIOUS
      <3>2. Found(y, e) \/ \E j \in DOMAIN s : s[j].entry = e
        BY DEF HoldsTheRest
      <3> QED BY <1>8, <3>1, <3>2
    <2>4. y \in DOMAIN saved
      BY DEF HoldsTheRest
    <2> QED BY <2>1, <2>2, <2>3, <2>4 DEF HoldsTheRest
  <1> QED BY <1>3, <1>9, <1>10

\* It leaves a list of objects, wherever it is.
LEMMA RemoveFirstLeavesObjects ==
    ASSUME NEW s \in Seq(Obj), NEW e, Contains(s, e) PROVE RemoveFirst(s, e) \in Seq(Obj)
  <1> DEFINE I == {i \in 1 .. Len(s) : s[i] = e}
             k == SelectInSeq(s, LAMBDA v : v = e)
  <1>1. I # {} /\ I \in SUBSET Nat /\ Len(s) \in Nat
    BY DEF Contains
  <1>2. \E m \in I : \A i \in I : m <= i
    <2> HIDE DEF I
    <2>1. \E m \in I : \A i \in I : <<i, m>> \notin OpToRel(<, Nat)
      BY <1>1, NatLessThanWellFounded, WFMin, Zenon
    <2>2. PICK m \in I : \A i \in I : <<i, m>> \notin OpToRel(<, Nat)
      BY <2>1
    <2>3. \A i \in I : ~(i < m)
      BY <1>1, <2>2 DEF OpToRel
    <2> QED BY <1>1, <2>3
  <1>3. k \in I
    <2>1. k = IF I # {} THEN Min(I) ELSE 0
      BY DEF SelectInSeq
    <2> HIDE DEF I, k
    <2>2. Min(I) \in I
      BY <1>2 DEF Min
    <2> QED BY <1>1, <2>1, <2>2
  <1>4. RemoveFirst(s, e) = SubSeq(s, 1, k - 1) \o SubSeq(s, k + 1, Len(s))
    BY <1>1 DEF RemoveFirst, RemoveAt
  <1>5. k \in 1 .. Len(s)
    BY <1>3
  <1> HIDE DEF k
  <1>6. \A i \in 1 .. Len(s) : s[i] \in Obj
    OBVIOUS
  <1>7. SubSeq(s, 1, k - 1) \in Seq(Obj)
    <2>1. k - 1 \in Nat /\ \A i \in 1 .. k - 1 : s[i] \in Obj
      BY <1>1, <1>5, <1>6
    <2> QED BY <1>1, <1>5, <2>1, SubSeqProperties
  <1>8. SubSeq(s, k + 1, Len(s)) \in Seq(Obj)
    <2>1. k + 1 \in 1 .. Len(s) + 1 /\ \A i \in k + 1 .. Len(s) : s[i] \in Obj
      BY <1>1, <1>5, <1>6
    <2> QED BY <1>1, <1>5, <2>1, SubSeqProperties
  <1> QED BY <1>4, <1>7, <1>8, ConcatProperties

\* The list that is built for a type.
LEMMA ObjectsAreRecords ==
    ASSUME NEW t \in Threads, NEW y \in DOMAIN saved, saved[y] \in Seq(Params)
    PROVE  /\ Objects(y, t) \in Seq(Obj) /\ DOMAIN Objects(y, t) = DOMAIN saved[y]
           /\ \A i \in DOMAIN saved[y] : /\ Objects(y, t)[i].entry = i
                                         /\ Objects(y, t)[i].params = saved[y][i]
  <1>1. DOMAIN saved[y] = 1 .. Len(saved[y]) /\ Len(saved[y]) \in Nat
    OBVIOUS
  <1>2. Objects(y, t) = [i \in 1 .. Len(saved[y]) |->
                            [entry |-> i, params |-> saved[y][i], list |-> t]]
    BY <1>1 DEF Objects
  <1>3. \A i \in 1 .. Len(saved[y]) : [entry |-> i, params |-> saved[y][i], list |-> t] \in Obj
    BY <1>1 DEF Obj
  <1>4. Objects(y, t) \in Seq(Obj)
    BY <1>1, <1>2, <1>3
  <1> QED BY <1>1, <1>2, <1>4

\* It holds all records, so that calls get them when they have got none yet.
LEMMA ObjectsAreAll ==
    ASSUME NEW t \in Threads, NEW y \in DOMAIN saved, saved[y] \in Seq(Params),
           \A e \in Nat : ~Found(y, e)
    PROVE  HoldsTheRest(y, Objects(y, t))
  <1>1. DOMAIN saved[y] \subseteq Nat
    OBVIOUS
  <1> QED BY <1>1, ObjectsAreRecords DEF HoldsTheRest

-----------------------------------------------------------------------------
(* Types                                                                   *)

\* What the threads start with.
LEMMA QueueTypesInit == Init => QueueTypeOK /\ outcomes = {} /\ known = loaded
                        /\ (\A t \in Threads : pc[t] = "idle")
                        /\ \A y \in loaded : lists[y][current[y]] = Objects(y, current[y])
  <1> SUFFICES ASSUME Init
               PROVE  QueueTypeOK /\ outcomes = {} /\ known = loaded
                      /\ (\A t \in Threads : pc[t] = "idle")
                      /\ \A y \in loaded : lists[y][current[y]] = Objects(y, current[y])
    OBVIOUS
  <1>1. /\ AnyThread \in Threads /\ (CHOOSE y \in Types : TRUE) \in Types
        /\ (CHOOSE p \in Params : TRUE) \in Params
    BY NonEmptyAssumption DEF AnyThread
  <1>2. DOMAIN saved \subseteq Types /\ saved \in [DOMAIN saved -> Seq(Params)]
    <2>1. PICK present \in SUBSET Types : saved \in [present -> BoundedSeq(Params, MaxSaved)]
      BY DEF Init
    <2>2. BoundedSeq(Params, MaxSaved) \subseteq Seq(Params)
      <3> SUFFICES ASSUME NEW s \in BoundedSeq(Params, MaxSaved) PROVE s \in Seq(Params)
        OBVIOUS
      <3>1. PICK m \in 0 .. MaxSaved : s \in [1 .. m -> Params]
        BY DEF BoundedSeq, SeqOf
      <3>2. m \in Nat
        BY BoundsAssumption
      <3> QED BY <3>1, <3>2
    <2> QED BY <2>1, <2>2
  <1>3. asDict \in BOOLEAN /\ loaded \in SUBSET DOMAIN saved /\ known = loaded
    BY FormatsAssumption DEF Init
  <1>4. current = [y \in Types |-> AnyThread] /\ current \in [Types -> Threads]
    BY <1>1 DEF Init
  <1>5. lists \in [Types -> [Threads -> Seq(Obj)]]
    <2>1. ASSUME NEW y \in Types, NEW t \in Threads
          PROVE  (IF y \in loaded /\ t = AnyThread THEN Objects(y, t) ELSE <<>>) \in Seq(Obj)
      <3>1. y \in loaded => Objects(y, t) \in Seq(Obj)
        BY <1>2, <1>3, ObjectsAreRecords
      <3> QED BY <3>1
    <2> QED BY <2>1 DEF Init
  <1>6. \A y \in loaded : lists[y][current[y]] = Objects(y, current[y])
    BY <1>1, <1>2, <1>3, <1>4 DEF Init
  <1>7. /\ pc = [t \in Threads |-> "idle"] /\ outcomes = {}
        /\ type \in [Threads -> Types] /\ params \in [Threads -> Params]
        /\ using \in [Threads -> Threads] /\ index \in [Threads -> Nat] /\ pops \in [Threads -> Nat]
    BY <1>1 DEF Init
  <1>8. match \in [Threads -> Obj]
    BY <1>1, <1>7 DEF Init, Obj
  <1> QED BY <1>2, <1>3, <1>4, <1>5, <1>6, <1>7, <1>8 DEF QueueTypeOK, Places

\* A call that ends.
LEMMA EndedTypes ==
    ASSUME QueueTypeOK, NEW t \in Threads,
           UNCHANGED <<setupVars, saved, known, current, localVars>>,
           lists' \in [Types -> [Threads -> Seq(Obj)]],
           NEW how \in {"found", "missing", "error"}, NEW e \in Nat, End(t, how, e)
    PROVE  QueueTypeOK'
  <1>1. pc' \in [Threads -> Places] /\ pc'[t] = "idle" /\ \A u \in Threads : u # t => pc'[u] = pc[u]
    BY DEF QueueTypeOK, End, Goto, Places
  <1>2. outcomes' \subseteq [by : Threads, nth : Nat, type : Types \cup Unregistered,
                             params : Params, how : {"found", "missing", "error"}, entry : Nat]
    BY DEF QueueTypeOK, End
  <1> QED BY <1>1, <1>2 DEF QueueTypeOK, setupVars, localVars

\* The steps keep the types.
LEMMA QueueTypesStep ==
    ASSUME QueueTypeOK, NEW t \in Threads, ExpectStep(t), UNCHANGED setupVars
    PROVE  QueueTypeOK'
  <1>0. /\ QueueTypeOK /\ Searched(t) = lists[type[t]][using[t]]
        /\ (pc[t] \notin {"idle", "check"} => Searched(t) \in Seq(Obj))
    BY DEF QueueTypeOK, Searched
  <1>1. CASE Expect(t)
    <2>1. type' \in [Threads -> Types \cup Unregistered] /\ params' \in [Threads -> Params]
      <3>1. PICK y \in TypesOf[t], p \in Params :
              type' = [type EXCEPT ![t] = y] /\ params' = [params EXCEPT ![t] = p]
        BY <1>1 DEF Expect
      <3>2. y \in Types \cup Unregistered
        BY TypesAssumption
      <3> QED BY <3>1, <3>2 DEF QueueTypeOK
    <2>2. /\ pc' \in [Threads -> Places] /\ pc'[t] = "check"
          /\ \A u \in Threads : u # t => pc'[u] = pc[u] /\ type'[u] = type[u]
      BY <1>1 DEF QueueTypeOK, Expect, Goto, Places
    <2>3. pops' \in [Threads -> Nat]
      BY <1>1 DEF QueueTypeOK, Expect
    <2> QED BY <1>1, <2>1, <2>2, <2>3 DEF QueueTypeOK, Expect, setupVars, recordVars
  <1>2. CASE RaiseUnregistered(t)
    BY <1>0, <1>2, EndedTypes DEF RaiseUnregistered, QueueTypeOK, recordVars
  <1>3. CASE CheckProcessed(t)
    <2>1. /\ pc' \in [Threads -> Places] /\ \A u \in Threads : u # t => pc'[u] = pc[u]
          /\ pc'[t] \in {"get", "build"}
      BY <1>3 DEF QueueTypeOK, CheckProcessed, Goto, Places
    <2> QED BY <1>3, <2>1 DEF QueueTypeOK, CheckProcessed, setupVars, recordVars, localVars
  <1>4. CASE RaiseUnloaded(t)
    BY <1>0, <1>4, EndedTypes DEF RaiseUnloaded, QueueTypeOK, recordVars
  <1>5. CASE BuildList(t)
    <2>1. /\ pc' \in [Threads -> Places] /\ pc'[t] = "assign"
          /\ \A u \in Threads : u # t => pc'[u] = pc[u]
      BY <1>5 DEF QueueTypeOK, BuildList, Goto, Places
    <2>2. Objects(type[t], t) \in Seq(Obj)
      BY <1>5, ObjectsAreRecords DEF QueueTypeOK, BuildList
    <2>3. type[t] \in Types /\ pc[t] = "build"
      BY <1>5 DEF QueueTypeOK, BuildList
    <2>4. lists' \in [Types -> [Threads -> Seq(Obj)]]
      BY <1>5, <2>2, <2>3 DEF QueueTypeOK, BuildList
    <2> QED BY <1>5, <2>1, <2>3, <2>4 DEF QueueTypeOK, BuildList, setupVars, localVars
  <1>6. CASE AssignList(t)
    <2>1. /\ pc' \in [Threads -> Places] /\ pc'[t] = "get"
          /\ \A u \in Threads : u # t => pc'[u] = pc[u]
      BY <1>6 DEF QueueTypeOK, AssignList, Goto, Places
    <2>2. type[t] \in Types
      BY <1>6 DEF QueueTypeOK, AssignList
    <2>3. current' \in [Types -> Threads] /\ known' \in SUBSET Types /\ known \subseteq known'
      BY <1>6, <2>2 DEF QueueTypeOK, AssignList
    <2> QED BY <1>6, <2>1, <2>2, <2>3 DEF QueueTypeOK, AssignList, setupVars, localVars
  <1>7. CASE GetList(t)
    <2>1. /\ pc' \in [Threads -> Places] /\ pc'[t] = "scan"
          /\ \A u \in Threads : u # t => pc'[u] = pc[u] /\ index'[u] = index[u]
      BY <1>7 DEF QueueTypeOK, GetList, Goto, Places
    <2>2. type[t] \in Types
      BY <1>7 DEF QueueTypeOK, GetList
    <2>3. using' \in [Threads -> Threads] /\ index' \in [Threads -> Nat] /\ index'[t] = 1
      BY <1>7, <2>2 DEF QueueTypeOK, GetList
    <2> QED BY SMTT(30), <1>7, <2>1, <2>2, <2>3 DEF QueueTypeOK, GetList, setupVars, recordVars
  <1>8. CASE ScanNext(t)
    <2>1. index[t] \in DOMAIN Searched(t) /\ Searched(t)[index[t]] \in Obj /\ index[t] \in Nat
      BY <1>0, <1>8 DEF QueueTypeOK, ScanNext
    <2>2. /\ match' \in [Threads -> Obj]
          /\ pc' \in [Threads -> Places] /\ pc'[t] \in {"scan", "remove"}
          /\ \A u \in Threads : u # t => pc'[u] = pc[u] /\ index'[u] = index[u]
          /\ index' \in [Threads -> Nat] /\ index'[t] >= 1
      <3>1. CASE Searched(t)[index[t]].params = params[t]
        BY <1>8, <2>1, <3>1 DEF QueueTypeOK, ScanNext, Goto, Places
      <3>2. CASE Searched(t)[index[t]].params # params[t]
        <4>1. /\ pc[t] = "scan" /\ index[t] >= 1 /\ UNCHANGED <<pc, match>>
              /\ index' = [index EXCEPT ![t] = index[t] + 1]
          BY <1>8, <3>2 DEF QueueTypeOK, ScanNext
        <4>2. index' \in [Threads -> Nat] /\ index'[t] >= 1
          BY <2>1, <4>1 DEF QueueTypeOK
        <4> QED BY <4>1, <4>2 DEF QueueTypeOK
      <3> QED BY <3>1, <3>2
    <2> QED BY <1>8, <2>2 DEF QueueTypeOK, ScanNext, setupVars, recordVars
  <1>9. CASE ScanEnd(t)
    BY <1>0, <1>9, EndedTypes DEF ScanEnd, QueueTypeOK, recordVars
  <1>10. CASE RemoveMatch(t)
    <2>1. RemoveFirst(Searched(t), match[t]) \in Seq(Obj) /\ type[t] \in Types
      BY <1>0, <1>10, RemoveFirstLeavesObjects DEF RemoveMatch, QueueTypeOK
    <2>2. lists' \in [Types -> [Threads -> Seq(Obj)]]
      BY <1>0, <1>10, <2>1 DEF RemoveMatch, QueueTypeOK
    <2>3. match[t].entry \in Nat
      BY DEF QueueTypeOK, Obj
    <2> QED BY <1>10, <2>2, <2>3, EndedTypes DEF RemoveMatch
  <1>11. CASE RemoveRaises(t)
    <2>1. match[t].entry \in Nat
      BY DEF QueueTypeOK, Obj
    <2> QED BY <1>11, <2>1, EndedTypes DEF RemoveRaises, QueueTypeOK, recordVars
  <1> QED BY <1>1, <1>2, <1>3, <1>4, <1>5, <1>6, <1>7, <1>8, <1>9, <1>10, <1>11 DEF ExpectStep

-----------------------------------------------------------------------------
(* What a step leaves alone                                                *)

SameThread(u) == UNCHANGED <<pc[u], type[u], params[u], using[u], index[u], match[u]>>
SameFound(z) == UNCHANGED saved /\ \A e : Found(z, e)' <=> Found(z, e)
SameList(z) ==
    SameFound(z) /\ UNCHANGED <<lists[z], current[z]>> /\ (z \in known' <=> z \in known)

\* A list of a type holds the same as long as no call gets a record of it.
LEMMA RestKeeps ==
    ASSUME NEW z, NEW s, SameFound(z), HoldsTheRest(z, s) PROVE HoldsTheRest(z, s)'
  BY DEF SameFound, HoldsTheRest

LEMMA ListKeeps ==
    ASSUME NEW z, SameList(z), ListInv(z) PROVE ListInv(z)'
  <1>1. PICK s : s = lists[z][current[z]]
    OBVIOUS
  <1>2. (lists[z][current[z]])' = s
    BY <1>1 DEF SameList
  <1>3. HoldsTheRest(z, s) => HoldsTheRest(z, s)'
    BY RestKeeps DEF SameList
  <1>4. z \in known => HoldsTheRest(z, s)
    BY <1>1 DEF ListInv
  <1>5. z \in known' => HoldsTheRest(z, lists[z][current[z]])'
    BY <1>2, <1>3, <1>4 DEF SameList, HoldsTheRest
  <1>6. z \notin known' => \A e \in Nat : ~Found(z, e)'
    BY DEF SameList, SameFound, ListInv
  <1> QED BY <1>5, <1>6 DEF ListInv

\* A thread that does nothing keeps what it relies on.
LEMMA OthersKeep ==
    ASSUME NEW u \in Threads, NEW z, z = type[u], ThreadInv(u), SameThread(u), UNCHANGED loaded,
           pc[u] = "idle" \/ z \notin Steady \/ SameList(z)
    PROVE  ThreadInv(u)'
  <1>0. type'[u] = z /\ pc'[u] = pc[u] /\ Steady' = Steady
    BY DEF SameThread, Steady
  <1>1. pc'[u] # "idle" => z \in TypesOf[u]
    BY <1>0 DEF ThreadInv
  <1>2. z \in Private => z \in Steady
    BY DEF Steady
  <1>3. CASE pc[u] = "idle"
    BY <1>0, <1>3 DEF ThreadInv, AsksInv, SearchInv
  <1>4. CASE z \notin Steady
    BY <1>0, <1>1, <1>2, <1>4 DEF ThreadInv
  <1>5. CASE SameList(z) /\ z \in Steady
    <2>1. AsksInv(u)'
      <3>1. AsksInv(u) /\ (z \in known' <=> z \in known)
        BY <1>5 DEF ThreadInv, SameList
      <3>2. /\ lists'[z] = lists[z] /\ current'[z] = current[z]
            /\ using'[u] = using[u] /\ match'[u] = match[u] /\ params'[u] = params[u]
        BY <1>5 DEF SameList, SameThread
      <3>3. HoldsTheRest(z, lists[z][u]) => HoldsTheRest(z, lists[z][u])'
        <4>1. saved' = saved /\ \A e : Found(z, e)' <=> Found(z, e)
          BY <1>5 DEF SameList, SameFound
        <4>2. lists'[z][u] = lists[z][u]
          BY <3>2
        <4> QED BY <4>1, <4>2 DEF HoldsTheRest
      <3> QED BY <1>0, <3>1, <3>2, <3>3 DEF AsksInv
    <2>2. z \in Private => SearchInv(u)'
      <3>1. Searched(u)' = Searched(u)
        BY <1>0, <1>5 DEF Searched, SameThread, SameList
      <3>2. /\ pc'[u] = pc[u] /\ params'[u] = params[u]
            /\ index'[u] = index[u] /\ match'[u] = match[u]
        BY DEF SameThread
      <3>3. z \in Private => SearchInv(u)
        BY DEF ThreadInv
      <3> QED BY <3>1, <3>2, <3>3 DEF SearchInv
    <2> QED BY <1>0, <1>1, <2>1, <2>2 DEF ThreadInv
  <1> QED BY <1>3, <1>4, <1>5

\* A step that changes no list and gives no record to a call keeps the lists' part,
\* and the threads' but for the one that takes it.
LEMMA LocalKeeps ==
    ASSUME QueueInv, NEW t \in Threads, UNCHANGED <<setupVars, recordVars>>,
           \A z, e : Found(z, e)' <=> Found(z, e),
           \A u \in Threads : u # t => SameThread(u), ThreadInv(t)'
    PROVE  (\A z \in Steady' : ListInv(z)') /\ \A u \in Threads : ThreadInv(u)'
  <1>1. \A z : SameList(z)
    BY DEF SameList, SameFound, recordVars
  <1>2. Steady' = Steady /\ UNCHANGED loaded
    BY DEF Steady, setupVars
  <1>3. ASSUME NEW z \in Steady PROVE ListInv(z)'
    BY <1>1, ListKeeps DEF QueueInv
  <1>4. ASSUME NEW u \in Threads, u # t PROVE ThreadInv(u)'
    <2>1. PICK z : z = type[u]
      OBVIOUS
    <2>2. ThreadInv(u) /\ SameThread(u) /\ SameList(z)
      BY <1>1, <1>4 DEF QueueInv
    <2> QED BY <1>2, <2>1, <2>2, OthersKeep
  <1> QED BY <1>2, <1>3, <1>4

-----------------------------------------------------------------------------
(* Calls that end without a record                                         *)

\* The calls that got a record are the same: what they got is right as it was.
LEMMA OutcomesKeep ==
    ASSUME QueueInv, NEW O, outcomes' = outcomes \cup O, \A o \in O : o.how # "found",
           \A o \in O : (o.how = "missing" /\ o.type \in Private) =>
                            Saved(o.type, o.params) \subseteq Taken(o.type, o.params),
           UNCHANGED <<saved, loaded>>, known \subseteq known'
    PROVE  /\ \A z, e : Found(z, e)' <=> Found(z, e)
           /\ OutcomesInv' /\ EntryAnswersOnce' /\ NoFalseMiss' /\ TakenInOrder'
  <1>1. \A o \in outcomes' : o.how = "found" => o \in outcomes
    OBVIOUS
  <1>2. \A z, e : Found(z, e)' <=> Found(z, e)
    BY <1>1 DEF Found
  <1>3. \A y, p : Taken(y, p)' = Taken(y, p) /\ Saved(y, p)' = Saved(y, p)
    BY <1>1 DEF Taken, Saved
  <1>4. Steady' = Steady
    BY DEF Steady
  <1>5. OutcomesInv'
    BY <1>1, <1>4 DEF QueueInv, OutcomesInv
  <1>6. EntryAnswersOnce'
    BY <1>1 DEF QueueInv, EntryAnswersOnce
  <1>7. NoFalseMiss'
    BY <1>3 DEF QueueInv, NoFalseMiss
  <1>8. TakenInOrder'
    BY <1>3 DEF QueueInv, TakenInOrder
  <1> QED BY <1>2, <1>5, <1>6, <1>7, <1>8

\* A step of one thread that leaves the lists and the outcomes alone.
LEMMA QuietStep ==
    ASSUME QueueInv, QueueTypeOK', NEW t \in Threads,
           UNCHANGED <<setupVars, recordVars, outcomes>>,
           \A u \in Threads : u # t => SameThread(u), ThreadInv(t)'
    PROVE  QueueInv'
  <1>1. /\ \A z, e : Found(z, e)' <=> Found(z, e)
        /\ OutcomesInv' /\ EntryAnswersOnce' /\ NoFalseMiss' /\ TakenInOrder'
    <2>1. PICK O : O = {}
      OBVIOUS
    <2>2. outcomes' = outcomes \cup O /\ UNCHANGED <<saved, loaded>> /\ known \subseteq known'
      BY <2>1 DEF setupVars, recordVars
    <2> QED BY <2>1, <2>2, OutcomesKeep
  <1>2. (\A z \in Steady' : ListInv(z)') /\ \A u \in Threads : ThreadInv(u)'
    BY <1>1, LocalKeeps
  <1> QED BY <1>1, <1>2 DEF QueueInv

\* A call that ends without a record, and with a reason if it is told that there is none.
LEMMA CallFails ==
    ASSUME QueueInv, QueueTypeOK', NEW t \in Threads,
           UNCHANGED <<setupVars, recordVars, localVars>>,
           NEW how \in {"missing", "error"}, NEW e, End(t, how, e),
           (how = "missing" /\ type[t] \in Private) =>
               Saved(type[t], params[t]) \subseteq Taken(type[t], params[t])
    PROVE  QueueInv'
  <1> DEFINE o == [by |-> t, nth |-> pops[t], type |-> type[t], params |-> params[t],
                   how |-> how, entry |-> e]
  <1>1. /\ \A z, i : Found(z, i)' <=> Found(z, i)
        /\ OutcomesInv' /\ EntryAnswersOnce' /\ NoFalseMiss' /\ TakenInOrder'
    <2>1. outcomes' = outcomes \cup {o} /\ o.how = how /\ o.type = type[t] /\ o.params = params[t]
      BY DEF End
    <2>2. UNCHANGED <<saved, loaded>> /\ known \subseteq known'
      BY DEF setupVars, recordVars
    <2> HIDE DEF o
    <2>3. PICK O : O = {o}
      OBVIOUS
    <2> QED BY <2>1, <2>2, <2>3, OutcomesKeep
  <1>2. pc'[t] = "idle" /\ \A u \in Threads : u # t => SameThread(u)
    BY DEF End, Goto, SameThread, localVars, QueueInv, QueueTypeOK
  <1>3. ThreadInv(t)'
    BY <1>2 DEF ThreadInv, AsksInv, SearchInv
  <1>4. (\A z \in Steady' : ListInv(z)') /\ \A u \in Threads : ThreadInv(u)'
    BY <1>1, <1>2, <1>3, LocalKeeps
  <1> QED BY <1>1, <1>4 DEF QueueInv

\* Saved records with the params of a call that are in no list have been taken.
LEMMA FoundIsTaken ==
    ASSUME QueueInv, NEW y \in Private, NEW p, NEW i \in Saved(y, p), Found(y, i)
    PROVE  i \in Taken(y, p)
  <1>1. PICK o \in outcomes : o.how = "found" /\ o.type = y /\ o.entry = i
    BY DEF Found
  <1>2. o.params = p
    BY <1>1 DEF QueueInv, OutcomesInv, Steady, Saved
  <1> QED BY <1>1, <1>2 DEF Taken

-----------------------------------------------------------------------------
(* The steps of a call                                                     *)

LEMMA KeptByExpect ==
    ASSUME QueueInv, QueueTypeOK', UNCHANGED setupVars, NEW t \in Threads, Expect(t)
    PROVE  QueueInv'
  <1>1. \A u \in Threads : u # t => SameThread(u)
    BY DEF Expect, Goto, SameThread, QueueInv, QueueTypeOK
  <1>2. pc'[t] = "check" /\ type'[t] \in TypesOf[t]
    <2>1. PICK y \in TypesOf[t] : type' = [type EXCEPT ![t] = y]
      BY DEF Expect
    <2> QED BY <2>1 DEF Expect, Goto, QueueInv, QueueTypeOK
  <1>3. ThreadInv(t)'
    BY <1>2 DEF ThreadInv, AsksInv, SearchInv
  <1> QED BY <1>1, <1>3, QuietStep DEF Expect

LEMMA KeptByCheckProcessed ==
    ASSUME QueueInv, QueueTypeOK', UNCHANGED setupVars, NEW t \in Threads, CheckProcessed(t)
    PROVE  QueueInv'
  <1>1. \A u \in Threads : u # t => SameThread(u)
    BY DEF CheckProcessed, Goto, SameThread, localVars, QueueInv, QueueTypeOK
  <1>2. /\ pc'[t] = IF type[t] \in known THEN "get" ELSE "build"
        /\ type'[t] = type[t] /\ type[t] \in Types /\ type[t] \in TypesOf[t] /\ known' = known
    BY DEF CheckProcessed, Goto, localVars, recordVars, QueueInv, QueueTypeOK, ThreadInv
  <1>3. ThreadInv(t)'
    BY <1>2 DEF ThreadInv, AsksInv, SearchInv
  <1> QED BY <1>1, <1>3, QuietStep DEF CheckProcessed, localVars

LEMMA KeptByGetList ==
    ASSUME QueueInv, QueueTypeOK', UNCHANGED setupVars, NEW t \in Threads, GetList(t)
    PROVE  QueueInv'
  <1>1. \A u \in Threads : u # t => SameThread(u)
    BY DEF GetList, Goto, SameThread, QueueInv, QueueTypeOK
  <1>2. /\ pc[t] = "get" /\ pc'[t] = "scan" /\ type'[t] = type[t] /\ index'[t] = 1
        /\ using'[t] = current[type[t]] /\ known' = known /\ current' = current /\ lists' = lists
    BY DEF GetList, Goto, recordVars, QueueInv, QueueTypeOK
  <1>3. Steady' = Steady
    BY DEF Steady, setupVars
  <1>4. type[t] \in TypesOf[t] /\ (type[t] \in Steady => type[t] \in known)
    BY <1>2 DEF QueueInv, ThreadInv, AsksInv
  <1>5. type[t] \in Types /\ lists[type[t]][current[type[t]]] \in Seq(Obj)
    BY <1>2 DEF QueueInv, QueueTypeOK
  <1>6. SearchInv(t)'
    BY <1>2, <1>5 DEF SearchInv, Searched
  <1>7. ThreadInv(t)'
    BY <1>2, <1>3, <1>4, <1>6 DEF ThreadInv, AsksInv
  <1> QED BY <1>1, <1>7, QuietStep DEF GetList

LEMMA KeptByScanNext ==
    ASSUME QueueInv, QueueTypeOK', UNCHANGED setupVars, NEW t \in Threads, ScanNext(t)
    PROVE  QueueInv'
  <1>1. \A u \in Threads : u # t => SameThread(u)
    BY DEF ScanNext, Goto, SameThread, QueueInv, QueueTypeOK
  <1>2. PICK s : s = Searched(t)
    OBVIOUS
  <1>3. /\ pc[t] = "scan" /\ UNCHANGED <<recordVars, type, params, using>>
        /\ Searched(t)' = s /\ Steady' = Steady
    BY <1>2 DEF ScanNext, Searched, recordVars, Steady, setupVars
  <1>4. /\ s \in Seq(Obj) /\ index[t] \in DOMAIN s /\ index[t] \in Nat
    <2>1. type[t] \in Types /\ using[t] \in Threads /\ index[t] \in Nat /\ index[t] >= 1
      BY <1>3 DEF QueueInv, QueueTypeOK
    <2>2. s \in Seq(Obj)
      BY <1>2, <2>1 DEF Searched, QueueInv, QueueTypeOK
    <2>3. index[t] <= Len(s)
      BY <1>2 DEF ScanNext
    <2> QED BY <2>1, <2>2, <2>3
  <1>5. /\ type[t] \in TypesOf[t]
        /\ type[t] \in Steady => type[t] \in known /\ using[t] = current[type[t]]
        /\ type[t] \in Private => \A i \in DOMAIN s : i < index[t] => s[i].params # params[t]
    BY <1>2, <1>3 DEF QueueInv, ThreadInv, AsksInv, SearchInv
  <1>6. CASE s[index[t]].params = params[t]
    <2>1. pc'[t] = "remove" /\ match'[t] = s[index[t]] /\ index' = index
      BY <1>2, <1>6 DEF ScanNext, Goto, QueueInv, QueueTypeOK
    <2>2. type[t] \in Private => SearchInv(t)'
      BY <1>3, <1>4, <1>5, <2>1 DEF SearchInv
    <2>3. type[t] \in Steady => AsksInv(t)'
      BY <1>3, <1>5, <1>6, <2>1 DEF AsksInv, recordVars
    <2>4. ThreadInv(t)'
      BY <1>3, <1>5, <2>1, <2>2, <2>3 DEF ThreadInv
    <2> QED BY <1>1, <2>4, QuietStep DEF ScanNext
  <1>7. CASE s[index[t]].params # params[t]
    <2>1. pc'[t] = "scan" /\ index'[t] = index[t] + 1
      BY <1>2, <1>3, <1>7 DEF ScanNext, QueueInv, QueueTypeOK
    <2>2. type[t] \in Private => SearchInv(t)'
      <3>1. \A i \in DOMAIN s : i \in Nat /\ (i < index[t] + 1 => i < index[t] \/ i = index[t])
        BY <1>4
      <3> QED BY <1>3, <1>5, <1>7, <2>1, <3>1 DEF SearchInv
    <2>3. type[t] \in Steady => AsksInv(t)'
      BY <1>3, <1>5, <2>1 DEF AsksInv, recordVars
    <2>4. ThreadInv(t)'
      BY <1>3, <1>5, <2>1, <2>2, <2>3 DEF ThreadInv
    <2> QED BY <1>1, <2>4, QuietStep DEF ScanNext
  <1> QED BY <1>6, <1>7

\* The search ends without a match: no record with the params is left.
LEMMA KeptByScanEnd ==
    ASSUME QueueInv, QueueTypeOK', UNCHANGED setupVars, NEW t \in Threads, ScanEnd(t)
    PROVE  QueueInv'
  <1> DEFINE y == type[t]
             p == params[t]
             s == Searched(t)
  <1>1. pc[t] = "scan" /\ index[t] > Len(s) /\ s \in Seq(Obj) /\ index[t] \in Nat
    <2>1. pc[t] = "scan" /\ index[t] > Len(s) /\ QueueTypeOK
      BY DEF ScanEnd, QueueInv
    <2>2. y \in Types /\ using[t] \in Threads /\ index[t] \in Nat
      BY <2>1 DEF QueueTypeOK
    <2>3. s \in Seq(Obj)
      BY <2>1, <2>2 DEF Searched, QueueTypeOK
    <2> QED BY <2>1, <2>2, <2>3
  <1>2. ASSUME y \in Private PROVE Saved(y, p) \subseteq Taken(y, p)
    <2>1. y \in Steady
      BY <1>2 DEF Steady
    <2>2. /\ y \in known /\ using[t] = current[y]
          /\ \A i \in DOMAIN s : i < index[t] => s[i].params # p
      BY <1>1, <1>2, <2>1 DEF QueueInv, ThreadInv, AsksInv, SearchInv
    <2>3. HoldsTheRest(y, s)
      BY <2>1, <2>2 DEF QueueInv, ListInv, Searched
    <2>4. \A i \in DOMAIN s : s[i].params # p
      BY <1>1, <2>2
    <2> HIDE DEF y, p, s
    <2>5. ASSUME NEW e \in Saved(y, p) PROVE Found(y, e)
      <3>1. y \in DOMAIN saved /\ e \in DOMAIN saved[y] /\ saved[y][e] = p
        BY <2>3, <2>5 DEF Saved, HoldsTheRest
      <3> QED BY <2>3, <2>4, <3>1 DEF HoldsTheRest
    <2> QED BY <1>2, <2>5, FoundIsTaken
  <1>3. UNCHANGED <<recordVars, localVars>> /\ End(t, "missing", 0)
    BY DEF ScanEnd
  <1> QED BY <1>2, <1>3, CallFails

LEMMA KeptByFailures ==
    ASSUME QueueInv, QueueTypeOK', UNCHANGED setupVars, NEW t \in Threads,
           RaiseUnregistered(t) \/ RaiseUnloaded(t) \/ RemoveRaises(t)
    PROVE  QueueInv'
  <1>1. UNCHANGED <<recordVars, localVars>> /\ \E e : End(t, "error", e)
    BY DEF RaiseUnregistered, RaiseUnloaded, RemoveRaises
  <1>2. PICK e : End(t, "error", e)
    BY <1>1
  <1> QED BY <1>1, <1>2, CallFails

-----------------------------------------------------------------------------
(* The making of a list                                                    *)

\* Nobody else asks for a steady type whose list is not there yet.
LEMMA OnlyBuilder ==
    ASSUME QueueInv, NEW t \in Threads, NEW u \in Threads, u # t,
           pc[t] \in {"build", "assign"}, type[t] \in Steady, pc[u] # "idle"
    PROVE  type[u] # type[t]
  <1>1. type[t] \notin known /\ type[t] \in Types /\ loaded \subseteq known
    BY DEF QueueInv, QueueTypeOK, ThreadInv, AsksInv
  <1>2. type[t] \in Private
    BY <1>1 DEF Steady
  <1>3. type[t] \in TypesOf[t] /\ type[u] \in TypesOf[u]
    BY DEF QueueInv, ThreadInv
  <1> QED BY <1>2, <1>3 DEF Private

LEMMA KeptByBuildList ==
    ASSUME QueueInv, QueueTypeOK', UNCHANGED setupVars, NEW t \in Threads, BuildList(t)
    PROVE  QueueInv'
  <1>1. PICK y : y = type[t]
    OBVIOUS
  <1>2. /\ pc[t] = "build" /\ pc'[t] = "assign" /\ type' = type /\ y \in Types
        /\ y \in DOMAIN saved /\ saved[y] \in Seq(Params) /\ y \in TypesOf[t]
        /\ UNCHANGED <<saved, known, current, loaded, outcomes>> /\ Steady' = Steady
        /\ \A u \in Threads : u # t => SameThread(u)
    BY <1>1 DEF BuildList, Goto, SameThread, localVars, setupVars, QueueInv, QueueTypeOK,
       ThreadInv, Steady
  <1>3. lists'[y][t] = Objects(y, t) /\ \A z \in Types : z # y => lists'[z] = lists[z]
    BY <1>1, <1>2 DEF BuildList, QueueInv, QueueTypeOK
  <1>4. /\ \A z, e : Found(z, e)' <=> Found(z, e)
        /\ OutcomesInv' /\ EntryAnswersOnce' /\ NoFalseMiss' /\ TakenInOrder'
    <2>1. PICK O : O = {}
      OBVIOUS
    <2>2. outcomes' = outcomes \cup O /\ UNCHANGED <<saved, loaded>> /\ known \subseteq known'
      BY <1>2, <2>1
    <2> QED BY <2>1, <2>2, OutcomesKeep
  <1>5. \A z \in Types : z # y => SameList(z)
    BY <1>2, <1>3, <1>4 DEF SameList, SameFound
  <1>6. Steady \subseteq Types
    BY DEF Steady, Private, QueueInv, QueueTypeOK
  <1>7. y \in Steady => y \notin known /\ \A e \in Nat : ~Found(y, e)
    BY <1>1, <1>2 DEF QueueInv, ThreadInv, AsksInv, ListInv
  <1>8. ASSUME NEW z \in Steady PROVE ListInv(z)'
    <2>1. CASE z = y
      BY <1>2, <1>4, <1>7, <2>1 DEF ListInv
    <2>2. CASE z # y
      BY <1>5, <1>6, <2>2, ListKeeps DEF QueueInv
    <2> QED BY <2>1, <2>2
  <1>9. ASSUME NEW u \in Threads PROVE ThreadInv(u)'
    <2>1. CASE u = t
      <3>1. y \in Steady => HoldsTheRest(y, Objects(y, t))'
        <4>1. y \in Steady => HoldsTheRest(y, Objects(y, t))
          BY <1>2, <1>7, ObjectsAreAll
        <4>2. PICK s : s = Objects(y, t)
          OBVIOUS
        <4>3. (Objects(y, t))' = s
          BY <1>2, <4>2 DEF Objects
        <4> QED BY <1>2, <1>4, <4>1, <4>2, <4>3, RestKeeps DEF SameFound, HoldsTheRest
      <3>2. y \in Steady => AsksInv(t)'
        <4>1. (lists[type[t]][t])' = Objects(y, t) /\ (Objects(y, t))' = Objects(y, t)
          BY <1>1, <1>2, <1>3 DEF Objects
        <4> QED BY <1>1, <1>2, <1>7, <3>1, <4>1 DEF AsksInv, HoldsTheRest
      <3>3. SearchInv(t)'
        BY <1>2 DEF SearchInv
      <3> QED BY <1>1, <1>2, <2>1, <3>2, <3>3 DEF ThreadInv
    <2>2. CASE u # t
      <3>1. PICK z : z = type[u]
        OBVIOUS
      <3>2. pc[u] = "idle" \/ z \notin Steady \/ z # y
        BY <1>1, <1>2, <2>2, <3>1, OnlyBuilder
      <3>3. pc[u] = "idle" \/ z \notin Steady \/ SameList(z)
        BY <1>5, <1>6, <3>2
      <3>4. ThreadInv(u)
        BY DEF QueueInv
      <3> QED BY <1>2, <2>2, <3>1, <3>3, <3>4, OthersKeep
    <2> QED BY <2>1, <2>2
  <1> QED BY <1>2, <1>4, <1>8, <1>9 DEF QueueInv

LEMMA KeptByAssignList ==
    ASSUME QueueInv, QueueTypeOK', UNCHANGED setupVars, NEW t \in Threads, AssignList(t)
    PROVE  QueueInv'
  <1>1. PICK y : y = type[t]
    OBVIOUS
  <1>2. /\ pc[t] = "assign" /\ pc'[t] = "get" /\ type' = type /\ y \in Types /\ y \in TypesOf[t]
        /\ known' = known \cup {y} /\ UNCHANGED <<saved, lists, loaded, outcomes>>
        /\ Steady' = Steady /\ \A u \in Threads : u # t => SameThread(u)
    BY <1>1 DEF AssignList, Goto, SameThread, localVars, setupVars, QueueInv, QueueTypeOK,
       ThreadInv, Steady
  <1>3. current'[y] = t /\ \A z \in Types : z # y => current'[z] = current[z]
    BY <1>1, <1>2 DEF AssignList, QueueInv, QueueTypeOK
  <1>4. /\ \A z, e : Found(z, e)' <=> Found(z, e)
        /\ OutcomesInv' /\ EntryAnswersOnce' /\ NoFalseMiss' /\ TakenInOrder'
    <2>1. PICK O : O = {}
      OBVIOUS
    <2>2. outcomes' = outcomes \cup O /\ UNCHANGED <<saved, loaded>> /\ known \subseteq known'
      BY <1>2, <2>1
    <2> QED BY <2>1, <2>2, OutcomesKeep
  <1>5. \A z \in Types : z # y => SameList(z)
    BY <1>2, <1>3, <1>4 DEF SameList, SameFound
  <1>6. Steady \subseteq Types
    BY DEF Steady, Private, QueueInv, QueueTypeOK
  <1>7. ASSUME NEW z \in Steady PROVE ListInv(z)'
    <2>1. CASE z = y
      <3>1. PICK s : s = lists[y][t]
        OBVIOUS
      <3>2. HoldsTheRest(y, s)
        BY <1>1, <1>2, <2>1, <3>1 DEF QueueInv, ThreadInv, AsksInv
      <3>3. HoldsTheRest(y, s)'
        BY <1>2, <1>4, <3>2, RestKeeps DEF SameFound
      <3>4. (lists[y][current[y]])' = s /\ y \in known'
        BY <1>2, <1>3, <3>1
      <3> QED BY <2>1, <3>3, <3>4 DEF ListInv, HoldsTheRest
    <2>2. CASE z # y
      BY <1>5, <1>6, <2>2, ListKeeps DEF QueueInv
    <2> QED BY <2>1, <2>2
  <1>8. ASSUME NEW u \in Threads PROVE ThreadInv(u)'
    <2>1. CASE u = t
      <3>1. AsksInv(t)' /\ SearchInv(t)'
        BY <1>1, <1>2 DEF AsksInv, SearchInv
      <3> QED BY <1>1, <1>2, <2>1, <3>1 DEF ThreadInv
    <2>2. CASE u # t
      <3>1. PICK z : z = type[u]
        OBVIOUS
      <3>2. pc[u] = "idle" \/ z \notin Steady \/ z # y
        BY <1>1, <1>2, <2>2, <3>1, OnlyBuilder
      <3>3. pc[u] = "idle" \/ z \notin Steady \/ SameList(z)
        BY <1>5, <1>6, <3>2
      <3>4. ThreadInv(u)
        BY DEF QueueInv
      <3> QED BY <1>2, <2>2, <3>1, <3>3, <3>4, OthersKeep
    <2> QED BY <2>1, <2>2
  <1> QED BY <1>2, <1>4, <1>7, <1>8 DEF QueueInv

-----------------------------------------------------------------------------
(* A record is removed and answers the call                                *)

LEMMA KeptByRemoveMatch ==
    ASSUME QueueInv, QueueTypeOK', UNCHANGED setupVars, NEW t \in Threads, RemoveMatch(t)
    PROVE  QueueInv'
  <1>1. PICK y, p, w, s, m : /\ y = type[t] /\ p = params[t] /\ w = using[t] /\ s = lists[y][w]
                             /\ m = match[t]
    OBVIOUS
  <1>2. /\ pc[t] = "remove" /\ y \in Types /\ w \in Threads /\ s \in Seq(Obj) /\ m \in Obj
        /\ UNCHANGED <<saved, known, current, loaded, localVars>> /\ Steady' = Steady
        /\ Contains(s, m)
    BY <1>1 DEF RemoveMatch, QueueInv, QueueTypeOK, Searched, setupVars, Steady
  <1>3. /\ pc'[t] = "idle" /\ \A u \in Threads : u # t => SameThread(u)
    BY DEF RemoveMatch, End, Goto, SameThread, localVars, QueueInv, QueueTypeOK
  <1>4. lists'[y][w] = RemoveFirst(s, m) /\ \A z \in Types : z # y => lists'[z] = lists[z]
    BY <1>1, <1>2 DEF RemoveMatch, QueueInv, QueueTypeOK
  <1>5. PICK o : /\ outcomes' = outcomes \cup {o} /\ o.how = "found" /\ o.type = y
                 /\ o.params = p /\ o.entry = m.entry
    <2> DEFINE rec == [by |-> t, nth |-> pops[t], type |-> y, params |-> p, how |-> "found",
                       entry |-> m.entry]
    <2>1. outcomes' = outcomes \cup {rec} /\ rec.how = "found" /\ rec.type = y
          /\ rec.params = p /\ rec.entry = m.entry
      BY <1>1 DEF RemoveMatch, End
    <2> HIDE DEF rec
    <2> QED BY <2>1
  <1>6. /\ \A z, e : Found(z, e)' <=> Found(z, e) \/ (z = y /\ e = m.entry)
        /\ \A z, e : Found(z, e) => Found(z, e)'
    BY <1>5 DEF Found
  <1>7. \A z \in Types : z # y => SameList(z)
    BY <1>2, <1>4, <1>6 DEF SameList, SameFound
  <1>8. Steady \subseteq Types /\ Private \subseteq Steady /\ loaded \subseteq known
    BY DEF Steady, Private, QueueInv, QueueTypeOK
  <1>9. y \in Steady => /\ y \in known /\ w = current[y] /\ HoldsTheRest(y, s) /\ m.params = p
    BY <1>1, <1>2 DEF QueueInv, ThreadInv, AsksInv, ListInv
  <1>10. PICK k \in DOMAIN s :
           s[k] = m /\ (y \in Private => \A i \in DOMAIN s : i < k => s[i].params # p)
    <2>1. CASE y \in Private
      BY <1>1, <1>2, <2>1 DEF QueueInv, ThreadInv, SearchInv, Searched
    <2>2. CASE y \notin Private
      BY <1>2, <2>2 DEF Contains
    <2> QED BY <2>1, <2>2
  <1>11. y \in Steady => HoldsTheRest(y, RemoveFirst(s, m))'
    <2> SUFFICES ASSUME y \in Steady PROVE HoldsTheRest(y, RemoveFirst(s, m))'
      OBVIOUS
    <2>1. \A e : Found(y, e)' <=> (Found(y, e) \/ e = s[k].entry)
      BY <1>6, <1>10
    <2>2. saved \in [DOMAIN saved -> Seq(Params)]
      BY DEF QueueInv, QueueTypeOK
    <2>3. HoldsTheRest(y, s) /\ UNCHANGED saved
      BY <1>2, <1>9
    <2>4. \E r \in Seq(Obj) : r = RemoveFirst(s, s[k]) /\ HoldsTheRest(y, r)'
      BY <1>2, <1>10, <2>1, <2>2, <2>3, TheRestIsHeld
    <2> QED BY <1>10, <2>4
  <1>12. ASSUME NEW z \in Steady PROVE ListInv(z)'
    <2>1. CASE z = y
      <3>1. (lists[y][current[y]])' = RemoveFirst(s, m) /\ y \in known'
        BY <1>2, <1>4, <1>9, <2>1
      <3>2. PICK r : r = RemoveFirst(s, m)
        OBVIOUS
      <3>3. HoldsTheRest(y, r)'
        BY <1>11, <2>1, <3>2
      <3> QED BY <2>1, <3>1, <3>2, <3>3 DEF ListInv, HoldsTheRest
    <2>2. CASE z # y
      BY <1>7, <1>8, <2>2, ListKeeps DEF QueueInv
    <2> QED BY <2>1, <2>2
  <1>13. ASSUME NEW u \in Threads PROVE ThreadInv(u)'
    <2>1. CASE u = t
      BY <1>3, <2>1 DEF ThreadInv, AsksInv, SearchInv
    <2>2. CASE u # t
      <3>1. PICK z : z = type[u]
        OBVIOUS
      <3>2. CASE pc[u] = "idle" \/ z \notin Steady \/ z # y
        <4>1. pc[u] = "idle" \/ z \notin Steady \/ SameList(z)
          BY <1>7, <1>8, <3>2
        <4> QED BY <1>2, <1>3, <2>2, <3>1, <4>1, OthersKeep DEF QueueInv
      <3>3. CASE pc[u] # "idle" /\ z = y /\ y \in Steady
        <4>1. y \in TypesOf[u] /\ y \in TypesOf[t] /\ AsksInv(u)
          BY <1>1, <1>2, <3>1, <3>3 DEF QueueInv, ThreadInv
        <4>2. y \notin Private
          BY <2>2, <4>1 DEF Private
        <4>3. pc[u] \notin {"build", "assign"}
          BY <1>9, <3>1, <3>3, <4>1 DEF AsksInv
        <4>4. AsksInv(u)'
          BY <1>2, <1>3, <2>2, <3>1, <3>3, <4>1, <4>3 DEF AsksInv, SameThread
        <4> QED BY <1>3, <2>2, <3>1, <3>3, <4>1, <4>2, <4>4 DEF ThreadInv, SameThread
      <3> QED BY <3>2, <3>3
    <2> QED BY <2>1, <2>2
  <1>14. OutcomesInv'
    <2>1. y \in Steady => y \in known /\ m.entry \in DOMAIN saved[y] /\ saved[y][m.entry] = p
      BY <1>9, <1>10 DEF HoldsTheRest
    <2>2. \A x \in outcomes : (x.how = "found" /\ x.type \in Steady) =>
            /\ x.type \in known /\ x.entry \in DOMAIN saved[x.type]
            /\ saved[x.type][x.entry] = x.params
      BY DEF QueueInv, OutcomesInv
    <2> QED BY <1>2, <1>5, <2>1, <2>2 DEF OutcomesInv
  <1>15. EntryAnswersOnce'
    <2>1. y \in Steady => ~Found(y, m.entry)
      BY <1>9, <1>10 DEF HoldsTheRest
    <2>2. \A a \in outcomes : (a.how = "found" /\ a.type = y /\ a.type \in Steady) =>
                                  a.entry # m.entry
      BY <2>1 DEF Found
    <2>3. \A a, b \in outcomes :
            (/\ a.how = "found" /\ b.how = "found" /\ a.type = b.type /\ a.entry = b.entry
             /\ a.type \in Steady) => a = b
      BY DEF QueueInv, EntryAnswersOnce, Steady
    <2>4. \A a, b \in outcomes' :
            (/\ a.how = "found" /\ b.how = "found" /\ a.type = b.type /\ a.entry = b.entry
             /\ a.type \in Steady) => a = b
      BY <1>5, <2>2, <2>3
    <2>5. (Private \cup loaded)' = Steady
      BY <1>2 DEF Steady
    <2> QED BY <2>4, <2>5 DEF EntryAnswersOnce
  <1>16. /\ \A z, q : Saved(z, q)' = Saved(z, q) /\ Taken(z, q) \subseteq Taken(z, q)'
         /\ \A z, q, e : e \in Taken(z, q)' =>
              e \in Taken(z, q) \/ (z = y /\ q = p /\ e = m.entry)
    BY <1>2, <1>5 DEF Saved, Taken
  <1>17. NoFalseMiss'
    <2>1. \A x \in outcomes' : x.how = "missing" => x \in outcomes
      BY <1>5
    <2> QED BY <1>16, <2>1 DEF QueueInv, NoFalseMiss
  <1>18. TakenInOrder'
    <2> SUFFICES ASSUME NEW z \in Private, NEW q \in Params, NEW i \in Saved(z, q)',
                        NEW j \in Saved(z, q)', i < j, j \in Taken(z, q)'
                 PROVE  i \in Taken(z, q)'
      BY DEF TakenInOrder
    <2>1. i \in Saved(z, q) /\ j \in Saved(z, q)
      BY <1>16
    <2>2. CASE j \in Taken(z, q)
      BY <1>16, <2>1, <2>2 DEF QueueInv, TakenInOrder
    <2>3. CASE z = y /\ q = p /\ j = m.entry
      <3>1. HoldsTheRest(y, s) /\ i \in DOMAIN saved[y] /\ saved[y][i] = p
        BY <1>8, <1>9, <2>1, <2>3 DEF Saved, HoldsTheRest
      <3>0. i \in Nat /\ m.entry \in Nat /\ i < m.entry /\ DOMAIN s \subseteq Nat
        <4>1. saved[y] \in Seq(Params)
          BY <3>1 DEF HoldsTheRest, QueueInv, QueueTypeOK
        <4> QED BY <1>2, <2>3, <3>1, <4>1 DEF Obj
      <3>2. ASSUME NEW l \in DOMAIN s, s[l].entry = i PROVE FALSE
        <4>1. s[l].params = p
          BY <3>1, <3>2 DEF HoldsTheRest
        <4>2. ~(l < k)
          BY <1>10, <2>3, <4>1
        <4>3. l # k
          BY <1>10, <3>0, <3>2
        <4>4. k < l => s[k].entry < s[l].entry
          BY <3>1 DEF HoldsTheRest
        <4>5. k < l
          BY <3>0, <4>2, <4>3
        <4> QED BY <1>10, <3>0, <3>2, <4>4, <4>5
      <3>3. Found(y, i)
        BY <3>1, <3>2 DEF HoldsTheRest
      <3>4. i \in Taken(y, p)
        BY <2>1, <2>3, <3>3, FoundIsTaken
      <3> QED BY <1>16, <2>3, <3>4
    <2> QED BY <1>16, <2>2, <2>3
  <1> QED BY <1>12, <1>13, <1>14, <1>15, <1>17, <1>18, <1>2 DEF QueueInv

-----------------------------------------------------------------------------
(* The theorems                                                            *)

LEMMA QueueInit == Init => QueueInv
  <1> SUFFICES ASSUME Init PROVE QueueInv
    OBVIOUS
  <1>1. /\ QueueTypeOK /\ outcomes = {} /\ known = loaded /\ (\A t \in Threads : pc[t] = "idle")
        /\ \A y \in loaded : lists[y][current[y]] = Objects(y, current[y])
    BY QueueTypesInit
  <1>2. \A y, e : ~Found(y, e)
    BY <1>1 DEF Found
  <1>3. ASSUME NEW y \in Steady PROVE ListInv(y)
    <2>1. CASE y \in loaded
      <3>1. y \in DOMAIN saved /\ saved[y] \in Seq(Params) /\ current[y] \in Threads
        BY <1>1, <2>1 DEF QueueTypeOK
      <3>2. HoldsTheRest(y, Objects(y, current[y]))
        BY <1>2, <3>1, ObjectsAreAll
      <3> QED BY <1>1, <2>1, <3>2 DEF ListInv
    <2>2. CASE y \notin loaded
      BY <1>1, <1>2, <2>2 DEF ListInv
    <2> QED BY <2>1, <2>2
  <1>4. \A t \in Threads : ThreadInv(t)
    BY <1>1 DEF ThreadInv, AsksInv, SearchInv
  <1>5. OutcomesInv /\ EntryAnswersOnce /\ NoFalseMiss /\ TakenInOrder
    BY <1>1 DEF OutcomesInv, EntryAnswersOnce, NoFalseMiss, TakenInOrder, Taken
  <1> QED BY <1>1, <1>3, <1>4, <1>5 DEF QueueInv

LEMMA QueueStep == QueueInv /\ [Next]_vars => QueueInv'
  <1> SUFFICES ASSUME QueueInv, [Next]_vars PROVE QueueInv'
    OBVIOUS
  <1>1. CASE Next
    <2>1. PICK t \in Threads : ExpectStep(t) /\ UNCHANGED setupVars
      BY <1>1 DEF Next
    <2>2. QueueTypeOK'
      BY <2>1, QueueTypesStep DEF QueueInv
    <2> QED BY <2>1, <2>2, KeptByExpect, KeptByCheckProcessed, KeptByGetList, KeptByScanNext,
               KeptByScanEnd, KeptByFailures, KeptByBuildList, KeptByAssignList,
               KeptByRemoveMatch DEF ExpectStep
  <1>2. CASE UNCHANGED vars
    <2>1. UNCHANGED <<asDict, loaded, saved, known, current, lists, pc, type, params, using,
                      index, match, pops, outcomes>>
      BY <1>2 DEF vars, setupVars, recordVars, localVars
    <2>2. QueueTypeOK' /\ Steady' = Steady
      BY <2>1 DEF QueueInv, QueueTypeOK, Steady
    <2>3. \A y \in Steady : ListInv(y)'
      BY <2>1 DEF QueueInv, ListInv, HoldsTheRest, Found
    <2>4. ASSUME NEW t \in Threads PROVE ThreadInv(t)'
      <3>1. AsksInv(t)' = AsksInv(t) /\ ThreadInv(t)
        BY <2>1 DEF QueueInv, AsksInv, HoldsTheRest, Found
      <3>2. SearchInv(t)' = SearchInv(t)
        BY <2>1 DEF SearchInv, Searched, Taken, Saved
      <3> QED BY <2>1, <2>2, <3>1, <3>2 DEF ThreadInv
    <2>5. OutcomesInv'
      BY <2>1, <2>2 DEF QueueInv, OutcomesInv
    <2>6. EntryAnswersOnce' /\ NoFalseMiss' /\ TakenInOrder'
      BY <2>1, <2>2 DEF QueueInv, EntryAnswersOnce, NoFalseMiss, TakenInOrder, Taken, Saved
    <2> QED BY <2>2, <2>3, <2>4, <2>5, <2>6 DEF QueueInv
  <1> QED BY <1>1, <1>2

LEMMA QueueIsInductive == Spec => []QueueInv
  <1> QED BY QueueInit, QueueStep, PTL DEF Spec

\* Types, for any recording and threads.
THEOREM QueueTypesHold == Spec => []QueueTypeOK
  <1>1. QueueInv => QueueTypeOK
    BY DEF QueueInv
  <1> QED BY <1>1, QueueIsInductive, PTL

\* A saved record of a type that one thread asks for, or whose list was there when the
\* threads started, answers one call, for any number of threads, types and records.
THEOREM EntriesAnswerOnce == Spec => []EntryAnswersOnce
  <1>1. QueueInv => EntryAnswersOnce
    BY DEF QueueInv
  <1> QED BY <1>1, QueueIsInductive, PTL

\* Calls of a type of one thread's own with equal params get the saved records in the
\* order in which they were recorded, and are told that there is none only when all of
\* them were given to calls.
THEOREM AnswersAreInOrder == Spec => []AnsweredInOrder
  <1>1. QueueInv => AnsweredInOrder
    BY DEF QueueInv, AnsweredInOrder
  <1> QED BY <1>1, QueueIsInductive, PTL
=============================================================================
