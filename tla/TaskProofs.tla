----------------------------- MODULE TaskProofs -----------------------------
(***************************************************************************)
(* Proofs about TaskRun, for any threads, flags, names, tasks and programs: *)
(* the evaluation of behaviour flags by the threads of an application, what *)
(* they see of context variables, and what tasks leave behind.              *)
(***************************************************************************)
EXTENDS TaskRun, SequenceTheorems, FiniteSetTheorems, TLAPS

\* The steps of one thread that evaluates a flag.
Evaluates(t) ==
    \/ \E f \in Flags : Check(t, f)
    \/ Fire(t) \/ FireRaises(t) \/ Mark(t) \/ Return(t)

Places == {"fire", "mark", "return"}
Evaluations == [flag : Flags, at : Places]

\* What is true of the flag f that t is evaluating at a place: who is to fire it
\* has found it off; who has fired it is about to say so; and who goes back with
\* a flag that is off has found it fired.
PlaceInv(t, f, place) ==
    /\ place \in {"fire", "mark"} => setting[f] = "false"
    /\ place = "mark" => announced[t][f] > 0
    /\ place = "return" /\ setting[f] = "false" => fired[f]

\* Where evaluations can be: all but the innermost are in a callback.
PhaseInv ==
    /\ setting \in [Flags -> Settings]
    /\ fired \in [Flags -> BOOLEAN]
    /\ evaluating \in [Evaluators -> Seq(Evaluations)]
    /\ announced \in [Evaluators -> [Flags -> Nat]]
    /\ deepest \in [Evaluators -> [Flags -> Nat]]
    /\ \A t \in Evaluators : \A i \in 1 .. Len(evaluating[t]) :
          /\ i < Len(evaluating[t]) => evaluating[t][i].at = "fire"
          /\ PlaceInv(t, evaluating[t][i].flag, evaluating[t][i].at)

AboutToMark(t, f) == evaluating[t] # <<>> /\ Last(evaluating[t]) = At(f, "mark")

\* A thread that has fired the event of a flag has set fired, or is about to.
FiredInv ==
    /\ \A f \in Flags : fired[f] =>
          setting[f] = "false" /\ \E t \in Evaluators : announced[t][f] > 0
    /\ \A t \in Evaluators, f \in Flags :
          announced[t][f] > 0 => fired[f] \/ AboutToMark(t, f)
    /\ foundOff \in SUBSET {f \in Flags : fired[f]}

\* What a thread has fired and is to fire was once all to be fired.
DepthInv ==
    \A t \in Evaluators, f \in Flags :
        announced[t][f] + Cardinality(ToFire(evaluating[t], f)) <= deepest[t][f]

FlagInv == PhaseInv /\ FiredInv /\ DepthInv

\* A program does not change while it runs.
ProgramInv == program \in Programs

-----------------------------------------------------------------------------
(* Evaluations begin and end at the end of the sequence                    *)

LEMMA ToFireIsFinite ==
    ASSUME NEW s \in Seq(Evaluations), NEW f
    PROVE  /\ IsFiniteSet(ToFire(s, f)) /\ Cardinality(ToFire(s, f)) \in Nat
           /\ ToFire(s, f) \subseteq 1 .. Len(s)
  <1>1. ToFire(s, f) \subseteq 1 .. Len(s)
    BY DEF ToFire
  <1>2. IsFiniteSet(1 .. Len(s))
    BY FS_Interval
  <1>3. IsFiniteSet(ToFire(s, f))
    BY <1>1, <1>2, FS_Subset
  <1> QED BY <1>1, <1>3, FS_CardinalityType

LEMMA AtIsPair ==
    ASSUME NEW f, NEW g, NEW p, NEW q
    PROVE  /\ At(f, p) = At(g, q) <=> f = g /\ p = q
           /\ At(f, p).flag = f /\ At(f, p).at = p
  BY DEF At

LEMMA EvaluationAt ==
    ASSUME NEW s \in Seq(Evaluations), NEW i \in 1 .. Len(s)
    PROVE  /\ s[i].flag \in Flags /\ s[i].at \in Places
           /\ s[i] = At(s[i].flag, s[i].at)
  <1>1. s[i] \in Evaluations
    OBVIOUS
  <1> QED BY <1>1 DEF Evaluations, At

LEMMA LastEvaluation ==
    ASSUME NEW s \in Seq(Evaluations), s # <<>>
    PROVE  /\ Len(s) \in Nat \ {0} /\ Len(s) \in 1 .. Len(s) /\ Last(s) = s[Len(s)]
           /\ Last(s).flag \in Flags /\ Last(s) = At(Last(s).flag, Last(s).at)
  <1>1. Len(s) \in Nat \ {0}
    OBVIOUS
  <1>2. Len(s) \in 1 .. Len(s) /\ Last(s) = s[Len(s)]
    BY <1>1 DEF Last
  <1> QED BY <1>1, <1>2, EvaluationAt

LEMMA Entered ==
    ASSUME NEW s \in Seq(Evaluations), NEW x \in Evaluations
    PROVE  LET n == Append(s, x) IN
           /\ n \in Seq(Evaluations) /\ Len(n) = Len(s) + 1 /\ n[Len(n)] = x
           /\ \A i \in 1 .. Len(s) : n[i] = s[i]
  OBVIOUS

LEMMA Moved ==
    ASSUME NEW s \in Seq(Evaluations), s # <<>>, NEW place \in Places
    PROVE  LET n == [s EXCEPT ![Len(s)].at = place] IN
           /\ n \in Seq(Evaluations) /\ Len(n) = Len(s) /\ n # <<>>
           /\ n[Len(n)] = At(Last(s).flag, place)
           /\ \A i \in 1 .. Len(s) - 1 : n[i] = s[i]
  <1> DEFINE n == [s EXCEPT ![Len(s)].at = place]
             x == [s[Len(s)] EXCEPT !.at = place]
  <1>1. Len(s) \in 1 .. Len(s) /\ Last(s) = s[Len(s)] /\ s[Len(s)] \in Evaluations
    BY LastEvaluation
  <1>2. x = At(Last(s).flag, place) /\ x \in Evaluations
    BY <1>1 DEF Evaluations, At
  <1>3. n = [s EXCEPT ![Len(s)] = x]
    OBVIOUS
  <1> HIDE DEF x, n
  <1>4. n \in Seq(Evaluations) /\ Len(n) = Len(s) /\ n[Len(s)] = x
    BY <1>1, <1>2, <1>3
  <1>5. \A i \in 1 .. Len(s) - 1 : n[i] = s[i]
    BY <1>1, <1>3
  <1>6. n # <<>>
    BY <1>1, <1>4
  <1> QED BY <1>2, <1>4, <1>5, <1>6 DEF n

LEMMA Ended ==
    ASSUME NEW s \in Seq(Evaluations), s # <<>>
    PROVE  LET n == Front(s) IN
           /\ n \in Seq(Evaluations) /\ Len(n) = Len(s) - 1
           /\ \A i \in 1 .. Len(n) : n[i] = s[i]
  <1>1. 1 \in 1 .. Len(s) + 1 /\ Len(s) - 1 \in 0 .. Len(s) /\ Len(s) - 1 + 1 - 1 = Len(s) - 1
    BY LastEvaluation
  <1>2. /\ SubSeq(s, 1, Len(s) - 1) \in Seq(Evaluations)
        /\ Len(SubSeq(s, 1, Len(s) - 1)) = Len(s) - 1
        /\ \A i \in 1 .. Len(s) - 1 : SubSeq(s, 1, Len(s) - 1)[i] = s[i]
    BY <1>1, SubSeqProperties
  <1> QED BY <1>2 DEF Front

\* One more evaluation of f is to fire it, or none.
LEMMA EnteredCount ==
    ASSUME NEW s \in Seq(Evaluations), NEW x \in Evaluations, NEW f
    PROVE  Cardinality(ToFire(Append(s, x), f)) =
               Cardinality(ToFire(s, f)) + (IF x = At(f, "fire") THEN 1 ELSE 0)
  <1> DEFINE n == Append(s, x)
  <1>1. /\ n \in Seq(Evaluations) /\ Len(n) = Len(s) + 1 /\ n[Len(s) + 1] = x
        /\ \A i \in 1 .. Len(s) : n[i] = s[i]
    BY Entered
  <1>2. IsFiniteSet(ToFire(s, f)) /\ Len(s) + 1 \notin ToFire(s, f)
    BY ToFireIsFinite
  <1>n. Cardinality(ToFire(s, f)) \in Nat
    BY ToFireIsFinite
  <1> HIDE DEF n
  <1>3. CASE x = At(f, "fire")
    <2>1. ToFire(n, f) = ToFire(s, f) \cup {Len(s) + 1}
      BY <1>1, <1>3 DEF ToFire
    <2> QED BY <1>2, <1>3, <2>1, FS_AddElement DEF n
  <1>4. CASE x # At(f, "fire")
    <2>1. ToFire(n, f) = ToFire(s, f)
      BY <1>1, <1>4 DEF ToFire
    <2> QED BY <1>4, <1>n, <2>1 DEF n
  <1> QED BY <1>3, <1>4

\* n is s whose last evaluation is no longer to fire, or over.
LEMMA FiredCount ==
    ASSUME NEW s \in Seq(Evaluations), s # <<>>, NEW n \in Seq(Evaluations), NEW f,
           Len(n) \in {Len(s) - 1, Len(s)},
           \A i \in 1 .. Len(s) - 1 : n[i] = s[i],
           Len(n) = Len(s) => n[Len(s)].at # "fire"
    PROVE  Cardinality(ToFire(n, f)) =
               Cardinality(ToFire(s, f)) - (IF Last(s) = At(f, "fire") THEN 1 ELSE 0)
  <1>1. IsFiniteSet(ToFire(s, f)) /\ Cardinality(ToFire(s, f)) \in Nat
    BY ToFireIsFinite
  <1>2. ToFire(n, f) = ToFire(s, f) \ {Len(s)}
    BY DEF ToFire, At
  <1>3. CASE Last(s) = At(f, "fire")
    <2>1. Len(s) \in ToFire(s, f)
      BY <1>3 DEF ToFire, Last
    <2> QED BY <1>1, <1>2, <1>3, <2>1, FS_RemoveElement
  <1>4. CASE Last(s) # At(f, "fire")
    <2>1. ToFire(n, f) = ToFire(s, f)
      BY <1>2, <1>4 DEF ToFire, Last
    <2> QED BY <1>1, <1>4, <2>1
  <1> QED BY <1>3, <1>4

-----------------------------------------------------------------------------
\* The invariant says what AnnouncedOnce does.
LEMMA InvAnnounces == ASSUME FlagInv PROVE AnnouncedOnce
  <1>1. ASSUME NEW f \in foundOff PROVE \E t \in Evaluators : announced[t][f] > 0
    BY DEF FlagInv, PhaseInv, FiredInv
  <1>2. ASSUME NEW f \in Flags, NEW t \in Evaluators PROVE announced[t][f] <= deepest[t][f]
    <2>1. /\ announced[t][f] \in Nat /\ deepest[t][f] \in Nat
          /\ evaluating[t] \in Seq(Evaluations)
      BY DEF FlagInv, PhaseInv
    <2>2. Cardinality(ToFire(evaluating[t], f)) \in Nat
      BY <2>1, ToFireIsFinite
    <2>3. announced[t][f] + Cardinality(ToFire(evaluating[t], f)) <= deepest[t][f]
      BY DEF FlagInv, DepthInv
    <2> QED BY <2>1, <2>2, <2>3
  <1>3. ASSUME NEW f \in Flags, fired[f] PROVE setting[f] = "false"
    BY <1>3 DEF FlagInv, FiredInv
  <1> QED BY <1>1, <1>2, <1>3 DEF AnnouncedOnce

LEMMA InitFlagInv == Init => FlagInv
  <1> SUFFICES ASSUME InitFlags PROVE FlagInv
    BY DEF Init
  <1>1. PhaseInv /\ FiredInv
    BY DEF InitFlags, PhaseInv, FiredInv, Settings
  <1>2. ASSUME NEW f \in Flags PROVE ToFire(<<>>, f) = {}
    BY DEF ToFire
  <1>3. \A t \in Evaluators, f \in Flags :
            /\ announced[t][f] = 0 /\ deepest[t][f] = 0 /\ evaluating[t] = <<>>
    BY DEF InitFlags
  <1>4. Cardinality({}) = 0
    BY FS_EmptySet
  <1>5. DepthInv
    <2>1. ASSUME NEW t \in Evaluators, NEW f \in Flags
          PROVE  announced[t][f] + Cardinality(ToFire(evaluating[t], f)) <= deepest[t][f]
      <3>1. Cardinality(ToFire(evaluating[t], f)) = 0
        BY <1>2, <1>3, <1>4
      <3> QED BY <1>3, <3>1
    <2> QED BY <2>1 DEF DepthInv
  <1> QED BY <1>1, <1>5 DEF FlagInv

-----------------------------------------------------------------------------
(* Each step of an evaluation keeps the invariant                          *)

LEMMA CheckKeepsInv ==
    ASSUME FlagInv, NEW t \in Evaluators, NEW f \in Flags, Check(t, f) PROVE FlagInv'
  <1> DEFINE place == IF setting[f] = "false" /\ ~fired[f] THEN "fire" ELSE "return"
             s == evaluating[t]
             n == Append(s, At(f, place))
             depth == Cardinality(ToFire(n, f))
             most == IF depth > deepest[t][f] THEN depth ELSE deepest[t][f]
  <1>1. /\ s = <<>> \/ IsAt(t, "fire")
        /\ evaluating' = [evaluating EXCEPT ![t] = n]
        /\ deepest' = [deepest EXCEPT ![t][f] = most]
        /\ UNCHANGED <<setting, fired, announced, foundOff>>
    BY DEF Check, Evaluate
  <1>2. place \in {"fire", "return"} /\ At(f, place) \in Evaluations
    BY DEF Evaluations, Places, At
  <1>3. s \in Seq(Evaluations)
    BY DEF FlagInv, PhaseInv
  <1>4. /\ n \in Seq(Evaluations) /\ Len(n) = Len(s) + 1 /\ n[Len(s) + 1] = At(f, place)
        /\ \A i \in 1 .. Len(s) : n[i] = s[i]
    BY <1>2, <1>3, Entered
  <1>5. \A g : Cardinality(ToFire(n, g)) =
            Cardinality(ToFire(s, g)) + (IF At(f, place) = At(g, "fire") THEN 1 ELSE 0)
    BY <1>2, <1>3, EnteredCount
  <1>6. \A g : Cardinality(ToFire(s, g)) \in Nat
    BY <1>3, ToFireIsFinite
  <1>7. \A i \in 1 .. Len(s) : s[i].at = "fire"
    BY <1>1, <1>3 DEF IsAt, Last, FlagInv, PhaseInv
  <1>8. PlaceInv(t, f, place)
    BY DEF PlaceInv
  <1>9. ASSUME NEW g \in Flags, announced[t][g] > 0 PROVE fired[g]
    <2>1. ~AboutToMark(t, g)
      BY <1>1 DEF AboutToMark, IsAt, At
    <2> QED BY <1>9, <2>1 DEF FlagInv, FiredInv
  <1>10. place = "fire" => announced[t][f] = 0
    <2>1. announced[t][f] \in Nat
      BY DEF FlagInv, PhaseInv
    <2> QED BY <1>9, <2>1
  <1>11. depth \in Nat /\ deepest[t][f] \in Nat
    <2>1. depth \in Nat
      BY <1>4, ToFireIsFinite
    <2> QED BY <2>1 DEF FlagInv, PhaseInv
  <1>12. most \in Nat /\ most >= depth /\ most >= deepest[t][f]
    BY <1>11
  <1>13. evaluating'[t] = n /\ \A u \in Evaluators \ {t} : evaluating'[u] = evaluating[u]
    BY <1>1 DEF FlagInv, PhaseInv
  <1>14. /\ deepest'[t][f] = most
         /\ \A u \in Evaluators, g \in Flags :
               u # t \/ g # f => deepest'[u][g] = deepest[u][g]
         /\ deepest' \in [Evaluators -> [Flags -> Nat]]
    BY <1>1, <1>12 DEF FlagInv, PhaseInv
  <1> HIDE DEF n, s, most, depth, place
  <1>15. PhaseInv'
    <2>1. evaluating' \in [Evaluators -> Seq(Evaluations)]
      BY <1>1, <1>4 DEF FlagInv, PhaseInv
    <2>2. ASSUME NEW u \in Evaluators, NEW i \in 1 .. Len(evaluating'[u])
          PROVE  /\ i < Len(evaluating'[u]) => evaluating'[u][i].at = "fire"
                 /\ PlaceInv(u, evaluating[u][i].flag, evaluating[u][i].at)'
      <3>1. CASE u # t
        BY <1>1, <1>13, <2>2, <3>1 DEF FlagInv, PhaseInv, PlaceInv
      <3>2. CASE u = t
        <4>1. CASE i = Len(s) + 1
          BY <1>1, <1>3, <1>4, <1>8, <1>13, <3>2, <4>1 DEF PlaceInv, At
        <4>2. CASE i # Len(s) + 1
          <5>1. i \in 1 .. Len(s) /\ evaluating'[u][i] = s[i]
            BY <1>3, <1>4, <1>13, <2>2, <3>2, <4>2
          <5>2. PlaceInv(t, s[i].flag, s[i].at)
            BY <5>1 DEF FlagInv, PhaseInv, s
          <5> QED BY <1>1, <1>7, <3>2, <5>1, <5>2 DEF PlaceInv
        <4> QED BY <4>1, <4>2
      <3> QED BY <3>1, <3>2
    <2>3. /\ setting' \in [Flags -> Settings] /\ fired' \in [Flags -> BOOLEAN]
          /\ announced' \in [Evaluators -> [Flags -> Nat]]
      BY <1>1 DEF FlagInv, PhaseInv
    <2> QED BY <1>14, <2>1, <2>2, <2>3 DEF PhaseInv
  <1>16. FiredInv'
    <2>1. ASSUME NEW u \in Evaluators, NEW g \in Flags, announced[u][g] > 0
          PROVE  fired[g] \/ AboutToMark(u, g)'
      <3>1. CASE u = t
        BY <1>9, <2>1, <3>1
      <3>2. CASE u # t
        BY <1>13, <2>1, <3>2 DEF FlagInv, FiredInv, AboutToMark
      <3> QED BY <3>1, <3>2
    <2> QED BY <1>1, <2>1 DEF FlagInv, FiredInv
  <1>17. DepthInv'
    <2>1. ASSUME NEW u \in Evaluators, NEW g \in Flags
          PROVE  announced[u][g] + Cardinality(ToFire(evaluating'[u], g)) <= deepest'[u][g]
      <3>1. announced[u][g] + Cardinality(ToFire(evaluating[u], g)) <= deepest[u][g]
        BY DEF FlagInv, DepthInv
      <3>2. announced[u][g] \in Nat /\ deepest[u][g] \in Nat
        BY DEF FlagInv, PhaseInv
      <3>3. CASE u # t
        BY <1>13, <1>14, <3>1, <3>3
      <3>4. CASE u = t /\ g # f
        <4>1. Cardinality(ToFire(n, g)) = Cardinality(ToFire(s, g))
          BY <1>5, <1>6, <3>4, AtIsPair
        <4> QED BY <1>13, <1>14, <3>1, <3>4, <4>1 DEF s
      <3>5. CASE u = t /\ g = f
        <4>1. CASE place = "fire"
          <5>1. depth = Cardinality(ToFire(evaluating'[u], g))
            BY <1>13, <3>5 DEF depth
          <5> QED BY <1>10, <1>11, <1>12, <1>14, <3>5, <4>1, <5>1
        <4>2. CASE place # "fire"
          <5>1. Cardinality(ToFire(n, g)) = Cardinality(ToFire(s, g))
            BY <1>5, <1>6, <3>5, <4>2, AtIsPair
          <5>2. announced[t][f] + Cardinality(ToFire(n, g)) <= deepest[t][f]
            BY <3>1, <3>5, <5>1 DEF s
          <5> QED BY <1>6, <1>12, <1>13, <1>14, <3>2, <3>5, <5>1, <5>2
        <4> QED BY <4>1, <4>2
      <3> QED BY <3>3, <3>4, <3>5
    <2> QED BY <1>1, <2>1 DEF DepthInv
  <1> QED BY <1>15, <1>16, <1>17 DEF FlagInv

\* The innermost evaluation goes on, from one place to the next, or ends.
LEMMA FireKeepsInv ==
    ASSUME FlagInv, NEW t \in Evaluators, Fire(t) PROVE FlagInv'
  <1> DEFINE s == evaluating[t]
             f == Innermost(t)
             n == [s EXCEPT ![Len(s)].at = "mark"]
  <1>1. /\ s # <<>> /\ Last(s).at = "fire"
        /\ announced' = [announced EXCEPT ![t][f] = @ + 1]
        /\ evaluating' = [evaluating EXCEPT ![t] = n]
        /\ UNCHANGED <<setting, fired, foundOff, deepest>>
    BY DEF Fire, IsAt
  <1>2. s \in Seq(Evaluations)
    BY DEF FlagInv, PhaseInv
  <1>3. /\ n \in Seq(Evaluations) /\ Len(n) = Len(s) /\ n # <<>>
        /\ n[Len(s)] = At(f, "mark")
        /\ \A i \in 1 .. Len(s) - 1 : n[i] = s[i]
    BY <1>1, <1>2, Moved DEF Places, Innermost
  <1>4. Len(s) \in 1 .. Len(s) /\ f \in Flags /\ Last(s) = At(f, "fire")
    BY <1>1, <1>2, LastEvaluation DEF Innermost
  <1>5. setting[f] = "false"
    BY <1>1, <1>4 DEF FlagInv, PhaseInv, PlaceInv, Innermost, Last
  <1>6. \A g : Cardinality(ToFire(n, g)) =
            Cardinality(ToFire(s, g)) - (IF Last(s) = At(g, "fire") THEN 1 ELSE 0)
    <2>1. n[Len(s)].at # "fire"
      BY <1>3, AtIsPair
    <2> HIDE DEF s, n
    <2> QED BY <1>1, <1>2, <1>3, <2>1, FiredCount
  <1>7. evaluating'[t] = n /\ \A u \in Evaluators \ {t} : evaluating'[u] = evaluating[u]
    BY <1>1 DEF FlagInv, PhaseInv
  <1>8. /\ announced'[t][f] = announced[t][f] + 1
        /\ \A u \in Evaluators, g \in Flags :
               u # t \/ g # f => announced'[u][g] = announced[u][g]
        /\ announced' \in [Evaluators -> [Flags -> Nat]]
    BY <1>1, <1>4 DEF FlagInv, PhaseInv
  <1>9. announced[t][f] \in Nat
    BY <1>4 DEF FlagInv, PhaseInv
  <1> HIDE DEF n, s, f
  <1>10. PhaseInv'
    <2>1. evaluating' \in [Evaluators -> Seq(Evaluations)]
      BY <1>1, <1>3 DEF FlagInv, PhaseInv
    <2>2. ASSUME NEW u \in Evaluators, NEW g \in Flags, NEW place, PlaceInv(u, g, place)
          PROVE  PlaceInv(u, g, place)'
      <3>1. announced[u][g] > 0 => announced'[u][g] > 0
        BY <1>8, <1>9
      <3> QED BY <1>1, <2>2, <3>1 DEF PlaceInv
    <2>3. ASSUME NEW u \in Evaluators, NEW i \in 1 .. Len(evaluating'[u])
          PROVE  /\ i < Len(evaluating'[u]) => evaluating'[u][i].at = "fire"
                 /\ PlaceInv(u, evaluating[u][i].flag, evaluating[u][i].at)'
      <3>1. CASE u = t /\ i = Len(s)
        <4>1. announced'[t][f] > 0
          BY <1>8, <1>9
        <4> QED BY <1>1, <1>3, <1>5, <1>7, <3>1, <4>1 DEF PlaceInv, At
      <3>2. CASE ~(u = t /\ i = Len(s))
        <4>1. /\ i \in 1 .. Len(evaluating[u]) /\ evaluating'[u][i] = evaluating[u][i]
              /\ Len(evaluating'[u]) = Len(evaluating[u])
          BY <1>2, <1>3, <1>7, <2>3, <3>2 DEF s
        <4>2. evaluating[u][i].flag \in Flags
          BY <4>1, EvaluationAt DEF FlagInv, PhaseInv
        <4>3. PlaceInv(u, evaluating[u][i].flag, evaluating[u][i].at)
          BY <4>1 DEF FlagInv, PhaseInv
        <4>4. i < Len(evaluating[u]) => evaluating[u][i].at = "fire"
          BY <4>1 DEF FlagInv, PhaseInv
        <4> QED BY <2>2, <4>1, <4>2, <4>3, <4>4
      <3> QED BY <3>1, <3>2
    <2>4. /\ setting' \in [Flags -> Settings] /\ fired' \in [Flags -> BOOLEAN]
          /\ deepest' \in [Evaluators -> [Flags -> Nat]]
      BY <1>1 DEF FlagInv, PhaseInv
    <2> QED BY <1>8, <2>1, <2>3, <2>4 DEF PhaseInv
  <1>11. FiredInv'
    <2>1. evaluating'[t] # <<>> /\ Last(evaluating'[t]) = At(f, "mark")
      BY <1>2, <1>3, <1>7 DEF Last
    <2>2. ASSUME NEW u \in Evaluators, NEW g \in Flags, announced'[u][g] > 0, ~(u = t /\ g = f)
          PROVE  fired[g] \/ AboutToMark(u, g)'
      <3>1. fired[g] \/ AboutToMark(u, g)
        BY <1>8, <2>2 DEF FlagInv, FiredInv
      <3>2. u = t => ~AboutToMark(u, g)
        BY <1>4 DEF AboutToMark, At, s
      <3> QED BY <1>7, <3>1, <3>2 DEF AboutToMark
    <2>3. ASSUME NEW g \in Flags, fired[g]
          PROVE  setting[g] = "false" /\ \E u \in Evaluators : announced'[u][g] > 0
      <3>1. PICK u \in Evaluators : announced[u][g] > 0
        BY <2>3 DEF FlagInv, FiredInv
      <3>2. announced'[u][g] > 0
        BY <1>8, <1>9, <3>1
      <3> QED BY <2>3, <3>2 DEF FlagInv, FiredInv
    <2>4. foundOff' \in SUBSET {g \in Flags : fired'[g]}
      BY <1>1 DEF FlagInv, FiredInv
    <2>5. ASSUME NEW u \in Evaluators, NEW g \in Flags, announced'[u][g] > 0
          PROVE  fired'[g] \/ AboutToMark(u, g)'
      BY <1>1, <2>1, <2>2, <2>5 DEF AboutToMark
    <2> QED BY <1>1, <2>3, <2>4, <2>5 DEF FiredInv
  <1>12. DepthInv'
    <2>1. ASSUME NEW u \in Evaluators, NEW g \in Flags
          PROVE  announced'[u][g] + Cardinality(ToFire(evaluating'[u], g)) <= deepest[u][g]
      <3>1. announced[u][g] + Cardinality(ToFire(evaluating[u], g)) <= deepest[u][g]
        BY DEF FlagInv, DepthInv
      <3>2. announced[u][g] \in Nat /\ deepest[u][g] \in Nat
        BY DEF FlagInv, PhaseInv
      <3>3. Cardinality(ToFire(evaluating[u], g)) \in Nat
        BY ToFireIsFinite DEF FlagInv, PhaseInv
      <3>4. CASE u # t
        BY <1>7, <1>8, <3>1, <3>4
      <3>5. CASE u = t /\ g # f
        <4>1. Cardinality(ToFire(n, g)) = Cardinality(ToFire(s, g))
          BY <1>4, <1>6, <3>3, <3>5, AtIsPair DEF s
        <4> QED BY <1>7, <1>8, <3>1, <3>5, <4>1 DEF s
      <3>6. CASE u = t /\ g = f
        <4>1. Cardinality(ToFire(n, g)) = Cardinality(ToFire(s, g)) - 1
          BY <1>4, <1>6, <3>3, <3>6 DEF s
        <4> QED BY <1>7, <1>8, <3>1, <3>2, <3>3, <3>6, <4>1 DEF s
      <3> QED BY <3>4, <3>5, <3>6
    <2> QED BY <1>1, <2>1 DEF DepthInv
  <1> QED BY <1>10, <1>11, <1>12 DEF FlagInv

LEMMA MarkKeepsInv ==
    ASSUME FlagInv, NEW t \in Evaluators, Mark(t) PROVE FlagInv'
  <1> DEFINE s == evaluating[t]
             f == Innermost(t)
             n == [s EXCEPT ![Len(s)].at = "return"]
  <1>1. /\ s # <<>> /\ Last(s).at = "mark"
        /\ fired' = [fired EXCEPT ![f] = TRUE]
        /\ evaluating' = [evaluating EXCEPT ![t] = n]
        /\ UNCHANGED <<setting, announced, foundOff, deepest>>
    BY DEF Mark, IsAt
  <1>2. s \in Seq(Evaluations)
    BY DEF FlagInv, PhaseInv
  <1>3. /\ n \in Seq(Evaluations) /\ Len(n) = Len(s) /\ n # <<>>
        /\ n[Len(s)] = At(f, "return")
        /\ \A i \in 1 .. Len(s) - 1 : n[i] = s[i]
    BY <1>1, <1>2, Moved DEF Places, Innermost
  <1>4. Len(s) \in 1 .. Len(s) /\ f \in Flags /\ Last(s) = At(f, "mark")
    BY <1>1, <1>2, LastEvaluation DEF Innermost
  <1>5. setting[f] = "false" /\ announced[t][f] > 0
    BY <1>1, <1>4 DEF FlagInv, PhaseInv, PlaceInv, Innermost, Last
  <1>6. \A g : Cardinality(ToFire(n, g)) =
            Cardinality(ToFire(s, g)) - (IF Last(s) = At(g, "fire") THEN 1 ELSE 0)
    <2>1. n[Len(s)].at # "fire"
      BY <1>3, AtIsPair
    <2> HIDE DEF s, n
    <2> QED BY <1>1, <1>2, <1>3, <2>1, FiredCount
  <1>7. evaluating'[t] = n /\ \A u \in Evaluators \ {t} : evaluating'[u] = evaluating[u]
    BY <1>1 DEF FlagInv, PhaseInv
  <1>8. /\ fired'[f] /\ \A g \in Flags : g # f => fired'[g] = fired[g]
        /\ fired' \in [Flags -> BOOLEAN]
    BY <1>1, <1>4 DEF FlagInv, PhaseInv
  <1> HIDE DEF n, s, f
  <1>9. PhaseInv'
    <2>1. evaluating' \in [Evaluators -> Seq(Evaluations)]
      BY <1>1, <1>3 DEF FlagInv, PhaseInv
    <2>2. ASSUME NEW u \in Evaluators, NEW g \in Flags, NEW place, PlaceInv(u, g, place)
          PROVE  PlaceInv(u, g, place)'
      BY <1>1, <1>8, <2>2 DEF PlaceInv
    <2>3. ASSUME NEW u \in Evaluators, NEW i \in 1 .. Len(evaluating'[u])
          PROVE  /\ i < Len(evaluating'[u]) => evaluating'[u][i].at = "fire"
                 /\ PlaceInv(u, evaluating[u][i].flag, evaluating[u][i].at)'
      <3>1. CASE u = t /\ i = Len(s)
        BY <1>1, <1>3, <1>7, <1>8, <3>1 DEF PlaceInv, At
      <3>2. CASE ~(u = t /\ i = Len(s))
        <4>1. /\ i \in 1 .. Len(evaluating[u]) /\ evaluating'[u][i] = evaluating[u][i]
              /\ Len(evaluating'[u]) = Len(evaluating[u])
          BY <1>2, <1>3, <1>7, <2>3, <3>2 DEF s
        <4>2. evaluating[u][i].flag \in Flags
          BY <4>1, EvaluationAt DEF FlagInv, PhaseInv
        <4>3. PlaceInv(u, evaluating[u][i].flag, evaluating[u][i].at)
          BY <4>1 DEF FlagInv, PhaseInv
        <4>4. i < Len(evaluating[u]) => evaluating[u][i].at = "fire"
          BY <4>1 DEF FlagInv, PhaseInv
        <4> QED BY <2>2, <4>1, <4>2, <4>3, <4>4
      <3> QED BY <3>1, <3>2
    <2>4. /\ setting' \in [Flags -> Settings] /\ announced' \in [Evaluators -> [Flags -> Nat]]
          /\ deepest' \in [Evaluators -> [Flags -> Nat]]
      BY <1>1 DEF FlagInv, PhaseInv
    <2> QED BY <1>8, <2>1, <2>3, <2>4 DEF PhaseInv
  <1>10. FiredInv'
    <2>1. ASSUME NEW u \in Evaluators, NEW g \in Flags, announced[u][g] > 0
          PROVE  fired'[g] \/ AboutToMark(u, g)'
      <3>1. fired[g] \/ AboutToMark(u, g)
        BY <2>1 DEF FlagInv, FiredInv
      <3>2. u = t /\ g # f => ~AboutToMark(u, g)
        BY <1>4 DEF AboutToMark, At, s
      <3> QED BY <1>7, <1>8, <3>1, <3>2 DEF AboutToMark
    <2>2. ASSUME NEW g \in Flags, fired'[g]
          PROVE  setting[g] = "false" /\ \E u \in Evaluators : announced[u][g] > 0
      BY <1>5, <1>8, <2>2 DEF FlagInv, FiredInv
    <2>3. foundOff' \in SUBSET {g \in Flags : fired'[g]}
      BY <1>1, <1>8 DEF FlagInv, FiredInv
    <2> QED BY <1>1, <2>1, <2>2, <2>3 DEF FiredInv
  <1>11. DepthInv'
    <2>1. ASSUME NEW u \in Evaluators, NEW g \in Flags
          PROVE  Cardinality(ToFire(evaluating'[u], g)) = Cardinality(ToFire(evaluating[u], g))
      <3>1. Cardinality(ToFire(evaluating[u], g)) \in Nat
        BY ToFireIsFinite DEF FlagInv, PhaseInv
      <3>2. Last(s) # At(g, "fire")
        BY <1>4 DEF At
      <3> QED BY <1>6, <1>7, <3>1, <3>2 DEF s
    <2> QED BY <1>1, <2>1 DEF DepthInv, FlagInv
  <1> QED BY <1>9, <1>10, <1>11 DEF FlagInv

\* The innermost evaluation is over.
EndsOne(t) == evaluating[t] # <<>> /\ evaluating' = [evaluating EXCEPT ![t] = Front(@)]

LEMMA EndKeepsInv ==
    ASSUME FlagInv, NEW t \in Evaluators, EndsOne(t), Last(evaluating[t]).at \in {"fire", "return"},
           foundOff' \in SUBSET {g \in Flags : fired[g]},
           UNCHANGED <<setting, fired, announced, deepest>>
    PROVE  FlagInv'
  <1> DEFINE s == evaluating[t]
             n == Front(s)
  <1>1. s # <<>> /\ evaluating' = [evaluating EXCEPT ![t] = n]
    BY DEF EndsOne
  <1>2. s \in Seq(Evaluations)
    BY DEF FlagInv, PhaseInv
  <1>3. /\ n \in Seq(Evaluations) /\ Len(n) = Len(s) - 1
        /\ \A i \in 1 .. Len(n) : n[i] = s[i]
    BY <1>1, <1>2, Ended
  <1>4. \A g : Cardinality(ToFire(n, g)) =
            Cardinality(ToFire(s, g)) - (IF Last(s) = At(g, "fire") THEN 1 ELSE 0)
    <2>1. Len(s) \in Nat \ {0} /\ 1 .. Len(n) = 1 .. Len(s) - 1
      BY <1>1, <1>2, <1>3, LastEvaluation
    <2>2. Len(n) # Len(s)
      BY <1>3, <2>1
    <2> QED BY <1>1, <1>2, <1>3, <2>1, <2>2, FiredCount
  <1>5. evaluating'[t] = n /\ \A u \in Evaluators \ {t} : evaluating'[u] = evaluating[u]
    BY <1>1 DEF FlagInv, PhaseInv
  <1> HIDE DEF n, s
  <1>6. PhaseInv'
    <2>1. evaluating' \in [Evaluators -> Seq(Evaluations)]
      BY <1>1, <1>3 DEF FlagInv, PhaseInv
    <2>2. ASSUME NEW u \in Evaluators, NEW i \in 1 .. Len(evaluating'[u])
          PROVE  /\ i < Len(evaluating'[u]) => evaluating'[u][i].at = "fire"
                 /\ PlaceInv(u, evaluating[u][i].flag, evaluating[u][i].at)'
      <3>1. /\ i \in 1 .. Len(evaluating[u]) /\ evaluating'[u][i] = evaluating[u][i]
            /\ Len(evaluating'[u]) <= Len(evaluating[u])
        BY <1>2, <1>3, <1>5, <2>2 DEF s
      <3>2. PlaceInv(u, evaluating[u][i].flag, evaluating[u][i].at)
        BY <3>1 DEF FlagInv, PhaseInv
      <3>3. i < Len(evaluating[u]) => evaluating[u][i].at = "fire"
        BY <3>1 DEF FlagInv, PhaseInv
      <3>4. /\ Len(evaluating[u]) \in Nat /\ Len(evaluating'[u]) \in Nat
        BY <2>1 DEF FlagInv, PhaseInv
      <3> QED BY <3>1, <3>2, <3>3, <3>4 DEF PlaceInv
    <2> QED BY <2>1, <2>2 DEF FlagInv, PhaseInv
  <1>7. FiredInv'
    <2>1. ASSUME NEW u \in Evaluators, NEW g \in Flags, announced[u][g] > 0
          PROVE  fired[g] \/ AboutToMark(u, g)'
      <3>1. fired[g] \/ AboutToMark(u, g)
        BY <2>1 DEF FlagInv, FiredInv
      <3>2. u = t => ~AboutToMark(u, g)
        BY DEF AboutToMark, At
      <3> QED BY <1>5, <3>1, <3>2 DEF AboutToMark
    <2> QED BY <2>1 DEF FlagInv, FiredInv
  <1>8. DepthInv'
    <2>1. ASSUME NEW u \in Evaluators, NEW g \in Flags
          PROVE  announced[u][g] + Cardinality(ToFire(evaluating'[u], g)) <= deepest[u][g]
      <3>1. announced[u][g] + Cardinality(ToFire(evaluating[u], g)) <= deepest[u][g]
        BY DEF FlagInv, DepthInv
      <3>2. announced[u][g] \in Nat /\ deepest[u][g] \in Nat
        BY DEF FlagInv, PhaseInv
      <3>3. Cardinality(ToFire(evaluating[u], g)) \in Nat
        BY ToFireIsFinite DEF FlagInv, PhaseInv
      <3>4. /\ Cardinality(ToFire(evaluating'[u], g)) \in Int
            /\ Cardinality(ToFire(evaluating'[u], g)) <= Cardinality(ToFire(evaluating[u], g))
        BY <1>4, <1>5, <3>3 DEF s
      <3> QED BY <3>1, <3>2, <3>3, <3>4
    <2> QED BY <2>1 DEF DepthInv
  <1> QED BY <1>6, <1>7, <1>8 DEF FlagInv

LEMMA FireRaisesKeepsInv ==
    ASSUME FlagInv, NEW t \in Evaluators, FireRaises(t) PROVE FlagInv'
  <1>1. foundOff \in SUBSET {g \in Flags : fired[g]}
    BY DEF FlagInv, FiredInv
  <1> QED BY <1>1, EndKeepsInv DEF FireRaises, IsAt, EndsOne

LEMMA ReturnKeepsInv ==
    ASSUME FlagInv, NEW t \in Evaluators, Return(t) PROVE FlagInv'
  <1> DEFINE s == evaluating[t]
             f == Innermost(t)
  <1>1. /\ s # <<>> /\ Last(s).at = "return"
        /\ foundOff' = IF setting[f] = "false" THEN foundOff \cup {f} ELSE foundOff
        /\ EndsOne(t)
        /\ UNCHANGED <<setting, fired, announced, deepest>>
    BY DEF Return, IsAt, EndsOne
  <1>2. s \in Seq(Evaluations)
    BY DEF FlagInv, PhaseInv
  <1>3. Len(s) \in 1 .. Len(s) /\ f \in Flags
    BY <1>1, <1>2, LastEvaluation DEF Innermost
  <1>4. setting[f] = "false" => fired[f]
    BY <1>1, <1>3 DEF FlagInv, PhaseInv, PlaceInv, Innermost, Last
  <1> HIDE DEF f
  <1>5. foundOff' \in SUBSET {g \in Flags : fired[g]}
    BY <1>1, <1>3, <1>4 DEF FlagInv, FiredInv
  <1> QED BY <1>1, <1>5, EndKeepsInv

\* Steps of tasks, blocks and the pool leave the flags alone.
LEMMA FlagsChangeByEvaluation ==
    ASSUME ProgramInv, [Next]_vars
    PROVE  UNCHANGED flagVars \/ \E t \in Evaluators : Evaluates(t)
  <1>1. CASE SetInvocationContext \/ MakeExecutor
    BY <1>1 DEF SetInvocationContext, MakeExecutor
  <1>2. ASSUME NEW k \in Tasks, SubmitSingle(k) \/ SubmitMulti(k) PROVE UNCHANGED flagVars
    BY <1>2 DEF SubmitSingle, SubmitMulti, Begin
  <1>3. ASSUME NEW t \in Pool, ThreadInitializer(t) \/ Take(t) PROVE UNCHANGED flagVars
    BY <1>3 DEF ThreadInitializer, Take, Begin
  <1>4. ASSUME NEW t \in Threads, UseContext(t) \/ ContinueCall(t) \/ LeaveBlock(t) \/
                                  Fails(t) \/ Finish(t)
        PROVE  UNCHANGED flagVars
    BY <1>4 DEF UseContext, ContinueCall, LeaveBlock, Fails, Finish
  <1>5. ASSUME NEW t \in Threads, EvaluateFlag(t) \/ FlagRaises(t)
        PROVE  t \in Evaluators /\ Evaluates(t)
    <2>1. program.flags \subseteq Flags
      BY ProgramsAssumption DEF ProgramInv
    <2>2. t \in Evaluators
      BY MainAssumption
    <2>3. CASE EvaluateFlag(t)
      BY <2>1, <2>2, <2>3 DEF EvaluateFlag, Evaluates
    <2>4. CASE FlagRaises(t)
      BY <2>2, <2>4 DEF FlagRaises, Evaluates
    <2> QED BY <1>5, <2>3, <2>4
  <1>6. CASE UNCHANGED vars
    BY <1>6 DEF vars
  <1> QED BY <1>1, <1>2, <1>3, <1>4, <1>5, <1>6 DEF Next

LEMMA NextFlagInv == ProgramInv /\ FlagInv /\ [Next]_vars => FlagInv'
  <1> SUFFICES ASSUME ProgramInv, FlagInv, [Next]_vars PROVE FlagInv'
    OBVIOUS
  <1>1. CASE UNCHANGED flagVars
    BY <1>1 DEF flagVars, FlagInv, PhaseInv, FiredInv, DepthInv, PlaceInv, AboutToMark
  <1>2. ASSUME NEW t \in Evaluators, Evaluates(t) PROVE FlagInv'
    BY <1>2, CheckKeepsInv, FireKeepsInv, FireRaisesKeepsInv, MarkKeepsInv, ReturnKeepsInv
       DEF Evaluates
  <1> QED BY <1>1, <1>2, FlagsChangeByEvaluation

LEMMA NextProgramInv == ProgramInv /\ [Next]_vars => ProgramInv'
  <1> SUFFICES ASSUME [Next]_vars PROVE UNCHANGED program
    BY DEF ProgramInv
  <1>1. CASE SetInvocationContext \/ MakeExecutor
    BY <1>1 DEF SetInvocationContext, MakeExecutor
  <1>2. ASSUME NEW k \in Tasks, SubmitSingle(k) \/ SubmitMulti(k) PROVE UNCHANGED program
    BY <1>2 DEF SubmitSingle, SubmitMulti, Begin
  <1>3. ASSUME NEW t \in Pool, ThreadInitializer(t) \/ Take(t) PROVE UNCHANGED program
    BY <1>3 DEF ThreadInitializer, Take, Begin
  <1>4. ASSUME NEW t \in Threads, UseContext(t) \/ ContinueCall(t) \/ LeaveBlock(t) \/
                                  EvaluateFlag(t) \/ FlagRaises(t) \/ Fails(t) \/ Finish(t)
        PROVE  UNCHANGED program
    BY <1>4 DEF UseContext, ContinueCall, LeaveBlock, EvaluateFlag, FlagRaises, Fails, Finish
  <1>5. CASE UNCHANGED vars
    BY <1>5 DEF vars
  <1> QED BY <1>1, <1>2, <1>3, <1>4, <1>5 DEF Next

-----------------------------------------------------------------------------
\* The invariant AnnouncedOnce, for any number of threads, flags and tasks:
\* nobody is told that a flag is off before its event was fired, and each
\* thread fires it once at most, also where events raise.
THEOREM FlagsAreAnnouncedOnce == Spec => []AnnouncedOnce
  <1>1. Init => ProgramInv BY DEF Init, ProgramInv
  <1>2. ProgramInv /\ FlagInv => AnnouncedOnce BY InvAnnounces
  <1> QED BY <1>1, <1>2, InitFlagInv, NextFlagInv, NextProgramInv, PTL DEF Spec

-----------------------------------------------------------------------------
(* Context variables.  A call assigns its names one by one, and what it     *)
(* assigns is a sequence: what counts is whether a name is still to be      *)
(* assigned, and the last value it is to get.                               *)

\* What a name may be bound to.
Bindings == Values \cup {Ellipsis}
Assignments == [name : Names, value : Bindings, var : Threads \cup {NoOne}]
Partial == UNION {[ns -> Bindings] : ns \in SUBSET Names}

ContextTypeOK ==
    /\ registry \in [Names -> Threads \cup {NoOne}]
    /\ made \in SUBSET (Names \X Threads) /\ IsFiniteSet(made)
    /\ context \in [Threads -> [Names -> [Threads -> Bindings]]]
    /\ todo \in [Threads -> Seq(Assignments)]
    /\ blocks \in [Threads -> Seq([names : SUBSET Names, saved : Partial, outer : Partial])]
    /\ token \in [Threads -> SUBSET [name : Names, var : Threads \cup {NoOne},
                                     old : Bindings, outer : Bindings]]
    /\ scope \in [Threads -> [Names -> Bindings]]
    /\ direct \in SUBSET (Threads \X Names)

\* A variable is made before it is registered, and registered before it is set.
VariablesInv ==
    /\ \A n \in Names : registry[n] # NoOne => <<n, registry[n]>> \in made
    /\ \A t \in Threads, n \in Names, c \in Threads :
          context[t][n][c] # Ellipsis => <<n, c>> \in made /\ registry[n] # NoOne

\* Whether what a thread has to do sets a name, and the last value it gives it.
Assigns(s, n) == \E i \in DOMAIN s : s[i].name = n
Ends(s, n, v) ==
    \E i \in DOMAIN s : /\ s[i].name = n /\ s[i].value = v
                        /\ \A j \in DOMAIN s : j > i => s[j].name # n

Shows(t, n, v) == Held(t, n) = {v} \ {Ellipsis}

\* A name shows, or will when the call is over, what it should.
ScopeInv(t) ==
    \A n \in Names : OneVariable(n) =>
        IF Assigns(todo[t], n) THEN Ends(todo[t], n, scope[t][n])
                               ELSE Shows(t, n, scope[t][n])

\* Only the assignment a thread is at may have a variable: one it made.
HeadInv(t) ==
    \A i \in DOMAIN todo[t] : todo[t][i].var # NoOne =>
        i = 1 /\ todo[t][i].var = t /\ <<todo[t][i].name, t>> \in made

\* What a block saved is what its names showed when it was entered.
BlocksInv(t) ==
    \A i \in DOMAIN blocks[t] :
        LET b == blocks[t][i] IN
        /\ DOMAIN b.saved \subseteq b.names /\ DOMAIN b.outer = b.names
        /\ \A n \in b.names : OneVariable(n) =>
              b.outer[n] = IF n \in DOMAIN b.saved THEN b.saved[n] ELSE Ellipsis

\* A token that has no variable yet is of the one assignment that is going on;
\* one that has, holds what its name showed before.
TokenInv(t) ==
    \A k \in token[t] :
        /\ k.var = NoOne =>
              /\ Len(todo[t]) = 1 /\ todo[t][1].name = k.name /\ todo[t][1].value # Ellipsis
              /\ OneVariable(k.name) => Shows(t, k.name, k.outer)
        /\ k.var # NoOne =>
              /\ <<k.name, k.var>> \in made /\ registry[k.name] # NoOne
              /\ OneVariable(k.name) => k.old = k.outer

ThreadInv(t) == ScopeInv(t) /\ HeadInv(t) /\ BlocksInv(t) /\ TokenInv(t)

ContextInv == ContextTypeOK /\ VariablesInv /\ \A t \in Threads : ThreadInv(t)

-----------------------------------------------------------------------------
(* What calls assign                                                       *)

\* The arguments of a call are assigned each once, in some order.
LEMMA SetsAssign ==
    ASSUME NEW S \in SUBSET Names, NEW f \in [S -> Bindings]
    PROVE  /\ Sets(f) \in Seq(Assignments) /\ Len(Sets(f)) = Cardinality(S)
           /\ \A i \in DOMAIN Sets(f) : Sets(f)[i].var = NoOne
           /\ \A n : n \notin S => ~Assigns(Sets(f), n)
           /\ \A n \in S : Assigns(Sets(f), n) /\ Ends(Sets(f), n, f[n])
  <1> DEFINE c == Cardinality(S)
             ns == SetToSeq(S)
  <1>1. IsFiniteSet(S)
    BY PrefixAssumption, FS_Subset
  <1>2. c \in Nat /\ ExistsBijection(1 .. c, S)
    BY <1>1, FS_CardinalityType
  <1>3. PICK b : b \in Bijection(1 .. c, S)
    BY <1>2 DEF ExistsBijection
  <1>4. b \in [1 .. c -> S] /\ IsInjective(b)
    BY <1>3 DEF Bijection, Injection
  <1>5. ns \in [1 .. c -> S] /\ IsInjective(ns)
    BY <1>4 DEF SetToSeq
  <1>6. IsFiniteSet(1 .. c) /\ Cardinality(1 .. c) = c
    BY <1>2, FS_Interval
  <1>7. ns \in Surjection(1 .. c, S)
    <2>1. ns \in Injection(1 .. c, S)
      BY <1>5 DEF Injection
    <2> HIDE DEF ns
    <2> QED BY <1>1, <1>6, <2>1, FS_Injection
  <1>8. /\ DOMAIN f = S /\ DOMAIN ns = 1 .. c
        /\ Sets(f) = [i \in 1 .. c |-> Assign(ns[i], f[ns[i]])]
    BY <1>5 DEF Sets
  <1> HIDE DEF c, ns
  <1>9. \A i \in 1 .. c : /\ Sets(f)[i] \in Assignments /\ Sets(f)[i].var = NoOne
                          /\ Sets(f)[i].name = ns[i] /\ Sets(f)[i].value = f[ns[i]]
    BY <1>5, <1>8 DEF Assign, Assignments
  <1>10. Sets(f) \in Seq(Assignments) /\ Len(Sets(f)) = c /\ DOMAIN Sets(f) = 1 .. c
    BY <1>2, <1>8, <1>9
  <1>11. ASSUME NEW n \in S PROVE Assigns(Sets(f), n) /\ Ends(Sets(f), n, f[n])
    <2>1. PICK i \in 1 .. c : ns[i] = n
      BY <1>7 DEF Surjection
    <2>2. \A j \in 1 .. c : j > i => ns[j] # n
      BY <1>2, <1>5, <2>1 DEF IsInjective
    <2> QED BY <1>9, <1>10, <2>1, <2>2 DEF Assigns, Ends
  <1>12. ASSUME NEW n, n \notin S PROVE ~Assigns(Sets(f), n)
    BY <1>5, <1>9, <1>10, <1>12 DEF Assigns
  <1> QED BY <1>9, <1>10, <1>11, <1>12 DEF c

\* Leaving a block unsets its names and sets again those that were set.
LEMMA LeavingAssigns ==
    ASSUME NEW S, S \in SUBSET Names, NEW f, f \in [DOMAIN f -> Bindings],
           DOMAIN f \subseteq S, NEW s, s = Unsets(S) \o Sets(f)
    PROVE  /\ s \in Seq(Assignments)
           /\ \A i \in DOMAIN s : s[i].var = NoOne
           /\ \A n : n \notin S => ~Assigns(s, n)
           /\ \A n \in S : /\ Assigns(s, n)
                           /\ n \in DOMAIN f => Ends(s, n, f[n])
                           /\ n \notin DOMAIN f => Ends(s, n, Ellipsis)
  <1> DEFINE g == [n \in S |-> Ellipsis]
             T == DOMAIN f
             p == Unsets(S)
             q == Sets(f)
  <1>1. g \in [S -> Bindings] /\ p = Sets(g) /\ T \in SUBSET Names /\ f \in [T -> Bindings]
    BY DEF Unsets, Bindings
  <1>2. /\ p \in Seq(Assignments)
        /\ \A i \in DOMAIN p : p[i].var = NoOne
        /\ \A n : n \notin S => ~Assigns(p, n)
        /\ \A n \in S : Assigns(p, n) /\ Ends(p, n, Ellipsis)
    <2>1. \A n \in S : g[n] = Ellipsis
      OBVIOUS
    <2> HIDE DEF p, g
    <2>2. /\ Sets(g) \in Seq(Assignments)
          /\ \A i \in DOMAIN Sets(g) : Sets(g)[i].var = NoOne
          /\ \A n : n \notin S => ~Assigns(Sets(g), n)
          /\ \A n \in S : Assigns(Sets(g), n) /\ Ends(Sets(g), n, g[n])
      BY <1>1, SetsAssign
    <2> QED BY <1>1, <2>1, <2>2
  <1>3. /\ q \in Seq(Assignments)
        /\ \A i \in DOMAIN q : q[i].var = NoOne
        /\ \A n : n \notin T => ~Assigns(q, n)
        /\ \A n \in T : Assigns(q, n) /\ Ends(q, n, f[n])
    <2> HIDE DEF q
    <2> QED BY <1>1, SetsAssign DEF q
  <1>s. s = p \o q
    OBVIOUS
  <1>n. T \subseteq S
    OBVIOUS
  <1> HIDE DEF p, q, T
  <1>4. /\ s \in Seq(Assignments) /\ Len(s) = Len(p) + Len(q)
        /\ Len(p) \in Nat /\ Len(q) \in Nat
        /\ \A i \in 1 .. Len(p) : s[i] = p[i]
        /\ \A i \in 1 .. Len(q) : s[Len(p) + i] = q[i]
        /\ DOMAIN p = 1 .. Len(p) /\ DOMAIN q = 1 .. Len(q) /\ DOMAIN s = 1 .. Len(p) + Len(q)
    BY <1>2, <1>3, <1>s, ConcatProperties
  <1>5. \A i \in DOMAIN s : \/ i \in DOMAIN p /\ s[i] = p[i]
                            \/ i - Len(p) \in DOMAIN q /\ s[i] = q[i - Len(p)]
    <2> TAKE i \in DOMAIN s
    <2>1. CASE i <= Len(p)
      BY <1>4, <2>1
    <2>2. CASE i > Len(p)
      <3>1. i - Len(p) \in 1 .. Len(q) /\ Len(p) + (i - Len(p)) = i
        BY <1>4, <2>2
      <3>2. s[Len(p) + (i - Len(p))] = q[i - Len(p)]
        BY <1>4, <3>1
      <3> QED BY <1>4, <3>1, <3>2
    <2> QED BY <1>4, <2>1, <2>2
  <1>6. \A i \in DOMAIN s : s[i].var = NoOne
    BY <1>2, <1>3, <1>5
  <1>7. ASSUME NEW n, n \notin S PROVE ~Assigns(s, n)
    BY <1>2, <1>3, <1>5, <1>7, <1>n DEF Assigns
  <1>8. ASSUME NEW n \in T PROVE Assigns(s, n) /\ Ends(s, n, f[n])
    <2>1. PICK i \in DOMAIN q : /\ q[i].name = n /\ q[i].value = f[n]
                                /\ \A j \in DOMAIN q : j > i => q[j].name # n
      BY <1>3 DEF Ends
    <2>2. Len(p) + i \in DOMAIN s /\ s[Len(p) + i] = q[i]
      BY <1>4
    <2>3. ASSUME NEW j \in DOMAIN s, j > Len(p) + i PROVE s[j].name # n
      <3>1. j - Len(p) \in DOMAIN q /\ j - Len(p) > i /\ j \notin DOMAIN p
        BY <1>4, <2>3
      <3> QED BY <1>5, <2>1, <3>1
    <2> QED BY <2>1, <2>2, <2>3 DEF Assigns, Ends
  <1>9. ASSUME NEW n \in S, n \notin T PROVE Assigns(s, n) /\ Ends(s, n, Ellipsis)
    <2>1. PICK i \in DOMAIN p : /\ p[i].name = n /\ p[i].value = Ellipsis
                                /\ \A j \in DOMAIN p : j > i => p[j].name # n
      BY <1>2 DEF Ends
    <2>2. \A j \in DOMAIN q : q[j].name # n
      BY <1>3, <1>9 DEF Assigns
    <2>3. i \in DOMAIN s /\ s[i] = p[i]
      BY <1>4
    <2>4. \A j \in DOMAIN s : j > i => s[j].name # n
      BY <1>5, <2>1, <2>2
    <2> QED BY <2>1, <2>3, <2>4 DEF Assigns, Ends
  <1> QED BY <1>4, <1>6, <1>7, <1>8, <1>9 DEF T

\* The first assignment is done.
LEMMA TailAssigns ==
    ASSUME NEW s \in Seq(Assignments), s # <<>>, NEW n
    PROVE  /\ Head(s) = s[1] /\ Tail(s) \in Seq(Assignments)
           /\ n # s[1].name => (Assigns(Tail(s), n) <=> Assigns(s, n))
           /\ \A v : n # s[1].name /\ Ends(s, n, v) => Ends(Tail(s), n, v)
           /\ \A v : Assigns(Tail(s), n) /\ Ends(s, n, v) => Ends(Tail(s), n, v)
           /\ \A v : ~Assigns(Tail(s), n) /\ Ends(s, n, v) => v = s[1].value
  <1> DEFINE r == Tail(s)
  <1>1. /\ r \in Seq(Assignments) /\ Len(r) = Len(s) - 1 /\ Len(s) \in Nat \ {0}
        /\ DOMAIN s = 1 .. Len(s) /\ DOMAIN r = 1 .. Len(s) - 1 /\ Head(s) = s[1]
        /\ \A i \in 1 .. Len(s) - 1 : r[i] = s[i + 1]
    BY HeadTailProperties
  <1> HIDE DEF r
  <1>2. \A i \in DOMAIN s : i # 1 => i - 1 \in DOMAIN r /\ r[i - 1] = s[i]
    <2> TAKE i \in DOMAIN s
    <2>1. i # 1 => i - 1 \in 1 .. Len(s) - 1 /\ (i - 1) + 1 = i
      BY <1>1
    <2> QED BY <1>1, <2>1
  <1>3. \A i \in DOMAIN r : i + 1 \in DOMAIN s /\ r[i] = s[i + 1]
    BY <1>1
  <1>4. n # s[1].name => (Assigns(r, n) <=> Assigns(s, n))
    BY <1>1, <1>2, <1>3 DEF Assigns
  <1>5. ASSUME NEW v, NEW i \in DOMAIN s, i # 1, s[i].name = n, s[i].value = v,
               \A j \in DOMAIN s : j > i => s[j].name # n
        PROVE  Ends(r, n, v)
    <2>1. i - 1 \in DOMAIN r /\ r[i - 1] = s[i]
      BY <1>2, <1>5
    <2>2. ASSUME NEW j \in DOMAIN r, j > i - 1 PROVE r[j].name # n
      <3>1. j + 1 \in DOMAIN s /\ j + 1 > i /\ r[j] = s[j + 1]
        BY <1>1, <1>3, <2>2
      <3> QED BY <1>5, <3>1
    <2> QED BY <1>5, <2>1, <2>2 DEF Ends
  <1>6. ASSUME NEW v, Ends(s, n, v), n # s[1].name PROVE Ends(r, n, v)
    BY <1>5, <1>6 DEF Ends
  <1>7. ASSUME NEW v, Ends(s, n, v), Assigns(r, n) PROVE Ends(r, n, v)
    <2>1. PICK i \in DOMAIN s : /\ s[i].name = n /\ s[i].value = v
                                /\ \A j \in DOMAIN s : j > i => s[j].name # n
      BY <1>7 DEF Ends
    <2>2. i # 1
      <3>1. PICK j \in DOMAIN r : r[j].name = n
        BY <1>7 DEF Assigns
      <3>2. j + 1 \in DOMAIN s /\ j + 1 > 1 /\ s[j + 1].name = n
        BY <1>1, <1>3, <3>1
      <3> QED BY <2>1, <3>2
    <2> QED BY <1>5, <2>1, <2>2
  <1>8. ASSUME NEW v, Ends(s, n, v), ~Assigns(r, n) PROVE v = s[1].value
    <2>1. PICK i \in DOMAIN s : s[i].name = n /\ s[i].value = v
      BY <1>8 DEF Ends
    <2>2. i = 1
      BY <1>2, <1>8, <2>1 DEF Assigns
    <2> QED BY <2>1, <2>2
  <1> QED BY <1>1, <1>4, <1>6, <1>7, <1>8 DEF r

-----------------------------------------------------------------------------
(* Names that one thread introduced                                        *)

LEMMA OneVariableIsOne ==
    ASSUME IsFiniteSet(made), NEW n, OneVariable(n), NEW v \in made, NEW w \in made,
           v[1] = n, w[1] = n
    PROVE  v = w
  <1> DEFINE S == {x \in made : x[1] = n}
  <1>1. IsFiniteSet(S) /\ v \in S /\ w \in S
    BY FS_Subset
  <1>2. Cardinality(S) <= 1 /\ Cardinality(S) \in Nat
    BY <1>1, FS_CardinalityType DEF OneVariable
  <1> HIDE DEF S
  <1>3. Cardinality(S) # 0
    BY <1>1, FS_EmptySet
  <1>4. \E x : S = {x}
    BY <1>1, <1>2, <1>3, FS_Singleton
  <1> QED BY <1>1, <1>4

LEMMA OneVariableBefore ==
    ASSUME IsFiniteSet(made'), made \subseteq made', NEW n, OneVariable(n)'
    PROVE  OneVariable(n)
  <1> DEFINE S == {x \in made : x[1] = n}
             T == {x \in made' : x[1] = n}
  <1>1. IsFiniteSet(T) /\ S \in SUBSET T
    BY FS_Subset
  <1>2. IsFiniteSet(S) /\ Cardinality(S) <= Cardinality(T)
    BY <1>1, FS_Subset
  <1>3. Cardinality(S) \in Nat /\ Cardinality(T) \in Nat
    BY <1>1, <1>2, FS_CardinalityType
  <1>4. Cardinality(T) <= 1
    BY DEF OneVariable
  <1> QED BY <1>2, <1>3, <1>4 DEF OneVariable

\* A context shows the value of the only variable that has one.
LEMMA OnlyOneShows ==
    ASSUME NEW f \in [Threads -> Bindings], NEW c \in Threads,
           \A d \in Threads : f[d] # Ellipsis => d = c
    PROVE  {f[d] : d \in Threads} \ {Ellipsis} = {f[c]} \ {Ellipsis}
  OBVIOUS

LEMMA HeldIs ==
    ASSUME ContextInv, NEW t \in Threads, NEW n \in Names, NEW c \in Threads,
           OneVariable(n), <<n, c>> \in made
    PROVE  Held(t, n) = {context[t][n][c]} \ {Ellipsis}
  <1>1. context[t][n] \in [Threads -> Bindings] /\ IsFiniteSet(made)
    BY DEF ContextInv, ContextTypeOK
  <1>2. \A d \in Threads : context[t][n][d] # Ellipsis => d = c
    <2> SUFFICES ASSUME NEW d \in Threads, context[t][n][d] # Ellipsis PROVE d = c
      OBVIOUS
    <2>1. <<n, d>> \in made
      BY DEF ContextInv, VariablesInv
    <2>2. <<n, d>>[1] = n /\ <<n, c>>[1] = n
      OBVIOUS
    <2>3. <<n, d>> = <<n, c>>
      BY <1>1, <2>1, <2>2, OneVariableIsOne
    <2> QED BY <2>3
  <1> QED BY <1>1, <1>2, OnlyOneShows DEF Held

-----------------------------------------------------------------------------
(* The invariant and the steps of calls                                    *)

\* What a thread does leaves the others' part of the invariant.
LEMMA OthersKeep ==
    ASSUME ContextInv, NEW u \in Threads, made \subseteq made', IsFiniteSet(made'),
           \A n \in Names : registry[n] # NoOne => registry'[n] # NoOne,
           context'[u] = context[u], todo'[u] = todo[u], blocks'[u] = blocks[u],
           token'[u] = token[u], scope'[u] = scope[u]
    PROVE  ThreadInv(u)'
  <1>1. \A n : OneVariable(n)' => OneVariable(n)
    BY OneVariableBefore
  <1>2. \A n, v : Shows(u, n, v)' <=> Shows(u, n, v)
    BY DEF Shows, Held
  <1>3. ThreadInv(u)
    BY DEF ContextInv
  <1>4. ScopeInv(u)'
    BY <1>1, <1>2, <1>3 DEF ThreadInv, ScopeInv
  <1>5. HeadInv(u)'
    BY <1>3 DEF ThreadInv, HeadInv
  <1>6. BlocksInv(u)'
    BY <1>1, <1>3 DEF ThreadInv, BlocksInv
  <1>7. TokenInv(u)'
    <2>1. \A k \in token[u] : k.name \in Names
      BY DEF ContextInv, ContextTypeOK
    <2> QED BY <1>1, <1>2, <1>3, <2>1 DEF ThreadInv, TokenInv
  <1> QED BY <1>4, <1>5, <1>6, <1>7 DEF ThreadInv

\* Where what is to be assigned leads: the view it makes of an old one.
Leads(s, old, view) ==
    \A n \in Names : OneVariable(n) =>
        /\ Assigns(s, n) => Ends(s, n, view[n])
        /\ ~Assigns(s, n) => view[n] = old[n]

\* A call begins: its assignments are to be made, and no variable was touched.
LEMMA CallBegins ==
    ASSUME ContextInv, NEW t \in Threads, Free(t), NEW s \in Seq(Assignments), todo'[t] = s,
           UNCHANGED <<registry, made, context>>,
           \A i \in DOMAIN s : s[i].var = NoOne, Leads(s, scope[t], scope'[t])
    PROVE  ScopeInv(t)' /\ HeadInv(t)'
  <1>1. \A n : ~Assigns(todo[t], n)
    BY DEF Free, Assigns
  <1>2. ScopeInv(t)
    BY DEF ContextInv, ThreadInv
  <1>3. \A n, v : Shows(t, n, v)' <=> Shows(t, n, v)
    BY DEF Shows, Held
  <1>4. \A n : OneVariable(n)' <=> OneVariable(n)
    BY DEF OneVariable
  <1>5. ScopeInv(t)'
    BY <1>1, <1>2, <1>3, <1>4 DEF ScopeInv, Leads
  <1>6. HeadInv(t)'
    BY DEF HeadInv
  <1> QED BY <1>5, <1>6

\* Between calls, tokens have a variable and what they hold is settled.
LEMMA FreeTokens ==
    ASSUME ContextInv, NEW t \in Threads, Free(t)
    PROVE  /\ \A k \in token[t] :
                 /\ k.name \in Names /\ k.var \in Threads
                 /\ <<k.name, k.var>> \in made /\ registry[k.name] # NoOne
                 /\ OneVariable(k.name) => k.old = k.outer
           /\ \A n \in Names : OneVariable(n) => Shows(t, n, scope[t][n])
  <1>1. Len(todo[t]) # 1 /\ \A n : ~Assigns(todo[t], n)
    BY DEF Free, Assigns
  <1>2. ThreadInv(t) /\ ContextTypeOK
    BY DEF ContextInv
  <1>3. \A k \in token[t] : k.name \in Names /\ k.var \in Threads \cup {NoOne}
    BY <1>2 DEF ContextTypeOK
  <1> QED BY <1>1, <1>2, <1>3 DEF ThreadInv, TokenInv, ScopeInv

LEMMA FreeTokensStay ==
    ASSUME ContextInv, NEW t \in Threads, Free(t), token'[t] \subseteq token[t],
           UNCHANGED <<registry, made>>
    PROVE  TokenInv(t)'
  <1>1. \A k \in token[t] : k.var # NoOne
    BY FreeTokens, ReservedAssumption
  <1> QED BY <1>1, FreeTokens DEF TokenInv, OneVariable

\* The other threads, where no variable is made.
LEMMA AllKeep ==
    ASSUME ContextInv, NEW t \in Threads, ThreadInv(t)', UNCHANGED made,
           \A n \in Names : registry[n] # NoOne => registry'[n] # NoOne,
           \A u \in Threads \ {t} :
              /\ context'[u] = context[u] /\ todo'[u] = todo[u] /\ blocks'[u] = blocks[u]
              /\ token'[u] = token[u] /\ scope'[u] = scope[u]
    PROVE  \A u \in Threads : ThreadInv(u)'
  <1>1. IsFiniteSet(made') /\ made \subseteq made'
    BY DEF ContextInv, ContextTypeOK
  <1>2. ASSUME NEW u \in Threads, u # t PROVE ThreadInv(u)'
    BY <1>1, <1>2, OthersKeep
  <1> QED BY <1>2

LEMMA EnterKeeps ==
    ASSUME ContextInv, NEW t \in Threads, NEW kwargs \in Kwargs, Enter(t, kwargs)
    PROVE  ContextInv'
  <1>1. PICK S \in SUBSET Names : kwargs \in [S -> Values]
    BY DEF Kwargs
  <1>2. kwargs \in [S -> Bindings] /\ DOMAIN kwargs = S
    BY <1>1 DEF Bindings
  <1>3. PICK got \in Gets(t, S) :
          blocks' = [blocks EXCEPT ![t] = Append(@,
              [names |-> S, saved |-> Saved(got), outer |-> Restriction(scope[t], S)])]
    BY <1>2 DEF Enter
  <1> DEFINE b == [names |-> S, saved |-> Saved(got), outer |-> Restriction(scope[t], S)]
             s == Sets(kwargs)
  <1>t. /\ ContextTypeOK /\ scope[t] \in [Names -> Bindings]
        /\ blocks[t] \in Seq([names : SUBSET Names, saved : Partial, outer : Partial])
    BY DEF ContextInv, ContextTypeOK
  <1>4. /\ Free(t) /\ UNCHANGED <<registry, made, context, token, direct>>
        /\ todo' = [todo EXCEPT ![t] = s]
        /\ scope' = [scope EXCEPT ![t] = Update(scope[t], kwargs)]
    BY DEF Enter
  <1>5. /\ s \in Seq(Assignments) /\ \A i \in DOMAIN s : s[i].var = NoOne
        /\ \A n : n \notin S => ~Assigns(s, n)
        /\ \A n \in S : Assigns(s, n) /\ Ends(s, n, kwargs[n])
    BY <1>2, SetsAssign
  <1>6. /\ got \in [S -> Bindings]
        /\ DOMAIN Saved(got) = {m \in S : got[m] # Ellipsis}
        /\ \A m \in DOMAIN Saved(got) : Saved(got)[m] = got[m]
        /\ Saved(got) \in [{m \in S : got[m] # Ellipsis} -> Bindings]
    BY DEF Gets, Saved, Bindings
  <1>7. Restriction(scope[t], S) \in [S -> Bindings]
        /\ \A n \in S : Restriction(scope[t], S)[n] = scope[t][n]
    BY <1>t DEF Restriction
  <1>8. b \in [names : SUBSET Names, saved : Partial, outer : Partial]
    <2>1. Saved(got) \in Partial
      BY <1>6 DEF Partial
    <2>2. Restriction(scope[t], S) \in Partial
      BY <1>7 DEF Partial
    <2> QED BY <2>1, <2>2
  <1>9. \A n \in Names : Update(scope[t], kwargs)[n] = IF n \in S THEN kwargs[n] ELSE scope[t][n]
    BY <1>2 DEF Update
  <1>10. Update(scope[t], kwargs) \in [Names -> Bindings]
    BY <1>t, <1>2 DEF Update
  <1>11. /\ todo'[t] = s /\ blocks'[t] = Append(blocks[t], b) /\ token'[t] = token[t]
         /\ scope'[t] = Update(scope[t], kwargs)
         /\ \A u \in Threads \ {t} : /\ todo'[u] = todo[u] /\ blocks'[u] = blocks[u]
                                     /\ scope'[u] = scope[u]
    BY <1>t, <1>3, <1>4 DEF ContextTypeOK
  <1> HIDE DEF s, b
  <1>12. ContextTypeOK'
    <2>1. todo' \in [Threads -> Seq(Assignments)]
      BY <1>t, <1>4, <1>5 DEF ContextTypeOK
    <2>2. blocks' \in [Threads -> Seq([names : SUBSET Names, saved : Partial, outer : Partial])]
      <3>1. Append(blocks[t], b) \in Seq([names : SUBSET Names, saved : Partial, outer : Partial])
        BY <1>t, <1>8
      <3> QED BY <1>t, <1>3, <3>1 DEF ContextTypeOK, b
    <2>3. scope' \in [Threads -> [Names -> Bindings]]
      BY <1>t, <1>4, <1>10 DEF ContextTypeOK
    <2> QED BY <1>t, <1>4, <2>1, <2>2, <2>3 DEF ContextTypeOK
  <1>13. VariablesInv'
    BY <1>4 DEF ContextInv, VariablesInv
  <1>14. ScopeInv(t)' /\ HeadInv(t)'
    <2>1. Leads(s, scope[t], scope'[t])
      BY <1>5, <1>9, <1>11 DEF Leads
    <2> QED BY <1>4, <1>5, <1>11, <2>1, CallBegins
  <1>15. BlocksInv(t)'
    <2>1. BlocksInv(t)
      BY DEF ContextInv, ThreadInv
    <2>2. ASSUME NEW n \in S, OneVariable(n)
          PROVE  b.outer[n] = IF n \in DOMAIN b.saved THEN b.saved[n] ELSE Ellipsis
      <3>1. Shows(t, n, scope[t][n]) /\ scope[t][n] \in Bindings
        BY <1>t, <1>4, <2>2, FreeTokens
      <3>2. IF Held(t, n) = {} THEN got[n] = Ellipsis ELSE got[n] \in Held(t, n)
        BY DEF Gets
      <3>3. got[n] = scope[t][n]
        BY <3>1, <3>2 DEF Shows
      <3> QED BY <1>6, <1>7, <3>3 DEF b
    <2>3. /\ b.names = S /\ DOMAIN b.outer = S /\ DOMAIN b.saved \subseteq S
      BY <1>6, <1>7 DEF b
    <2>4. ASSUME NEW i \in DOMAIN blocks'[t]
          PROVE  \/ i \in DOMAIN blocks[t] /\ blocks'[t][i] = blocks[t][i]
                 \/ blocks'[t][i] = b
      BY <1>t, <1>11
    <2>5. \A n : OneVariable(n)' <=> OneVariable(n)
      BY <1>4 DEF OneVariable
    <2> QED BY <2>1, <2>2, <2>3, <2>4, <2>5 DEF BlocksInv
  <1>16. TokenInv(t)'
    BY <1>4, <1>11, FreeTokensStay
  <1>17. ThreadInv(t)'
    BY <1>14, <1>15, <1>16 DEF ThreadInv
  <1>18. \A u \in Threads : ThreadInv(u)'
    BY <1>4, <1>11, <1>17, AllKeep
  <1> QED BY <1>12, <1>13, <1>18 DEF ContextInv

LEMMA UnsetKeeps ==
    ASSUME ContextInv, NEW t \in Threads, NEW names \in SUBSET Names, Unset(t, names)
    PROVE  ContextInv'
  <1> DEFINE g == [n \in names |-> Ellipsis]
             view == Update(scope[t], g)
             s == Sets(g)
  <1>1. /\ Free(t) /\ UNCHANGED <<registry, made, context, blocks, token, direct>>
        /\ todo' = [todo EXCEPT ![t] = s] /\ scope' = [scope EXCEPT ![t] = view]
    BY DEF Unset, Unsets
  <1>2. g \in [names -> Bindings] /\ DOMAIN g = names /\ \A n \in names : g[n] = Ellipsis
    BY DEF Bindings
  <1>t. ContextTypeOK /\ scope[t] \in [Names -> Bindings]
    BY DEF ContextInv, ContextTypeOK
  <1> HIDE DEF g
  <1>3. /\ s \in Seq(Assignments) /\ \A i \in DOMAIN s : s[i].var = NoOne
        /\ \A n : n \notin names => ~Assigns(s, n)
        /\ \A n \in names : Assigns(s, n) /\ Ends(s, n, g[n])
    BY <1>2, SetsAssign
  <1>4. /\ view \in [Names -> Bindings]
        /\ \A n \in Names : view[n] = IF n \in names THEN g[n] ELSE scope[t][n]
    BY <1>2, <1>t DEF Update
  <1> HIDE DEF s, view
  <1>5. Leads(s, scope[t], view)
    BY <1>3, <1>4 DEF Leads
  <1>6. /\ todo' \in [Threads -> Seq(Assignments)] /\ todo'[t] = s
        /\ scope' \in [Threads -> [Names -> Bindings]] /\ scope'[t] = view
        /\ \A u \in Threads \ {t} : todo'[u] = todo[u] /\ scope'[u] = scope[u]
    BY <1>1, <1>3, <1>4, <1>t DEF ContextTypeOK
  <1>s. ScopeInv(t)' /\ HeadInv(t)'
    BY <1>1, <1>3, <1>5, <1>6, CallBegins
  <1>v. VariablesInv'
    BY <1>1 DEF ContextInv, VariablesInv
  <1>7. BlocksInv(t)'
    BY <1>1 DEF ContextInv, ThreadInv, BlocksInv, OneVariable
  <1>8. TokenInv(t)'
    BY <1>1, FreeTokensStay
  <1>9. \A u \in Threads : ThreadInv(u)'
    BY <1>1, <1>s, <1>6, <1>7, <1>8, AllKeep DEF ThreadInv
  <1> QED BY <1>t, <1>v, <1>1, <1>6, <1>9 DEF ContextInv, ContextTypeOK

LEMMA SetOneKeeps ==
    ASSUME ContextInv, NEW t \in Threads, NEW n \in Names, NEW v \in Values, SetOne(t, n, v)
    PROVE  ContextInv'
  <1> DEFINE g == [m \in {n} |-> v]
             view == [scope[t] EXCEPT ![n] = v]
             s == Sets(g)
             k == [name |-> n, var |-> NoOne, old |-> Ellipsis, outer |-> scope[t][n]]
  <1>1. /\ Free(t) /\ UNCHANGED <<registry, made, context, blocks>>
        /\ todo' = [todo EXCEPT ![t] = s] /\ scope' = [scope EXCEPT ![t] = view]
        /\ token' = [token EXCEPT ![t] = {k}]
        /\ direct' = direct \cup {<<t, n>>}
    BY DEF SetOne
  <1>2. g \in [{n} -> Bindings] /\ g[n] = v /\ {n} \in SUBSET Names /\ v # Ellipsis
    BY ReservedAssumption DEF Bindings
  <1>t. ContextTypeOK /\ scope[t] \in [Names -> Bindings]
    BY DEF ContextInv, ContextTypeOK
  <1> HIDE DEF g
  <1>3. /\ s \in Seq(Assignments) /\ Len(s) = Cardinality({n})
        /\ \A i \in DOMAIN s : s[i].var = NoOne
        /\ \A m : m \notin {n} => ~Assigns(s, m)
        /\ \A m \in {n} : Assigns(s, m) /\ Ends(s, m, g[m])
    BY <1>2, SetsAssign
  <1>4. /\ view \in [Names -> Bindings] /\ v \in Bindings
        /\ \A m \in Names : view[m] = IF m = n THEN v ELSE scope[t][m]
    BY <1>t DEF Bindings
  <1> HIDE DEF s, view
  <1>5. Leads(s, scope[t], view)
    BY <1>2, <1>3, <1>4 DEF Leads
  <1>6. /\ todo' \in [Threads -> Seq(Assignments)] /\ todo'[t] = s
        /\ scope' \in [Threads -> [Names -> Bindings]] /\ scope'[t] = view
        /\ \A u \in Threads \ {t} : todo'[u] = todo[u] /\ scope'[u] = scope[u]
    BY <1>1, <1>3, <1>4, <1>t DEF ContextTypeOK
  <1>s. ScopeInv(t)' /\ HeadInv(t)'
    BY <1>1, <1>3, <1>5, <1>6, CallBegins
  <1>v. VariablesInv'
    BY <1>1 DEF ContextInv, VariablesInv
  <1>7. BlocksInv(t)'
    <2>1. BlocksInv(t) /\ blocks' = blocks /\ \A m : OneVariable(m)' = OneVariable(m)
      BY <1>1 DEF ContextInv, ThreadInv, OneVariable
    <2> QED BY <2>1 DEF BlocksInv
  <1>8. k \in [name : Names, var : Threads \cup {NoOne}, old : Bindings, outer : Bindings]
    BY <1>t DEF Bindings
  <1>9. token'[t] = {k} /\ \A u \in Threads \ {t} : token'[u] = token[u]
    BY <1>1, <1>t DEF ContextTypeOK
  <1>10. TokenInv(t)'
    <2>1. Len(s) = 1 /\ s[1].name = n /\ s[1].value = v
      <3>1. Len(s) = 1
        BY <1>3, FS_Singleton
      <3>2. PICK i \in DOMAIN s : s[i].name = n /\ s[i].value = v
        BY <1>2, <1>3 DEF Ends
      <3>3. i = 1
        BY <1>3, <3>1, DOMAIN s = 1 .. Len(s)
      <3> QED BY <3>1, <3>2, <3>3
    <2>2. OneVariable(n) => Shows(t, n, scope[t][n])
      BY <1>1, FreeTokens
    <2>3. (OneVariable(n)' <=> OneVariable(n)) /\ \A w : Shows(t, n, w)' <=> Shows(t, n, w)
      BY <1>1 DEF OneVariable, Shows, Held
    <2>4. k.name = n /\ k.var = NoOne /\ k.outer = scope[t][n]
      OBVIOUS
    <2> HIDE DEF k
    <2> QED BY <1>2, <1>6, <1>9, <2>1, <2>2, <2>3, <2>4 DEF TokenInv
  <1>11. \A u \in Threads : ThreadInv(u)'
    BY <1>1, <1>s, <1>6, <1>7, <1>9, <1>10, AllKeep DEF ThreadInv
  <1>12. token' \in [Threads -> SUBSET [name : Names, var : Threads \cup {NoOne},
                                        old : Bindings, outer : Bindings]]
    <2> HIDE DEF k
    <2> QED BY <1>1, <1>8, <1>t DEF ContextTypeOK
  <1>13. direct' \in SUBSET (Threads \X Names)
    BY <1>1, <1>t DEF ContextTypeOK
  <1> QED BY <1>t, <1>v, <1>1, <1>6, <1>11, <1>12, <1>13 DEF ContextInv, ContextTypeOK

\* What is left when a block is.
LEMMA FrontOfBlocks ==
    ASSUME NEW B, NEW bs \in Seq(B), bs # <<>>
    PROVE  /\ Last(bs) = bs[Len(bs)] /\ Len(bs) \in Nat \ {0} /\ Len(bs) \in DOMAIN bs
           /\ Front(bs) \in Seq(B) /\ Len(Front(bs)) = Len(bs) - 1
           /\ \A i \in 1 .. Len(bs) - 1 : Front(bs)[i] = bs[i]
  <1> DEFINE n == Len(bs)
             front == SubSeq(bs, 1, n - 1)
  <1>1. n \in Nat /\ n >= 1 /\ n - 1 \in Int /\ Front(bs) = front /\ Last(bs) = bs[n]
    BY DEF Front, Last
  <1>2. \A i \in 1 .. n - 1 : bs[i] \in B
    OBVIOUS
  <1>3. /\ front \in Seq(B)
        /\ Len(front) = IF 1 <= n - 1 THEN (n - 1) - 1 + 1 ELSE 0
        /\ \A i \in 1 .. (n - 1) - 1 + 1 : front[i] = bs[1 + i - 1]
    BY <1>1, <1>2, SubSeqProperties
  <1>4. n \in DOMAIN bs
    BY <1>1
  <1> HIDE DEF n, front
  <1>5. Len(front) = n - 1 /\ \A i \in 1 .. n - 1 : front[i] = bs[i]
    BY <1>1, <1>3
  <1> QED BY <1>1, <1>3, <1>4, <1>5 DEF n

LEMMA LeaveKeeps ==
    ASSUME ContextInv, NEW t \in Threads, Leave(t)
    PROVE  ContextInv'
  <1> SUFFICES ASSUME NEW b, b = Last(blocks[t]),
                      NEW s, s = Unsets(b.names) \o Sets(b.saved),
                      NEW view, view = Update(scope[t], b.outer)
               PROVE  ContextInv'
    OBVIOUS
  <1>1. /\ Free(t) /\ blocks[t] # <<>>
        /\ UNCHANGED <<registry, made, context, token, direct>>
        /\ todo' = [todo EXCEPT ![t] = s] /\ scope' = [scope EXCEPT ![t] = view]
        /\ blocks' = [blocks EXCEPT ![t] = Front(blocks[t])]
    BY DEF Leave
  <1> DEFINE B == [names : SUBSET Names, saved : Partial, outer : Partial]
  <1>t. ContextTypeOK /\ scope[t] \in [Names -> Bindings] /\ blocks[t] \in Seq(B)
    BY DEF ContextInv, ContextTypeOK
  <1> HIDE DEF B
  <1>2. /\ b = blocks[t][Len(blocks[t])] /\ Len(blocks[t]) \in DOMAIN blocks[t]
        /\ Front(blocks[t]) \in Seq(B)
        /\ \A i \in DOMAIN Front(blocks[t]) : i \in DOMAIN blocks[t]
                                             /\ Front(blocks[t])[i] = blocks[t][i]
    <2>1. /\ b = blocks[t][Len(blocks[t])] /\ Len(blocks[t]) \in DOMAIN blocks[t]
          /\ Front(blocks[t]) \in Seq(B) /\ Len(Front(blocks[t])) = Len(blocks[t]) - 1
          /\ \A i \in 1 .. Len(blocks[t]) - 1 : Front(blocks[t])[i] = blocks[t][i]
          /\ Len(blocks[t]) \in Nat \ {0}
      BY <1>1, <1>t, FrontOfBlocks
    <2>2. /\ DOMAIN blocks[t] = 1 .. Len(blocks[t])
          /\ DOMAIN Front(blocks[t]) = 1 .. Len(blocks[t]) - 1
      BY <1>t, <2>1
    <2> QED BY <2>1, <2>2
  <1>3. b \in B
    BY <1>2, <1>t
  <1>4. /\ b.names \in SUBSET Names /\ DOMAIN b.saved \subseteq b.names
        /\ DOMAIN b.outer = b.names
        /\ \A n \in b.names : OneVariable(n) =>
              b.outer[n] = IF n \in DOMAIN b.saved THEN b.saved[n] ELSE Ellipsis
    <2>1. BlocksInv(t)
      BY DEF ContextInv, ThreadInv
    <2> QED BY <1>2, <1>3, <2>1 DEF BlocksInv, B
  <1>5. /\ b.saved \in [DOMAIN b.saved -> Bindings]
        /\ b.outer \in [b.names -> Bindings]
    BY <1>3, <1>4 DEF B, Partial
  <1>6. /\ s \in Seq(Assignments)
        /\ \A i \in DOMAIN s : s[i].var = NoOne
        /\ \A n : n \notin b.names => ~Assigns(s, n)
        /\ \A n \in b.names : /\ Assigns(s, n)
                              /\ n \in DOMAIN b.saved => Ends(s, n, b.saved[n])
                              /\ n \notin DOMAIN b.saved => Ends(s, n, Ellipsis)
    <2> DEFINE S == b.names
               f == b.saved
    <2>1. /\ S \in SUBSET Names /\ f \in [DOMAIN f -> Bindings] /\ DOMAIN f \subseteq S
          /\ s = Unsets(S) \o Sets(f)
      BY <1>4, <1>5
    <2> HIDE DEF S, f
    <2>2. /\ s \in Seq(Assignments)
          /\ \A i \in DOMAIN s : s[i].var = NoOne
          /\ \A n : n \notin S => ~Assigns(s, n)
          /\ \A n \in S : /\ Assigns(s, n)
                          /\ n \in DOMAIN f => Ends(s, n, f[n])
                          /\ n \notin DOMAIN f => Ends(s, n, Ellipsis)
      BY <2>1, LeavingAssigns
    <2> QED BY <2>2 DEF S, f
  <1>7. /\ view \in [Names -> Bindings]
        /\ \A n \in Names : view[n] = IF n \in b.names THEN b.outer[n] ELSE scope[t][n]
    BY <1>4, <1>5, <1>t DEF Update
  <1>8. /\ todo' \in [Threads -> Seq(Assignments)]
        /\ scope' \in [Threads -> [Names -> Bindings]]
        /\ todo'[t] = s /\ scope'[t] = view
        /\ \A u \in Threads \ {t} : todo'[u] = todo[u] /\ scope'[u] = scope[u]
    BY <1>1, <1>6, <1>7, <1>t DEF ContextTypeOK
  <1>9. ScopeInv(t)' /\ HeadInv(t)'
    <2>1. Leads(s, scope[t], view)
      BY <1>4, <1>6, <1>7 DEF Leads
    <2>2. /\ Free(t) /\ UNCHANGED <<registry, made, context>> /\ todo'[t] = s
          /\ scope'[t] = view /\ s \in Seq(Assignments) /\ \A i \in DOMAIN s : s[i].var = NoOne
      BY <1>1, <1>6, <1>8
    <2>3. Leads(s, scope[t], scope'[t])
      BY <2>1, <2>2
    <2> QED BY <2>2, <2>3, CallBegins
  <1>10. VariablesInv'
    BY <1>1 DEF ContextInv, VariablesInv
  <1>11. /\ blocks'[t] = Front(blocks[t])
         /\ \A u \in Threads \ {t} : blocks'[u] = blocks[u]
    BY <1>1, <1>t DEF ContextTypeOK
  <1>12. BlocksInv(t)'
    <2>1. BlocksInv(t)
      BY DEF ContextInv, ThreadInv
    <2>2. \A n : OneVariable(n)' <=> OneVariable(n)
      BY <1>1 DEF OneVariable
    <2> QED BY <1>2, <1>11, <2>1, <2>2 DEF BlocksInv
  <1>13. TokenInv(t)'
    BY <1>1, FreeTokensStay
  <1>14. \A u \in Threads : ThreadInv(u)'
    BY <1>1, <1>8, <1>9, <1>11, <1>12, <1>13, AllKeep DEF ThreadInv
  <1>15. blocks' \in [Threads -> Seq([names : SUBSET Names, saved : Partial, outer : Partial])]
    BY <1>1, <1>2, <1>t DEF ContextTypeOK, B
  <1> QED BY <1>t, <1>1, <1>8, <1>10, <1>14, <1>15 DEF ContextInv, ContextTypeOK

LEMMA ClearKeeps ==
    ASSUME ContextInv, NEW t \in Threads, NEW p, Clear(t, p)
    PROVE  ContextInv'
  <1> DEFINE names == {n \in Names : Prefix[n] = p}
             g == [n \in names |-> Ellipsis]
             view == Update(scope[t], g)
             mine == [n \in Names |->
                        IF n \in names THEN [c \in Threads |-> Ellipsis] ELSE context[t][n]]
  <1>1. /\ Free(t) /\ UNCHANGED <<registry, made, todo, blocks, token, direct>>
        /\ context' = [context EXCEPT ![t] = mine]
        /\ scope' = [scope EXCEPT ![t] = view]
    BY DEF Clear
  <1>t. /\ ContextTypeOK /\ scope[t] \in [Names -> Bindings]
        /\ context[t] \in [Names -> [Threads -> Bindings]]
    BY DEF ContextInv, ContextTypeOK
  <1>2. /\ view \in [Names -> Bindings]
        /\ \A n \in Names : view[n] = IF n \in names THEN Ellipsis ELSE scope[t][n]
    BY <1>t DEF Update, Bindings
  <1>3. /\ mine \in [Names -> [Threads -> Bindings]]
        /\ \A n \in Names \ names : mine[n] = context[t][n]
        /\ \A n \in names, c \in Threads : mine[n][c] = Ellipsis
    BY <1>t DEF Bindings
  <1> HIDE DEF names, view, mine
  <1>4. /\ context' \in [Threads -> [Names -> [Threads -> Bindings]]] /\ context'[t] = mine
        /\ scope' \in [Threads -> [Names -> Bindings]] /\ scope'[t] = view
        /\ \A u \in Threads \ {t} : context'[u] = context[u] /\ scope'[u] = scope[u]
    BY <1>1, <1>2, <1>3, <1>t DEF ContextTypeOK
  <1>5. VariablesInv'
    <2>1. \A u \in Threads, n \in Names, c \in Threads :
             context'[u][n][c] # Ellipsis => context[u][n][c] # Ellipsis
      BY <1>3, <1>4
    <2> QED BY <1>1, <2>1 DEF ContextInv, VariablesInv
  <1>6. ScopeInv(t)'
    <2> SUFFICES ASSUME NEW n \in Names, OneVariable(n)
                 PROVE  ~Assigns(todo'[t], n) /\ Held(t, n)' = {scope'[t][n]} \ {Ellipsis}
      BY <1>1 DEF ScopeInv, OneVariable, Shows
    <2>1. ~Assigns(todo'[t], n)
      BY <1>1 DEF Free, Assigns
    <2>2. CASE n \in names
      <3>1. Held(t, n)' = {}
        BY <1>3, <1>4, <2>2 DEF Held
      <3> QED BY <1>2, <1>4, <2>1, <2>2, <3>1 DEF Shows
    <2>3. CASE n \notin names
      <3>1. Held(t, n)' = Held(t, n) /\ scope'[t][n] = scope[t][n]
        BY <1>2, <1>3, <1>4, <2>3 DEF Held
      <3>2. Shows(t, n, scope[t][n])
        BY <1>1, FreeTokens
      <3> QED BY <2>1, <3>1, <3>2 DEF Shows
    <2> QED BY <2>2, <2>3
  <1>7. HeadInv(t)' /\ BlocksInv(t)'
    BY <1>1 DEF ContextInv, ThreadInv, HeadInv, BlocksInv, OneVariable
  <1>8. TokenInv(t)'
    BY <1>1, FreeTokensStay
  <1>9. \A u \in Threads : ThreadInv(u)'
    BY <1>1, <1>4, <1>6, <1>7, <1>8, AllKeep DEF ThreadInv
  <1> QED BY <1>t, <1>1, <1>4, <1>5, <1>9 DEF ContextInv, ContextTypeOK

LEMMA ResetKeeps ==
    ASSUME ContextInv, NEW t \in Threads, Reset(t)
    PROVE  ContextInv'
  <1>t. /\ ContextTypeOK
        /\ token[t] \subseteq [name : Names, var : Threads \cup {NoOne},
                               old : Bindings, outer : Bindings]
    BY DEF ContextInv, ContextTypeOK
  <1>1. /\ Free(t) /\ UNCHANGED <<registry, made, todo, blocks, direct>>
        /\ token' = [token EXCEPT ![t] = {}]
    BY DEF Reset
  <1>2. /\ token'[t] = {} /\ \A u \in Threads \ {t} : token'[u] = token[u]
        /\ token' \in [Threads -> SUBSET [name : Names, var : Threads \cup {NoOne},
                                          old : Bindings, outer : Bindings]]
    BY <1>1, <1>t DEF ContextTypeOK
  <1>3. TokenInv(t)' /\ HeadInv(t)' /\ BlocksInv(t)'
    <2>1. HeadInv(t) /\ BlocksInv(t)
      BY DEF ContextInv, ThreadInv
    <2>2. TokenInv(t)'
      BY <1>2 DEF TokenInv
    <2>3. HeadInv(t)'
      BY <1>1, <2>1 DEF HeadInv
    <2>4. BlocksInv(t)'
      BY <1>1, <2>1 DEF BlocksInv, OneVariable
    <2> QED BY <2>2, <2>3, <2>4
  <1>4. CASE UNCHANGED <<context, scope>>
    <2>1. ScopeInv(t)' /\ VariablesInv'
      BY <1>1, <1>4 DEF ContextInv, ThreadInv, ScopeInv, VariablesInv, OneVariable, Shows, Held
    <2>2. \A u \in Threads : ThreadInv(u)'
      BY <1>1, <1>2, <1>3, <1>4, <2>1, AllKeep DEF ThreadInv
    <2> QED BY <1>t, <1>1, <1>2, <1>4, <2>1, <2>2 DEF ContextInv, ContextTypeOK
  <1>5. ASSUME NEW k \in token[t], registry[k.name] = k.var,
               context' = [context EXCEPT ![t][k.name][k.var] = k.old],
               scope' = [scope EXCEPT ![t][k.name] = k.outer]
        PROVE  ContextInv'
    <2>1. /\ k.name \in Names /\ k.var \in Threads /\ k.old \in Bindings /\ k.outer \in Bindings
          /\ <<k.name, k.var>> \in made /\ registry[k.name] # NoOne
          /\ OneVariable(k.name) => k.old = k.outer
      BY <1>t, <1>1, FreeTokens
    <2>2. /\ context' \in [Threads -> [Names -> [Threads -> Bindings]]]
          /\ scope' \in [Threads -> [Names -> Bindings]]
          /\ \A u \in Threads \ {t} : context'[u] = context[u] /\ scope'[u] = scope[u]
          /\ \A n \in Names \ {k.name} : context'[t][n] = context[t][n] /\ scope'[t][n] = scope[t][n]
          /\ \A c \in Threads \ {k.var} : context'[t][k.name][c] = context[t][k.name][c]
          /\ context'[t][k.name][k.var] = k.old /\ scope'[t][k.name] = k.outer
      BY <1>t, <1>5, <2>1 DEF ContextTypeOK
    <2>3. VariablesInv'
      <3> SUFFICES ASSUME NEW u \in Threads, NEW n \in Names, NEW c \in Threads,
                          context'[u][n][c] # Ellipsis
                   PROVE  <<n, c>> \in made /\ registry[n] # NoOne
        BY <1>1 DEF ContextInv, VariablesInv
      <3>1. CASE u = t /\ n = k.name /\ c = k.var
        BY <2>1, <3>1
      <3>2. CASE ~(u = t /\ n = k.name /\ c = k.var)
        <4>1. context'[u][n][c] = context[u][n][c]
          BY <2>2, <3>2
        <4> QED BY <4>1 DEF ContextInv, VariablesInv
      <3> QED BY <3>1, <3>2
    <2>4. ScopeInv(t)'
      <3> SUFFICES ASSUME NEW n \in Names, OneVariable(n)
                   PROVE  ~Assigns(todo'[t], n) /\ Held(t, n)' = {scope'[t][n]} \ {Ellipsis}
        BY <1>1 DEF ScopeInv, OneVariable, Shows
      <3>1. ~Assigns(todo'[t], n)
        BY <1>1 DEF Free, Assigns
      <3>2. CASE n # k.name
        <4>1. Held(t, n)' = Held(t, n) /\ scope'[t][n] = scope[t][n]
          BY <2>2, <3>2 DEF Held
        <4>2. Shows(t, n, scope[t][n])
          BY <1>1, FreeTokens
        <4> QED BY <3>1, <4>1, <4>2 DEF Shows
      <3>3. CASE n = k.name
        <4>1. \A d \in Threads : context'[t][n][d] # Ellipsis => d = k.var
          <5> SUFFICES ASSUME NEW d \in Threads, context'[t][n][d] # Ellipsis PROVE d = k.var
            OBVIOUS
          <5>1. <<n, d>> \in made /\ <<n, k.var>> \in made /\ IsFiniteSet(made)
            BY <1>1, <1>t, <2>1, <2>3, <3>3 DEF VariablesInv, ContextTypeOK
          <5>2. <<n, d>>[1] = n /\ <<n, k.var>>[1] = n
            OBVIOUS
          <5>3. <<n, d>> = <<n, k.var>>
            BY <5>1, <5>2, OneVariableIsOne
          <5> QED BY <5>3
        <4>2. context'[t][n] \in [Threads -> Bindings]
          BY <2>2
        <4>3. Held(t, n)' = {context'[t][n][k.var]} \ {Ellipsis}
          BY <2>1, <4>1, <4>2, OnlyOneShows DEF Held
        <4> QED BY <2>1, <2>2, <3>1, <3>3, <4>3 DEF Shows
      <3> QED BY <3>2, <3>3
    <2>5. \A u \in Threads : ThreadInv(u)'
      BY <1>1, <1>2, <1>3, <2>2, <2>4, AllKeep DEF ThreadInv
    <2> QED BY <1>t, <1>1, <1>2, <2>2, <2>3, <2>5 DEF ContextInv, ContextTypeOK
  <1> QED BY <1>4, <1>5 DEF Reset

\* Only the assignment a thread is at has a variable.
LEMMA TailsHaveNone ==
    ASSUME ContextInv, NEW t \in Threads, NEW s, s = todo[t], s # <<>>
    PROVE  \A i \in DOMAIN Tail(s) : Tail(s)[i].var = NoOne
  <1>1. s \in Seq(Assignments) /\ HeadInv(t)
    BY DEF ContextInv, ContextTypeOK, ThreadInv
  <1>2. Tail(s) \in Seq(Assignments)
    BY <1>1
  <1>3. /\ Len(Tail(s)) = Len(s) - 1 /\ Len(s) \in Nat /\ DOMAIN s = 1 .. Len(s)
        /\ DOMAIN Tail(s) = 1 .. Len(Tail(s))
        /\ \A j \in 1 .. Len(Tail(s)) : Tail(s)[j] = s[j + 1]
    BY <1>1, <1>2, HeadTailProperties
  <1>4. ASSUME NEW i \in DOMAIN Tail(s) PROVE Tail(s)[i].var = NoOne
    <2>1. i + 1 \in DOMAIN s /\ Tail(s)[i] = s[i + 1] /\ i + 1 # 1
      BY <1>3
    <2> QED BY <1>1, <2>1 DEF HeadInv
  <1> QED BY <1>4

\* An assignment is made to the variable c of its name.
LEMMA PutKeeps ==
    ASSUME ContextInv, NEW t \in Threads, todo[t] # <<>>, NEW n, n = todo[t][1].name,
           NEW c \in Threads, <<n, c>> \in made, Put(t, c),
           UNCHANGED <<made, blocks, scope, direct>>,
           registry' \in [Names -> Threads \cup {NoOne}], registry'[n] = c,
           \A m \in Names \ {n} : registry'[m] = registry[m]
    PROVE  ContextInv'
  <1> SUFFICES ASSUME NEW s, s = todo[t], NEW V, V = todo[t][1].value,
                      NEW old, old = context[t][n][c]
               PROVE  ContextInv'
    OBVIOUS
  <1> DEFINE Changed(k) == IF k.name = n /\ k.var = NoOne
                           THEN [k EXCEPT !.var = c, !.old = old] ELSE k
             Tokens == [name : Names, var : Threads \cup {NoOne}, old : Bindings, outer : Bindings]
  <1>t. /\ ContextTypeOK /\ s \in Seq(Assignments) /\ token[t] \subseteq Tokens
        /\ context \in [Threads -> [Names -> [Threads -> Bindings]]]
    BY DEF ContextInv, ContextTypeOK
  <1>0. /\ n \in Names /\ V \in Bindings /\ old \in Bindings
        /\ Head(s) = s[1] /\ 1 \in DOMAIN s /\ s # <<>>
    <2>1. s[1] \in Assignments /\ Head(s) = s[1] /\ 1 \in DOMAIN s
      BY <1>t
    <2>2. n \in Names /\ V \in Bindings
      BY <2>1 DEF Assignments
    <2> QED BY <1>t, <2>1, <2>2
  <1>1. /\ context' = [context EXCEPT ![t][n][c] = V]
        /\ token' = [token EXCEPT ![t] = {Changed(k) : k \in @}]
        /\ todo' = [todo EXCEPT ![t] = Tail(s)]
    <2>1. Head(todo[t]).name = n /\ Head(todo[t]).value = V
      BY <1>0
    <2> DEFINE Put1(k) == IF k.name = Head(todo[t]).name /\ k.var = NoOne
                          THEN [k EXCEPT !.var = c, !.old = context[t][Head(todo[t]).name][c]]
                          ELSE k
    <2>2. /\ context' = [context EXCEPT ![t][Head(todo[t]).name][c] = Head(todo[t]).value]
          /\ token' = [token EXCEPT ![t] = {Put1(k) : k \in token[t]}]
          /\ todo' = [todo EXCEPT ![t] = Tail(s)]
      BY DEF Put
    <2>3. \A k : Put1(k) = Changed(k)
      BY <2>1
    <2> HIDE DEF Put1, Changed
    <2>4. {Put1(k) : k \in token[t]} = {Changed(k) : k \in token[t]}
      BY <2>3
    <2> QED BY <2>1, <2>2, <2>4
  <1>2. /\ Tail(s) \in Seq(Assignments)
        /\ \A m : m # n => (Assigns(Tail(s), m) <=> Assigns(s, m))
        /\ \A m, v : m # n /\ Ends(s, m, v) => Ends(Tail(s), m, v)
        /\ \A v : Assigns(Tail(s), n) /\ Ends(s, n, v) => Ends(Tail(s), n, v)
        /\ \A v : ~Assigns(Tail(s), n) /\ Ends(s, n, v) => v = V
    <2>1. s[1].name = n /\ s[1].value = V
      OBVIOUS
    <2>2. \A m : /\ Tail(s) \in Seq(Assignments)
                 /\ m # s[1].name => (Assigns(Tail(s), m) <=> Assigns(s, m))
                 /\ \A v : m # s[1].name /\ Ends(s, m, v) => Ends(Tail(s), m, v)
                 /\ \A v : Assigns(Tail(s), m) /\ Ends(s, m, v) => Ends(Tail(s), m, v)
                 /\ \A v : ~Assigns(Tail(s), m) /\ Ends(s, m, v) => v = s[1].value
      BY <1>t, <1>0, TailAssigns
    <2> QED BY <2>1, <2>2
  <1>3. /\ context' \in [Threads -> [Names -> [Threads -> Bindings]]]
        /\ \A m \in Names \ {n} : context'[t][m] = context[t][m]
        /\ \A d \in Threads \ {c} : context'[t][n][d] = context[t][n][d]
        /\ context'[t][n][c] = V
        /\ \A u \in Threads \ {t} : context'[u] = context[u]
    <2>1. context[t] \in [Names -> [Threads -> Bindings]] /\ context[t][n] \in [Threads -> Bindings]
      BY <1>t, <1>0
    <2>2. context'[t] = [context[t] EXCEPT ![n][c] = V]
      BY <1>t, <1>1
    <2>3. [context[t] EXCEPT ![n][c] = V] \in [Names -> [Threads -> Bindings]]
      BY <1>0, <2>1
    <2>4. \A u \in Threads \ {t} : context'[u] = context[u]
      BY <1>t, <1>1
    <2>5. DOMAIN context' = Threads /\ context' = [u \in Threads |-> context'[u]]
      BY <1>t, <1>1
    <2>6. \A u \in Threads : context'[u] \in [Names -> [Threads -> Bindings]]
      BY <1>t, <2>2, <2>3, <2>4
    <2>7. context' \in [Threads -> [Names -> [Threads -> Bindings]]]
      BY <2>5, <2>6
    <2>8. /\ \A m \in Names \ {n} : context'[t][m] = context[t][m]
          /\ context'[t][n] = [context[t][n] EXCEPT ![c] = V]
      BY <1>0, <2>1, <2>2
    <2>9. \A d \in Threads : context'[t][n][d] = IF d = c THEN V ELSE context[t][n][d]
      BY <2>1, <2>8
    <2> QED BY <2>4, <2>7, <2>8, <2>9
  <1>4. /\ todo' \in [Threads -> Seq(Assignments)] /\ todo'[t] = Tail(s)
        /\ \A u \in Threads \ {t} : todo'[u] = todo[u]
    BY <1>1, <1>2, <1>t DEF ContextTypeOK
  <1>5. \A k \in token[t] : Changed(k) \in Tokens
    <2> SUFFICES ASSUME NEW k \in Tokens PROVE Changed(k) \in Tokens
      BY <1>t
    <2>1. CASE k.name = n /\ k.var = NoOne
      <3>1. [k EXCEPT !.var = c, !.old = old] \in Tokens
        BY <1>0
      <3> QED BY <2>1, <3>1
    <2>2. CASE ~(k.name = n /\ k.var = NoOne)
      BY <2>2
    <2> QED BY <2>1, <2>2
  <1>6. /\ token' \in [Threads -> SUBSET Tokens] /\ token'[t] = {Changed(k) : k \in token[t]}
        /\ \A u \in Threads \ {t} : token'[u] = token[u]
    <2> HIDE DEF Changed, Tokens
    <2> QED BY <1>1, <1>5, <1>t DEF ContextTypeOK, Tokens
  <1> HIDE DEF Changed, Tokens
  <1>7. ThreadInv(t) /\ VariablesInv
    BY DEF ContextInv
  <1>8. VariablesInv'
    <2>1. ASSUME NEW m \in Names, registry'[m] # NoOne PROVE <<m, registry'[m]>> \in made
      BY <1>7, <2>1 DEF VariablesInv
    <2>2. ASSUME NEW u \in Threads, NEW m \in Names, NEW d \in Threads,
                 context'[u][m][d] # Ellipsis
          PROVE  <<m, d>> \in made /\ registry'[m] # NoOne
      <3>1. CASE u = t /\ m = n /\ d = c
        BY <3>1, ReservedAssumption
      <3>2. CASE ~(u = t /\ m = n /\ d = c)
        <4>1. context'[u][m][d] = context[u][m][d]
          BY <1>3, <3>2
        <4>2. <<m, d>> \in made /\ registry[m] # NoOne
          BY <1>7, <2>2, <4>1 DEF VariablesInv
        <4> QED BY <4>2, ReservedAssumption
      <3> QED BY <3>1, <3>2
    <2> QED BY <2>1, <2>2 DEF VariablesInv
  <1>9. ScopeInv(t)'
    <2>1. ScopeInv(t) /\ \A m : OneVariable(m)' <=> OneVariable(m)
      BY <1>7 DEF ThreadInv, OneVariable
    <2>2. ASSUME NEW m \in Names, OneVariable(m), m # n
          PROVE  /\ Assigns(todo'[t], m) => Ends(todo'[t], m, scope[t][m])
                 /\ ~Assigns(todo'[t], m) => Held(t, m)' = {scope[t][m]} \ {Ellipsis}
      <3>1. Held(t, m)' = Held(t, m)
        BY <1>3, <2>2 DEF Held
      <3> QED BY <1>2, <1>4, <2>1, <2>2, <3>1 DEF ScopeInv, Shows
    <2>3. ASSUME OneVariable(n)
          PROVE  /\ Assigns(todo'[t], n) => Ends(todo'[t], n, scope[t][n])
                 /\ ~Assigns(todo'[t], n) => Held(t, n)' = {scope[t][n]} \ {Ellipsis}
      <3>1. Ends(s, n, scope[t][n])
        <4>1. Assigns(s, n)
          BY <1>0 DEF Assigns
        <4> QED BY <1>0, <2>1, <2>3, <4>1 DEF ScopeInv
      <3>2. \A d \in Threads : context'[t][n][d] # Ellipsis => d = c
        <4> SUFFICES ASSUME NEW d \in Threads, context'[t][n][d] # Ellipsis PROVE d = c
          OBVIOUS
        <4>1. <<n, d>> \in made /\ IsFiniteSet(made)
          BY <1>0, <1>8, <1>t DEF VariablesInv, ContextTypeOK
        <4>2. <<n, d>>[1] = n /\ <<n, c>>[1] = n
          OBVIOUS
        <4>3. <<n, d>> = <<n, c>>
          BY <2>3, <4>1, <4>2, OneVariableIsOne
        <4> QED BY <4>3
      <3>3. context'[t][n] \in [Threads -> Bindings]
        BY <1>0, <1>3
      <3>4. Held(t, n)' = {V} \ {Ellipsis}
        BY <1>3, <3>2, <3>3, OnlyOneShows DEF Held
      <3> QED BY <1>2, <1>4, <3>1, <3>4
    <2> QED BY <1>0, <2>1, <2>2, <2>3 DEF ScopeInv, Shows
  <1>10. HeadInv(t)'
    <2>1. \A i \in DOMAIN Tail(s) : Tail(s)[i].var = NoOne
      BY TailsHaveNone
    <2> QED BY <1>4, <2>1 DEF HeadInv
  <1>11. BlocksInv(t)'
    BY <1>7 DEF ThreadInv, BlocksInv, OneVariable
  <1>12. TokenInv(t)'
    <2>1. ASSUME NEW k \in token[t]
          PROVE  /\ Changed(k).var # NoOne
                 /\ <<Changed(k).name, Changed(k).var>> \in made
                 /\ registry'[Changed(k).name] # NoOne
                 /\ OneVariable(Changed(k).name) => Changed(k).old = Changed(k).outer
      <3>1. k \in Tokens /\ TokenInv(t)
        BY <1>7, <1>t DEF ThreadInv
      <3>2. CASE k.var = NoOne
        <4>1. k.name = n /\ (OneVariable(n) => Shows(t, n, k.outer))
          BY <3>1, <3>2 DEF TokenInv
        <4>2. /\ Changed(k).var = c /\ Changed(k).name = n
              /\ Changed(k).old = old /\ Changed(k).outer = k.outer
          BY <3>1, <3>2, <4>1 DEF Changed, Tokens
        <4>3. ASSUME OneVariable(n) PROVE context[t][n][c] = k.outer
          <5>1. Held(t, n) = {context[t][n][c]} \ {Ellipsis}
            BY <1>0, <4>3, HeldIs
          <5>2. Held(t, n) = {k.outer} \ {Ellipsis}
            BY <4>1, <4>3 DEF Shows
          <5>3. old \in Bindings /\ k.outer \in Bindings
            BY <1>0, <3>1 DEF Tokens
          <5>4. CASE old = Ellipsis
            BY <5>1, <5>2, <5>4
          <5>5. CASE old # Ellipsis
            <6>1. old \in {k.outer}
              BY <5>1, <5>2, <5>5
            <6> QED BY <6>1
          <5> QED BY <5>4, <5>5
        <4> QED BY <4>2, <4>3, ReservedAssumption
      <3>3. CASE k.var # NoOne
        <4>1. /\ <<k.name, k.var>> \in made /\ registry[k.name] # NoOne
              /\ OneVariable(k.name) => k.old = k.outer
          BY <3>1, <3>3 DEF TokenInv
        <4>2. registry'[k.name] # NoOne
          BY <3>1, <4>1, ReservedAssumption DEF Tokens
        <4> QED BY <3>3, <4>1, <4>2 DEF Changed
      <3> QED BY <3>2, <3>3
    <2>2. \A m : OneVariable(m)' <=> OneVariable(m)
      BY DEF OneVariable
    <2> QED BY <1>6, <2>1, <2>2 DEF TokenInv
  <1>13. \A u \in Threads : ThreadInv(u)'
    <2>1. \A m \in Names : registry[m] # NoOne => registry'[m] # NoOne
      BY ReservedAssumption
    <2> QED BY <1>3, <1>4, <1>6, <1>9, <1>10, <1>11, <1>12, <2>1, AllKeep DEF ThreadInv
  <1> QED BY <1>t, <1>3, <1>4, <1>6, <1>8, <1>13 DEF ContextInv, ContextTypeOK, Tokens

LEMMA FoundKeeps ==
    ASSUME ContextInv, NEW t \in Threads, Found(t) PROVE ContextInv'
  <1> DEFINE n == todo[t][1].name
  <1>1. ContextTypeOK /\ todo[t] \in Seq(Assignments) /\ todo[t] # <<>>
    BY DEF ContextInv, ContextTypeOK, Found
  <1>2. Head(todo[t]) = todo[t][1] /\ todo[t][1] \in Assignments
    BY <1>1
  <1>3. n \in Names /\ registry[n] # NoOne /\ Put(t, registry[n])
        /\ UNCHANGED <<registry, made, blocks, scope, direct>>
    BY <1>2 DEF Found, Assignments
  <1>4. registry[n] \in Threads /\ <<n, registry[n]>> \in made
    BY <1>1, <1>3 DEF ContextTypeOK, ContextInv, VariablesInv
  <1>5. registry' \in [Names -> Threads \cup {NoOne}]
    BY <1>1, <1>3 DEF ContextTypeOK
  <1> HIDE DEF n
  <1>6. \A m, c : m = n /\ c = registry[n] => ContextInv'
    <2> SUFFICES ASSUME NEW m, NEW c, m = n, c = registry[n] PROVE ContextInv'
      OBVIOUS
    <2>1. c \in Threads /\ <<m, c>> \in made /\ Put(t, c) /\ m = todo[t][1].name
          /\ registry'[m] = c
      BY <1>3, <1>4 DEF n
    <2> QED BY <1>1, <1>3, <1>5, <2>1, PutKeeps
  <1> QED BY <1>6

LEMMA RegisterKeeps ==
    ASSUME ContextInv, NEW t \in Threads, Register(t) PROVE ContextInv'
  <1>1. ContextTypeOK /\ todo[t] \in Seq(Assignments) /\ todo[t] # <<>>
    BY DEF ContextInv, ContextTypeOK, Register
  <1>2. Head(todo[t]) = todo[t][1] /\ todo[t][1] \in Assignments /\ 1 \in DOMAIN todo[t]
    BY <1>1
  <1>3. SUFFICES ASSUME NEW n, n = todo[t][1].name PROVE ContextInv'
    OBVIOUS
  <1>4. n \in Names /\ todo[t][1].var # NoOne /\ Put(t, t)
        /\ registry' = [registry EXCEPT ![n] = t]
        /\ UNCHANGED <<made, blocks, scope, direct>>
    BY <1>2, <1>3 DEF Register, Assignments
  <1>5. <<n, t>> \in made
    BY <1>2, <1>3, <1>4 DEF ContextInv, ThreadInv, HeadInv
  <1>6. registry' \in [Names -> Threads \cup {NoOne}] /\ registry'[n] = t
        /\ \A m \in Names \ {n} : registry'[m] = registry[m]
    BY <1>1, <1>4 DEF ContextTypeOK
  <1> QED BY <1>1, <1>3, <1>4, <1>5, <1>6, PutKeeps

\* The first assignment has a variable now.
LEMMA HeadGetsVariable ==
    ASSUME NEW s \in Seq(Assignments), s # <<>>, NEW h \in Assignments,
           h.name = s[1].name, h.value = s[1].value, NEW r, r = <<h>> \o Tail(s)
    PROVE  /\ r \in Seq(Assignments) /\ Len(r) = Len(s)
           /\ \A i \in DOMAIN s : r[i].name = s[i].name /\ r[i].value = s[i].value
           /\ r[1] = h /\ \A i \in DOMAIN s : i # 1 => r[i] = s[i]
  <1> DEFINE q == Tail(s)
  <1>1. /\ q \in Seq(Assignments) /\ Len(q) = Len(s) - 1 /\ Len(s) \in Nat \ {0}
        /\ DOMAIN s = 1 .. Len(s)
        /\ \A i \in 1 .. Len(q) : q[i] = s[i + 1]
    BY HeadTailProperties
  <1>3. r = <<h>> \o q
    OBVIOUS
  <1> HIDE DEF q
  <1>4. <<h>> \in Seq(Assignments) /\ Len(<<h>>) = 1 /\ <<h>>[1] = h
    OBVIOUS
  <1> SUFFICES ASSUME NEW p, p = <<h>>
               PROVE  /\ r \in Seq(Assignments) /\ Len(r) = Len(s)
                      /\ \A i \in DOMAIN s : r[i].name = s[i].name /\ r[i].value = s[i].value
                      /\ r[1] = h /\ \A i \in DOMAIN s : i # 1 => r[i] = s[i]
    OBVIOUS
  <1>5. /\ r \in Seq(Assignments) /\ Len(r) = 1 + Len(q) /\ r[1] = h
        /\ \A i \in 1 .. Len(q) : r[1 + i] = q[i]
    <2>1. /\ r \in Seq(Assignments) /\ Len(r) = Len(p) + Len(q)
          /\ \A i \in 1 .. Len(p) : r[i] = p[i]
          /\ \A i \in 1 .. Len(q) : r[Len(p) + i] = q[i]
      BY <1>1, <1>3, <1>4, ConcatProperties
    <2> QED BY <1>4, <2>1
  <1>6. ASSUME NEW i \in DOMAIN s, i # 1 PROVE r[i] = s[i]
    <2>1. i - 1 \in 1 .. Len(q) /\ 1 + (i - 1) = i /\ (i - 1) + 1 = i
      BY <1>1, <1>6
    <2> QED BY <1>1, <1>5, <2>1
  <1>7. r[1].name = s[1].name /\ r[1].value = s[1].value
    BY <1>5
  <1>8. ASSUME NEW i \in DOMAIN s PROVE r[i].name = s[i].name /\ r[i].value = s[i].value
    BY <1>6, <1>7
  <1>9. Len(r) = Len(s)
    BY <1>1, <1>5
  <1> QED BY <1>5, <1>6, <1>7, <1>8, <1>9

LEMMA EndsAlike ==
    ASSUME NEW s, NEW r, DOMAIN r = DOMAIN s,
           \A i \in DOMAIN s : r[i].name = s[i].name /\ r[i].value = s[i].value
    PROVE  \A n, v : Ends(r, n, v) <=> Ends(s, n, v)
  <1>1. ASSUME NEW p, NEW q, DOMAIN q = DOMAIN p, NEW n, NEW v, Ends(p, n, v),
               \A i \in DOMAIN p : q[i].name = p[i].name /\ q[i].value = p[i].value
        PROVE  Ends(q, n, v)
    <2>1. PICK i \in DOMAIN p : /\ p[i].name = n /\ p[i].value = v
                                /\ \A j \in DOMAIN p : j > i => p[j].name # n
      BY <1>1 DEF Ends
    <2>2. i \in DOMAIN q /\ q[i].name = n /\ q[i].value = v
      BY <1>1, <2>1
    <2>3. \A j \in DOMAIN q : j > i => q[j].name # n
      BY <1>1, <2>1
    <2> QED BY <2>2, <2>3 DEF Ends
  <1> QED BY <1>1

\* A name without a variable shows nothing, and to unset it is to do nothing.
LEMMA NothingToUnset ==
    ASSUME ContextInv, NEW t \in Threads, NotFound(t), Head(todo[t]).value = Ellipsis
    PROVE  ContextInv'
  <1> SUFFICES ASSUME NEW s, s = todo[t], NEW n, n = s[1].name PROVE ContextInv'
    OBVIOUS
  <1>1. /\ ContextTypeOK /\ VariablesInv /\ ThreadInv(t)
        /\ s \in Seq(Assignments) /\ s # <<>>
    BY DEF ContextInv, ContextTypeOK, NotFound
  <1>2. Head(s) = s[1] /\ s[1] \in Assignments /\ 1 \in DOMAIN s /\ s[1].value = Ellipsis
    BY <1>1
  <1>3. /\ n \in Names /\ registry[n] = NoOne /\ todo' = [todo EXCEPT ![t] = Tail(s)]
        /\ UNCHANGED <<made, registry, context, blocks, token, scope, direct>>
    <2>1. Head(todo[t]).name = n /\ n \in Names
      BY <1>2 DEF Assignments
    <2> QED BY <2>1 DEF NotFound
  <1>4. \A m : /\ Tail(s) \in Seq(Assignments)
               /\ m # n => (Assigns(Tail(s), m) <=> Assigns(s, m))
               /\ \A v : m # n /\ Ends(s, m, v) => Ends(Tail(s), m, v)
               /\ \A v : Assigns(Tail(s), m) /\ Ends(s, m, v) => Ends(Tail(s), m, v)
               /\ \A v : ~Assigns(Tail(s), m) /\ Ends(s, m, v) => v = Ellipsis
    BY <1>1, <1>2, TailAssigns
  <1>5. /\ todo' \in [Threads -> Seq(Assignments)] /\ todo'[t] = Tail(s)
        /\ \A u \in Threads \ {t} : todo'[u] = todo[u]
    BY <1>1, <1>3, <1>4 DEF ContextTypeOK
  <1>6. \A m : (OneVariable(m)' <=> OneVariable(m)) /\ Held(t, m)' = Held(t, m)
    BY <1>3 DEF OneVariable, Held
  <1>7. ScopeInv(t)'
    <2>1. ASSUME NEW m \in Names, OneVariable(m)
          PROVE  /\ Assigns(todo'[t], m) => Ends(todo'[t], m, scope[t][m])
                 /\ ~Assigns(todo'[t], m) => Held(t, m) = {scope[t][m]} \ {Ellipsis}
      <3>1. IF Assigns(s, m) THEN Ends(s, m, scope[t][m])
                             ELSE Held(t, m) = {scope[t][m]} \ {Ellipsis}
        BY <1>1, <2>1 DEF ThreadInv, ScopeInv, Shows
      <3>2. CASE m # n
        BY <1>4, <1>5, <3>1, <3>2
      <3>3. CASE m = n
        <4>1. Held(t, m) = {}
          <5>1. \A c \in Threads : context[t][n][c] = Ellipsis
            BY <1>1, <1>3 DEF VariablesInv
          <5> QED BY <3>3, <5>1 DEF Held
        <4>2. Assigns(s, m)
          BY <1>2, <3>3 DEF Assigns
        <4>3. ~Assigns(todo'[t], m) => scope[t][m] = Ellipsis
          BY <1>4, <1>5, <3>1, <4>2
        <4> QED BY <1>4, <1>5, <3>1, <4>1, <4>2, <4>3
      <3> QED BY <3>2, <3>3
    <2> QED BY <1>3, <1>6, <2>1 DEF ScopeInv, Shows
  <1>8. HeadInv(t)'
    BY <1>1, <1>5, TailsHaveNone DEF HeadInv
  <1>9. BlocksInv(t)'
    BY <1>1, <1>3 DEF ThreadInv, BlocksInv, OneVariable
  <1>10. TokenInv(t)'
    <2>1. \A k \in token[t] : k.var # NoOne
      BY <1>1, <1>2 DEF ThreadInv, TokenInv
    <2> QED BY <1>1, <1>3, <1>6, <2>1 DEF ThreadInv, TokenInv
  <1>11. \A u \in Threads : ThreadInv(u)'
    BY <1>3, <1>5, <1>7, <1>8, <1>9, <1>10, AllKeep DEF ThreadInv
  <1>12. VariablesInv'
    BY <1>1, <1>3 DEF VariablesInv
  <1> QED BY <1>1, <1>3, <1>5, <1>11, <1>12 DEF ContextInv, ContextTypeOK

LEMMA NotFoundKeeps ==
    ASSUME ContextInv, NEW t \in Threads, NotFound(t) PROVE ContextInv'
  <1> SUFFICES ASSUME Head(todo[t]).value # Ellipsis PROVE ContextInv'
    BY NothingToUnset
  <1> SUFFICES ASSUME NEW s, s = todo[t], NEW n, n = s[1].name,
                      NEW h, h = [Head(s) EXCEPT !.var = t], NEW r, r = <<h>> \o Tail(s)
               PROVE  ContextInv'
    OBVIOUS
  <1>1. /\ ContextTypeOK /\ VariablesInv /\ ThreadInv(t)
        /\ s \in Seq(Assignments) /\ s # <<>>
    BY DEF ContextInv, ContextTypeOK, NotFound
  <1>2. Head(s) = s[1] /\ s[1] \in Assignments /\ 1 \in DOMAIN s
    BY <1>1
  <1>3. /\ n \in Names /\ made' = made \cup {<<n, t>>} /\ todo' = [todo EXCEPT ![t] = r]
        /\ UNCHANGED <<registry, context, blocks, token, scope, direct>>
    <2>1. Head(todo[t]).name = n /\ n \in Names
      BY <1>2 DEF Assignments
    <2> QED BY <2>1 DEF NotFound
  <1>4. /\ r \in Seq(Assignments) /\ Len(r) = Len(s)
        /\ \A i \in DOMAIN s : r[i].name = s[i].name /\ r[i].value = s[i].value
        /\ r[1].var = t /\ \A i \in DOMAIN s : i # 1 => r[i] = s[i]
    <2>1. h \in Assignments /\ h.name = s[1].name /\ h.value = s[1].value /\ h.var = t
      BY <1>2 DEF Assignments
    <2>2. s \in Seq(Assignments) /\ s # <<>>
      BY <1>1
    <2>3. r = <<h>> \o Tail(s)
      OBVIOUS
    <2> HIDE DEF Assignments
    <2>4. /\ r \in Seq(Assignments) /\ Len(r) = Len(s)
          /\ \A i \in DOMAIN s : r[i].name = s[i].name /\ r[i].value = s[i].value
          /\ r[1] = h /\ \A i \in DOMAIN s : i # 1 => r[i] = s[i]
      BY ONLY <2>1, <2>2, <2>3, HeadGetsVariable
    <2> QED BY <2>1, <2>4
  <1>5. DOMAIN r = DOMAIN s /\ DOMAIN s = 1 .. Len(s)
    BY <1>1, <1>4
  <1>6. /\ todo' \in [Threads -> Seq(Assignments)] /\ todo'[t] = r
        /\ \A u \in Threads \ {t} : todo'[u] = todo[u]
    BY <1>1, <1>3, <1>4 DEF ContextTypeOK
  <1>7. made' \in SUBSET (Names \X Threads) /\ IsFiniteSet(made') /\ made \subseteq made'
    <2>1. made \in SUBSET (Names \X Threads) /\ IsFiniteSet(made)
      BY <1>1 DEF ContextTypeOK
    <2>2. IsFiniteSet(made')
      BY <1>3, <2>1, FS_AddElement
    <2>3. <<n, t>> \in Names \X Threads
      BY <1>3
    <2> QED BY <1>3, <2>1, <2>2, <2>3
  <1>8. /\ \A m : OneVariable(m)' => OneVariable(m)
        /\ \A m : Held(t, m)' = Held(t, m)
        /\ \A m : Assigns(r, m) <=> Assigns(s, m)
        /\ \A m, v : Ends(r, m, v) <=> Ends(s, m, v)
    <2>1. \A m : OneVariable(m)' => OneVariable(m)
      BY <1>7, OneVariableBefore
    <2>2. \A m : Held(t, m)' = Held(t, m)
      BY <1>3 DEF Held
    <2>3. \A m : Assigns(r, m) <=> Assigns(s, m)
      BY ONLY <1>4, <1>5 DEF Assigns
    <2>4. \A m, v : Ends(r, m, v) <=> Ends(s, m, v)
      BY ONLY <1>4, <1>5, EndsAlike
    <2> QED BY <2>1, <2>2, <2>3, <2>4
  <1>9. ScopeInv(t)'
    BY <1>1, <1>3, <1>6, <1>8 DEF ThreadInv, ScopeInv, Shows
  <1>10. HeadInv(t)'
    <2> SUFFICES ASSUME NEW i \in DOMAIN r, r[i].var # NoOne
                 PROVE  i = 1 /\ r[i].var = t /\ <<r[i].name, t>> \in made'
      BY <1>6 DEF HeadInv
    <2>1. i = 1
      <3> SUFFICES ASSUME i # 1 PROVE FALSE
        OBVIOUS
      <3>1. i \in DOMAIN s /\ s[i].var # NoOne
        BY <1>4, <1>5
      <3> QED BY <1>1, <3>1 DEF ThreadInv, HeadInv
    <2>2. r[1].name = n
      BY <1>2, <1>4
    <2> QED BY <1>3, <1>4, <2>1, <2>2
  <1>11. BlocksInv(t)'
    BY <1>1, <1>3, <1>8 DEF ThreadInv, BlocksInv
  <1>12. TokenInv(t)'
    <2>1. \A k \in token[t] : k.var = NoOne =>
             Len(r) = 1 /\ r[1].name = k.name /\ r[1].value # Ellipsis
      BY <1>1, <1>2, <1>4 DEF ThreadInv, TokenInv
    <2> QED BY <1>1, <1>3, <1>6, <1>7, <1>8, <2>1 DEF ThreadInv, TokenInv, Shows
  <1>13. ASSUME NEW u \in Threads PROVE ThreadInv(u)'
    <2>1. CASE u = t
      BY <1>9, <1>10, <1>11, <1>12, <2>1 DEF ThreadInv
    <2>2. CASE u # t
      BY <1>3, <1>6, <1>7, <2>2, OthersKeep
    <2> QED BY <2>1, <2>2
  <1>14. VariablesInv'
    BY <1>1, <1>3, <1>7 DEF VariablesInv
  <1> QED BY <1>1, <1>3, <1>6, <1>7, <1>13, <1>14 DEF ContextInv, ContextTypeOK

-----------------------------------------------------------------------------
(* The invariant holds and says what ViewIsScoped does                     *)

LEMMA InitContextInv == InitContextVars => ContextInv
  <1> SUFFICES ASSUME InitContextVars PROVE ContextInv
    OBVIOUS
  <1>1. ContextTypeOK
    <2>1. IsFiniteSet(made)
      BY FS_EmptySet DEF InitContextVars
    <2>2. todo \in [Threads -> Seq(Assignments)]
      BY DEF InitContextVars
    <2>3. blocks \in [Threads -> Seq([names : SUBSET Names, saved : Partial, outer : Partial])]
      BY DEF InitContextVars
    <2> QED BY <2>1, <2>2, <2>3 DEF InitContextVars, ContextTypeOK, Bindings
  <1>2. VariablesInv
    BY DEF InitContextVars, VariablesInv
  <1>3. ASSUME NEW t \in Threads PROVE ThreadInv(t)
    <2>1. ScopeInv(t)
      BY DEF InitContextVars, ScopeInv, Assigns, Shows, Held
    <2> QED BY <2>1 DEF InitContextVars, ThreadInv, HeadInv, BlocksInv, TokenInv
  <1> QED BY <1>1, <1>2, <1>3 DEF ContextInv

LEMMA OperateKeeps ==
    ASSUME ContextInv, NEW t \in Threads, NEW names \in SUBSET Names, Operate(t, names)
    PROVE  ContextInv'
  <1>1. ASSUME NEW kwargs \in Kwargs, Enter(t, kwargs) PROVE ContextInv'
    BY <1>1, EnterKeeps
  <1>2. ASSUME NEW n \in names, Unset(t, {n}) PROVE ContextInv'
    BY <1>2, {n} \in SUBSET Names, UnsetKeeps
  <1>3. ASSUME NEW n \in names, NEW v \in Values, SetOne(t, n, v) PROVE ContextInv'
    BY <1>3, SetOneKeeps
  <1>4. ASSUME NEW p, Clear(t, p) PROVE ContextInv'
    BY <1>4, ClearKeeps
  <1> QED BY <1>1, <1>2, <1>3, <1>4, ResetKeeps DEF Operate

LEMMA ContextStays == ASSUME ContextInv, UNCHANGED contextVars PROVE ContextInv'
  <1>1. ContextTypeOK' /\ VariablesInv'
    BY DEF ContextInv, ContextTypeOK, VariablesInv, contextVars
  <1>2. ASSUME NEW u \in Threads PROVE ThreadInv(u)'
    <2>1. made \subseteq made' /\ IsFiniteSet(made')
      BY DEF ContextInv, ContextTypeOK, contextVars
    <2> QED BY <2>1, OthersKeep DEF contextVars
  <1> QED BY <1>1, <1>2 DEF ContextInv

\* Between calls, a name of one variable shows what the nesting of blocks says.
LEMMA InvScopesViews == ASSUME ContextInv PROVE ViewIsScoped
  <1> SUFFICES ASSUME NEW t \in Threads, Free(t), NEW n \in Names, OneVariable(n)
               PROVE  Gets(t, {n}) = {[m \in {n} |-> scope[t][n]]}
    BY DEF ViewIsScoped
  <1>1. Held(t, n) = {scope[t][n]} \ {Ellipsis} /\ scope[t][n] \in Bindings
    BY FreeTokens DEF Shows, ContextInv, ContextTypeOK
  <1> DEFINE x == scope[t][n]
             G == {g \in [{n} -> Bindings] :
                     \A m \in {n} : IF Held(t, m) = {} THEN g[m] = Ellipsis ELSE g[m] \in Held(t, m)}
  <1>2. Gets(t, {n}) = G
    BY DEF Gets, Bindings
  <1>3. IF Held(t, n) = {} THEN x = Ellipsis ELSE Held(t, n) = {x}
    BY <1>1
  <1> HIDE DEF x
  <1>4. [m \in {n} |-> x] \in G
    BY <1>1, <1>3 DEF x
  <1>5. ASSUME NEW g \in G PROVE g = [m \in {n} |-> x]
    BY <1>3
  <1> HIDE DEF G
  <1>6. G = {[m \in {n} |-> x]}
    BY <1>4, <1>5
  <1> QED BY <1>2, <1>6 DEF x

-----------------------------------------------------------------------------
(* Context variables of the threads of an application                      *)

UsesContext(t) ==
    \/ Active(t) /\ Operate(t, program.names)
    \/ Continue(t)
    \/ Leave(t)

LEMMA ContextChangesByUse ==
    ASSUME [Next]_vars
    PROVE  \/ UNCHANGED contextVars
           \/ \E t \in Threads : /\ UsesContext(t)
                                 /\ UNCHANGED <<invocationVars, taskVars, flagVars>>
  <1>1. CASE SetInvocationContext \/ MakeExecutor
    BY <1>1 DEF SetInvocationContext, MakeExecutor
  <1>2. ASSUME NEW k \in Tasks, SubmitSingle(k) \/ SubmitMulti(k) PROVE UNCHANGED contextVars
    BY <1>2 DEF SubmitSingle, SubmitMulti, Begin
  <1>3. ASSUME NEW t \in Pool, ThreadInitializer(t) \/ Take(t) PROVE UNCHANGED contextVars
    BY <1>3 DEF ThreadInitializer, Take, Begin
  <1>4. ASSUME NEW t \in Threads, EvaluateFlag(t) \/ FlagRaises(t) \/ Fails(t) \/ Finish(t)
        PROVE  UNCHANGED contextVars
    BY <1>4 DEF EvaluateFlag, FlagRaises, Fails, Finish
  <1>5. ASSUME NEW t \in Threads, UseContext(t) \/ ContinueCall(t) \/ LeaveBlock(t)
        PROVE  UsesContext(t) /\ UNCHANGED <<invocationVars, taskVars, flagVars>>
    BY <1>5 DEF UseContext, ContinueCall, LeaveBlock, UsesContext
  <1>6. CASE UNCHANGED vars
    BY <1>6 DEF vars
  <1> QED BY <1>1, <1>2, <1>3, <1>4, <1>5, <1>6 DEF Next

LEMMA NextContextInv == ProgramInv /\ ContextInv /\ [Next]_vars => ContextInv'
  <1> SUFFICES ASSUME ProgramInv, ContextInv, [Next]_vars PROVE ContextInv'
    OBVIOUS
  <1>1. program.names \in SUBSET Names
    BY ProgramsAssumption DEF ProgramInv
  <1>2. ASSUME NEW t \in Threads, UsesContext(t) PROVE ContextInv'
    <2>1. CASE Operate(t, program.names)
      BY <1>1, <2>1, OperateKeeps
    <2>2. CASE Continue(t)
      BY <2>2, FoundKeeps, NotFoundKeeps, RegisterKeeps DEF Continue
    <2>3. CASE Leave(t)
      BY <2>3, LeaveKeeps
    <2> QED BY <1>2, <2>1, <2>2, <2>3 DEF UsesContext
  <1> QED BY <1>2, ContextChangesByUse, ContextStays

\* The invariant ViewIsScoped, for any threads, names and programs: between its
\* calls a thread sees what the nesting of its own blocks says, of each name
\* that one thread introduced.
THEOREM ViewsAreScoped == Spec => []ViewIsScoped
  <1>1. Init => ProgramInv BY DEF Init, ProgramInv
  <1>2. Init => ContextInv BY InitContextInv DEF Init
  <1> QED BY <1>1, <1>2, NextContextInv, NextProgramInv, InvScopesViews, PTL DEF Spec

-----------------------------------------------------------------------------
(* What a thread leaves behind                                             *)

\* A thread uses its own context, and may introduce names.
Others(t) ==
    \A u \in Threads \ {t} :
        /\ context'[u] = context[u] /\ todo'[u] = todo[u] /\ blocks'[u] = blocks[u]
        /\ token'[u] = token[u] /\ scope'[u] = scope[u]

LEMMA OthersAreLeft ==
    ASSUME ContextTypeOK, NEW t \in Threads, UsesContext(t) PROVE Others(t)
  <1>1. ASSUME NEW kwargs \in Kwargs, Enter(t, kwargs) PROVE Others(t)
    BY <1>1 DEF Enter, Others, ContextTypeOK
  <1>2. ASSUME NEW n, Unset(t, {n}) PROVE Others(t)
    BY <1>2 DEF Unset, Others, ContextTypeOK
  <1>3. ASSUME NEW n, NEW v, SetOne(t, n, v) PROVE Others(t)
    BY <1>3 DEF SetOne, Others, ContextTypeOK
  <1>4. ASSUME NEW p, Clear(t, p) PROVE Others(t)
    BY <1>4 DEF Clear, Others, ContextTypeOK
  <1>5. ASSUME Reset(t) PROVE Others(t)
    <2>1. PICK k \in token[t] :
             \/ /\ context' = [context EXCEPT ![t][k.name][k.var] = k.old]
                /\ scope' = [scope EXCEPT ![t][k.name] = k.outer]
             \/ UNCHANGED <<context, scope>>
      BY <1>5 DEF Reset
    <2> QED BY <1>5, <2>1 DEF Reset, Others, ContextTypeOK
  <1>6. ASSUME NEW c, Put(t, c), UNCHANGED <<blocks, scope>> PROVE Others(t)
    BY <1>6 DEF Put, Others, ContextTypeOK
  <1>7. ASSUME NotFound(t) PROVE Others(t)
    BY <1>7 DEF NotFound, Others, ContextTypeOK
  <1>8. ASSUME Leave(t) PROVE Others(t)
    BY <1>8 DEF Leave, Others, ContextTypeOK
  <1>9. Operate(t, program.names) => Others(t)
    BY <1>1, <1>2, <1>3, <1>4, <1>5 DEF Operate
  <1>10. Continue(t) => Others(t)
    BY <1>6, <1>7 DEF Continue, Found, Register
  <1> QED BY <1>8, <1>9, <1>10 DEF UsesContext

\* Outside of its blocks, a thread sees no name it has not set directly.
NestInv(t) ==
    /\ \A k \in token[t] : <<t, k.name>> \in direct
    /\ \A n \in Names : <<t, n>> \notin direct =>
          /\ (\A i \in DOMAIN blocks[t] : n \notin blocks[t][i].names) => scope[t][n] = Ellipsis
          /\ \A i \in DOMAIN blocks[t] :
                /\ n \in blocks[t][i].names
                /\ \A j \in 1 .. i - 1 : n \notin blocks[t][j].names
                => blocks[t][i].outer[n] = Ellipsis

\* Steps inside a block only set names directly or unset them.
LEMMA NestStays ==
    ASSUME NEW u \in Threads, NestInv(u), blocks'[u] = blocks[u], direct \subseteq direct',
           \A k \in token'[u] : <<u, k.name>> \in direct',
           \A n \in Names : <<u, n>> \notin direct' => scope'[u][n] \in {scope[u][n], Ellipsis}
    PROVE  NestInv(u)'
  <1> SUFFICES ASSUME NEW n \in Names, <<u, n>> \notin direct'
               PROVE  /\ (\A i \in DOMAIN blocks[u] : n \notin blocks[u][i].names) =>
                            scope'[u][n] = Ellipsis
                      /\ \A i \in DOMAIN blocks[u] :
                            /\ n \in blocks[u][i].names
                            /\ \A j \in 1 .. i - 1 : n \notin blocks[u][j].names
                            => blocks[u][i].outer[n] = Ellipsis
    BY DEF NestInv
  <1>1. <<u, n>> \notin direct
    OBVIOUS
  <1> QED BY <1>1 DEF NestInv

LEMMA EnterNests ==
    ASSUME ContextInv, NEW t \in Threads, NestInv(t), NEW kwargs \in Kwargs, Enter(t, kwargs)
    PROVE  NestInv(t)'
  <1> SUFFICES ASSUME NEW bs, bs = blocks[t], NEW S, S = DOMAIN kwargs PROVE NestInv(t)'
    OBVIOUS
  <1>1. PICK b : /\ b.names = S /\ b.outer = Restriction(scope[t], S)
                 /\ blocks' = [blocks EXCEPT ![t] = Append(bs, b)]
    BY DEF Enter
  <1>2. /\ ContextTypeOK /\ UNCHANGED <<token, direct>>
        /\ scope' = [scope EXCEPT ![t] = Update(scope[t], kwargs)]
    BY DEF Enter, ContextInv
  <1>3. bs \in Seq([names : SUBSET Names, saved : Partial, outer : Partial])
    BY <1>2 DEF ContextTypeOK
  <1>4. /\ blocks'[t] = Append(bs, b) /\ DOMAIN bs = 1 .. Len(bs) /\ Len(bs) \in Nat
        /\ DOMAIN blocks'[t] = 1 .. Len(bs) + 1 /\ blocks'[t][Len(bs) + 1] = b
        /\ \A i \in DOMAIN bs : blocks'[t][i] = bs[i]
    BY <1>1, <1>2, <1>3 DEF ContextTypeOK
  <1>5. \A n \in Names : /\ n \notin S => scope'[t][n] = scope[t][n]
                         /\ n \in S => b.outer[n] = scope[t][n]
    BY <1>1, <1>2 DEF ContextTypeOK, Update, Restriction
  <1>6. ASSUME NEW n \in Names, <<t, n>> \notin direct
        PROVE  /\ (\A i \in DOMAIN blocks'[t] : n \notin blocks'[t][i].names) =>
                     scope'[t][n] = Ellipsis
               /\ \A i \in DOMAIN blocks'[t] :
                     /\ n \in blocks'[t][i].names
                     /\ \A j \in 1 .. i - 1 : n \notin blocks'[t][j].names
                     => blocks'[t][i].outer[n] = Ellipsis
    <2>1. (\A i \in DOMAIN bs : n \notin bs[i].names) => scope[t][n] = Ellipsis
      BY <1>6 DEF NestInv
    <2>2. ASSUME \A i \in DOMAIN blocks'[t] : n \notin blocks'[t][i].names
          PROVE  scope'[t][n] = Ellipsis
      <3>1. Len(bs) + 1 \in DOMAIN blocks'[t]
        BY <1>4
      <3>2. n \notin S
        BY <1>1, <1>4, <2>2, <3>1
      <3> QED BY <1>4, <1>5, <2>1, <2>2, <3>2
    <2>3. ASSUME NEW i \in DOMAIN blocks'[t], n \in blocks'[t][i].names,
                 \A j \in 1 .. i - 1 : n \notin blocks'[t][j].names
          PROVE  blocks'[t][i].outer[n] = Ellipsis
      <3>1. CASE i \in DOMAIN bs
        <4>1. \A j \in 1 .. i - 1 : j \in DOMAIN bs
          BY <1>4, <3>1
        <4> QED BY <1>4, <1>6, <2>3, <3>1, <4>1 DEF NestInv
      <3>2. CASE i \notin DOMAIN bs
        <4>1. i = Len(bs) + 1 /\ 1 .. i - 1 = DOMAIN bs
          BY <1>4, <3>2
        <4> QED BY <1>1, <1>4, <1>5, <2>1, <2>3, <4>1
      <3> QED BY <3>1, <3>2
    <2> QED BY <2>2, <2>3
  <1> QED BY <1>2, <1>6 DEF NestInv

LEMMA LeaveNests ==
    ASSUME ContextInv, NEW t \in Threads, NestInv(t), Leave(t)
    PROVE  NestInv(t)'
  <1> SUFFICES ASSUME NEW bs, bs = blocks[t], NEW b, b = Last(bs) PROVE NestInv(t)'
    OBVIOUS
  <1>1. /\ bs # <<>> /\ ContextTypeOK /\ UNCHANGED <<token, direct>>
        /\ scope' = [scope EXCEPT ![t] = Update(scope[t], b.outer)]
        /\ blocks' = [blocks EXCEPT ![t] = Front(bs)]
    BY DEF Leave, ContextInv
  <1>2. bs \in Seq([names : SUBSET Names, saved : Partial, outer : Partial])
    BY <1>1 DEF ContextTypeOK
  <1>3. /\ b = bs[Len(bs)] /\ Len(bs) \in Nat \ {0} /\ Len(bs) \in DOMAIN bs
        /\ Front(bs) \in Seq([names : SUBSET Names, saved : Partial, outer : Partial])
        /\ Len(Front(bs)) = Len(bs) - 1
        /\ \A i \in 1 .. Len(bs) - 1 : Front(bs)[i] = bs[i]
    BY ONLY <1>1, <1>2, b = Last(bs), FrontOfBlocks
  <1>4. /\ blocks'[t] = Front(bs) /\ DOMAIN bs = 1 .. Len(bs)
        /\ DOMAIN blocks'[t] = 1 .. Len(bs) - 1
        /\ \A i \in 1 .. Len(bs) - 1 : blocks'[t][i] = bs[i]
    BY <1>1, <1>2, <1>3 DEF ContextTypeOK
  <1>5. DOMAIN b.outer = b.names
    <2>1. BlocksInv(t)
      BY DEF ContextInv, ThreadInv
    <2> QED BY <1>3, <2>1 DEF BlocksInv
  <1>6. \A n \in Names : scope'[t][n] = IF n \in b.names THEN b.outer[n] ELSE scope[t][n]
    BY <1>1, <1>5 DEF ContextTypeOK, Update
  <1>7. ASSUME NEW n \in Names, <<t, n>> \notin direct
        PROVE  /\ (\A i \in DOMAIN blocks'[t] : n \notin blocks'[t][i].names) =>
                     scope'[t][n] = Ellipsis
               /\ \A i \in DOMAIN blocks'[t] :
                     /\ n \in blocks'[t][i].names
                     /\ \A j \in 1 .. i - 1 : n \notin blocks'[t][j].names
                     => blocks'[t][i].outer[n] = Ellipsis
    <2>1. ASSUME \A i \in DOMAIN blocks'[t] : n \notin blocks'[t][i].names
          PROVE  scope'[t][n] = Ellipsis
      <3>1. \A i \in 1 .. Len(bs) - 1 : n \notin bs[i].names
        BY <1>4, <2>1
      <3>2. CASE n \in b.names
        <4>1. bs[Len(bs)].outer[n] = Ellipsis
          <5>1. n \in bs[Len(bs)].names
            BY <1>3, <3>2
          <5> QED BY <1>3, <1>7, <3>1, <5>1 DEF NestInv
        <4> QED BY <1>3, <1>6, <3>2, <4>1
      <3>3. CASE n \notin b.names
        <4>1. \A i \in DOMAIN bs : n \notin bs[i].names
          BY <1>3, <1>4, <3>1, <3>3
        <4> QED BY <1>6, <1>7, <3>3, <4>1 DEF NestInv
      <3> QED BY <3>2, <3>3
    <2>2. ASSUME NEW i \in DOMAIN blocks'[t], n \in blocks'[t][i].names,
                 \A j \in 1 .. i - 1 : n \notin blocks'[t][j].names
          PROVE  blocks'[t][i].outer[n] = Ellipsis
      <3>1. /\ i \in DOMAIN bs /\ blocks'[t][i] = bs[i]
            /\ \A j \in 1 .. i - 1 : j \in 1 .. Len(bs) - 1
        BY <1>3, <1>4
      <3>2. n \in bs[i].names /\ \A j \in 1 .. i - 1 : n \notin bs[j].names
        BY <1>4, <2>2, <3>1
      <3>3. bs[i].outer[n] = Ellipsis
        BY <1>7, <3>1, <3>2 DEF NestInv
      <3> QED BY <3>1, <3>3
    <2> QED BY <2>1, <2>2
  <1> QED BY <1>1, <1>7 DEF NestInv

LEMMA UsesNest ==
    ASSUME ContextInv, NEW t \in Threads, NestInv(t), program.names \in SUBSET Names,
           UsesContext(t)
    PROVE  NestInv(t)'
  <1>t. ContextTypeOK /\ \A k \in token[t] : <<t, k.name>> \in direct
    BY DEF ContextInv, NestInv
  <1>1. ASSUME NEW n \in Names, Unset(t, {n}) PROVE NestInv(t)'
    <2>1. \A m \in Names : scope'[t][m] \in {scope[t][m], Ellipsis}
      BY <1>1, <1>t DEF Unset, ContextTypeOK, Update
    <2> QED BY <1>1, <1>t, <2>1, NestStays DEF Unset
  <1>2. ASSUME NEW n \in Names, NEW v \in Values, SetOne(t, n, v) PROVE NestInv(t)'
    <2>1. \A m \in Names \ {n} : scope'[t][m] = scope[t][m]
      BY <1>2, <1>t DEF SetOne, ContextTypeOK
    <2>2. direct' = direct \cup {<<t, n>>} /\ blocks'[t] = blocks[t]
      BY <1>2 DEF SetOne
    <2>3. \A k \in token'[t] : k.name = n
      BY <1>2, <1>t DEF SetOne, ContextTypeOK
    <2> QED BY <1>t, <2>1, <2>2, <2>3, NestStays
  <1>3. ASSUME NEW p, Clear(t, p) PROVE NestInv(t)'
    <2>1. \A m \in Names : scope'[t][m] \in {scope[t][m], Ellipsis}
      BY <1>3, <1>t DEF Clear, ContextTypeOK, Update
    <2> QED BY <1>3, <1>t, <2>1, NestStays DEF Clear
  <1>4. ASSUME Reset(t) PROVE NestInv(t)'
    <2>1. token'[t] = {} /\ UNCHANGED <<blocks, direct>>
      BY <1>4, <1>t DEF Reset, ContextTypeOK
    <2>2. PICK k \in token[t] : \/ scope' = [scope EXCEPT ![t][k.name] = k.outer]
                               \/ UNCHANGED scope
      BY <1>4 DEF Reset
    <2>3. \A m \in Names \ {k.name} : scope'[t][m] = scope[t][m]
      BY <1>t, <2>2 DEF ContextTypeOK
    <2> QED BY <1>t, <2>1, <2>3, NestStays
  <1>5. ASSUME NEW c \in Threads, Put(t, c), UNCHANGED <<blocks, scope, direct>>
        PROVE  NestInv(t)'
    <2>1. ASSUME NEW k \in token'[t] PROVE \E j \in token[t] : k.name = j.name
      <3> DEFINE Changed(j) == IF j.name = Head(todo[t]).name /\ j.var = NoOne
                               THEN [j EXCEPT !.var = c, !.old = context[t][Head(todo[t]).name][c]]
                               ELSE j
      <3>1. token' = [token EXCEPT ![t] = {Changed(j) : j \in token[t]}]
        BY <1>5 DEF Put
      <3>2. \A j \in token[t] : Changed(j).name = j.name
        <4> SUFFICES ASSUME NEW j \in token[t] PROVE Changed(j).name = j.name
          OBVIOUS
        <4>1. j \in [name : Names, var : Threads \cup {NoOne}, old : Bindings, outer : Bindings]
          BY <1>t DEF ContextTypeOK
        <4> QED BY <4>1
      <3> HIDE DEF Changed
      <3>3. token'[t] = {Changed(j) : j \in token[t]}
        BY <1>t, <3>1 DEF ContextTypeOK
      <3> QED BY <2>1, <3>2, <3>3
    <2> QED BY <1>5, <1>t, <2>1, NestStays
  <1>6. ASSUME NotFound(t) PROVE NestInv(t)'
    BY <1>6, <1>t, NestStays DEF NotFound
  <1>7. Operate(t, program.names) => NestInv(t)'
    BY <1>1, <1>2, <1>3, <1>4, EnterNests DEF Operate
  <1>8. Found(t) => NestInv(t)'
    <2> SUFFICES ASSUME Found(t) PROVE NestInv(t)'
      OBVIOUS
    <2>1. todo[t] \in Seq(Assignments) /\ todo[t] # <<>>
      BY <1>t DEF ContextTypeOK, Found
    <2>2. Head(todo[t]) \in Assignments
      BY <2>1
    <2>3. registry[Head(todo[t]).name] \in Threads
      BY <1>t, <2>2 DEF Found, Assignments, ContextTypeOK
    <2> QED BY <1>5, <2>3 DEF Found
  <1>9. Register(t) => NestInv(t)'
    BY <1>5 DEF Register
  <1> QED BY <1>6, <1>7, <1>8, <1>9, LeaveNests DEF UsesContext, Continue

LEMMA NextNestInv ==
    ASSUME ProgramInv, ContextInv, \A t \in Threads : NestInv(t), [Next]_vars
    PROVE  \A t \in Threads : NestInv(t)'
  <1>1. CASE UNCHANGED contextVars
    BY <1>1 DEF contextVars, NestInv
  <1>2. ASSUME NEW t \in Threads, UsesContext(t), NEW u \in Threads PROVE NestInv(u)'
    <2>1. program.names \in SUBSET Names
      BY ProgramsAssumption DEF ProgramInv
    <2>2. CASE u = t
      BY <1>2, <2>1, <2>2, UsesNest
    <2>3. CASE u # t
      <3>1. ContextTypeOK /\ Others(t) /\ direct \subseteq direct'
        <4>1. direct \subseteq direct'
          BY <1>2 DEF UsesContext, Operate, Enter, Unset, SetOne, Reset, Clear,
                      Continue, Found, NotFound, Register, Leave
        <4> QED BY <1>2, <4>1, OthersAreLeft DEF ContextInv
      <3> QED BY <2>3, <3>1, NestStays DEF Others, NestInv
    <2> QED BY <2>2, <2>3
  <1> QED BY <1>1, <1>2, ContextChangesByUse

-----------------------------------------------------------------------------
(* Tasks, their threads and their futures                                  *)

TaskTypeOK ==
    /\ running \in [Threads -> Tasks \cup {None}] /\ queue \in Seq(Tasks)
    /\ future \in [Tasks -> {"none", "pending", "result", "exception"}]
    /\ base \in [Threads -> Nat]
    /\ failing \in [Threads -> {"no", "exception", "interrupt"}]
    /\ pool \in [Pool -> {"unstarted", "starting", "ready"}]
    /\ executor \in {"none", "single", "multi"}
    /\ invocation \in [Threads -> Nat] /\ captured \in Nat /\ begun \in Nat

\* A thread of the pool is in the executor's invocation when it is ready, and is
\* in no call or block between tasks.
PoolInv ==
    /\ executor # "multi" => queue = <<>> /\ \A t \in Pool : pool[t] = "unstarted"
    /\ \A t \in Pool : pool[t] = "ready" => invocation[t] = captured
    /\ \A t \in Pool : InTask(t) => pool[t] = "ready"
    /\ \A t \in Pool : base[t] = 0
    /\ \A t \in Pool : ~InTask(t) => todo[t] = <<>> /\ blocks[t] = <<>>

Kept(k) ==
    \/ \E i \in DOMAIN queue : queue[i] = k
    \/ \E t \in Threads : running[t] = k
    \/ executor = "single" /\ failing[Main] = "interrupt"

\* What is raised through a task finds no flag being evaluated in its thread, and
\* an interrupt that a future does not get is raised in the application's own.
FutureInv ==
    /\ InTask(Main) => executor = "single"
    /\ \A t \in Threads : failing[t] # "no" => evaluating[t] = <<>>
    /\ \A k \in Tasks : future[k] = "pending" => Kept(k)

TaskInv == TaskTypeOK /\ PoolInv /\ FutureInv

LEMMA ThreadsOfPool == Main \in Threads /\ Main \notin Pool /\ Pool \subseteq Threads /\ None \notin Tasks
  BY MainAssumption, TasksAssumption DEF Pool

LEMMA InitTaskInv == Init => TaskInv
  <1> SUFFICES ASSUME Init PROVE TaskInv
    OBVIOUS
  <1>1. TaskTypeOK
    BY DEF Init, TaskTypeOK
  <1>2. PoolInv
    BY ThreadsOfPool DEF Init, PoolInv, InTask, InitContextVars
  <1>3. FutureInv
    BY ThreadsOfPool DEF Init, FutureInv, InTask
  <1> QED BY <1>1, <1>2, <1>3 DEF TaskInv

LEMMA InvocationsKeepTasks ==
    ASSUME TaskInv, SetInvocationContext \/ MakeExecutor PROVE TaskInv'
  <1>1. CASE SetInvocationContext
    <2>1. TaskTypeOK'
      <3>1. /\ begun' = begun + 1 /\ invocation' = [invocation EXCEPT ![Main] = begun + 1]
            /\ UNCHANGED <<executor, captured, pool, queue, running, base, failing, future>>
        BY <1>1 DEF SetInvocationContext, taskVars
      <3>2. begun + 1 \in Nat
        BY DEF TaskInv, TaskTypeOK
      <3> QED BY <3>1, <3>2 DEF TaskInv, TaskTypeOK
    <2>2. PoolInv'
      BY <1>1, ThreadsOfPool
         DEF SetInvocationContext, TaskInv, TaskTypeOK, PoolInv, InTask, taskVars, contextVars
    <2>3. FutureInv'
      BY <1>1 DEF SetInvocationContext, TaskInv, FutureInv, Kept, InTask, taskVars, flagVars
    <2> QED BY <2>1, <2>2, <2>3 DEF TaskInv
  <1>2. CASE MakeExecutor
    <2>1. /\ ~InTask(Main) /\ executor = "none" /\ executor' \in {"single", "multi"}
          /\ captured' \in {captured, invocation[Main]}
          /\ UNCHANGED <<begun, invocation, pool, queue, running, base, failing, future,
                         contextVars, flagVars>>
      BY <1>2 DEF MakeExecutor, CallerIsFree, invocationVars
    <2>2. TaskTypeOK'
      BY <2>1, ThreadsOfPool DEF TaskInv, TaskTypeOK
    <2>3. PoolInv'
      BY <2>1 DEF TaskInv, PoolInv, InTask, contextVars
    <2>4. FutureInv'
      BY <2>1 DEF TaskInv, FutureInv, Kept, InTask, flagVars
    <2> QED BY <2>2, <2>3, <2>4 DEF TaskInv
  <1> QED BY <1>1, <1>2

\* A thread begins a task.
LEMMA BeginKeepsTypes ==
    ASSUME TaskTypeOK, ContextTypeOK, NEW t \in Threads, NEW k \in Tasks, Begin(t, k)
    PROVE  /\ running' \in [Threads -> Tasks \cup {None}] /\ base' \in [Threads -> Nat]
           /\ running'[t] = k /\ base'[t] = Len(blocks[t])
           /\ \A u \in Threads \ {t} : running'[u] = running[u] /\ base'[u] = base[u]
  <1>1. Len(blocks[t]) \in Nat
    BY DEF ContextTypeOK
  <1> QED BY <1>1 DEF TaskTypeOK, Begin

LEMMA SubmitKeepsTasks ==
    ASSUME TaskInv, ContextTypeOK, NEW k \in Tasks, SubmitSingle(k) \/ SubmitMulti(k)
    PROVE  TaskInv'
  <1>1. CASE SubmitSingle(k)
    <2>1. /\ ~InTask(Main) /\ executor = "single" /\ Begin(Main, k)
          /\ future' = [future EXCEPT ![k] = "pending"]
          /\ UNCHANGED <<executor, captured, invocation, begun, failing, pool, queue, contextVars,
                         flagVars>>
      BY <1>1 DEF SubmitSingle, CallerIsFree, Begin, invocationVars
    <2>2. /\ running' \in [Threads -> Tasks \cup {None}] /\ base' \in [Threads -> Nat]
          /\ running'[Main] = k /\ base'[Main] = Len(blocks[Main])
          /\ \A u \in Threads \ {Main} : running'[u] = running[u] /\ base'[u] = base[u]
      BY <2>1, ThreadsOfPool, BeginKeepsTypes DEF TaskInv
    <2>3. TaskTypeOK'
      BY <2>1, <2>2 DEF TaskInv, TaskTypeOK
    <2>4. PoolInv'
      BY <2>1, <2>2, ThreadsOfPool DEF TaskInv, PoolInv, InTask, contextVars
    <2>5. FutureInv'
      <3>1. ASSUME NEW j \in Tasks, future'[j] = "pending" PROVE Kept(j)'
        <4>1. CASE j = k
          BY <2>2, <4>1, ThreadsOfPool DEF Kept
        <4>2. CASE j # k
          <5>1. Kept(j)
            BY <2>1, <3>1, <4>2 DEF TaskInv, TaskTypeOK, FutureInv
          <5>2. running[Main] = None /\ j # None
            BY <2>1, ThreadsOfPool DEF InTask
          <5> QED BY <2>1, <2>2, <5>1, <5>2 DEF Kept
        <4> QED BY <4>1, <4>2
      <3> QED BY <2>1, <3>1 DEF TaskInv, FutureInv, flagVars
    <2> QED BY <2>3, <2>4, <2>5 DEF TaskInv
  <1>2. CASE SubmitMulti(k)
    <2>1. /\ ~InTask(Main) /\ executor = "multi"
          /\ future' = [future EXCEPT ![k] = "pending"] /\ queue' = Append(queue, k)
          /\ UNCHANGED <<executor, captured, invocation, begun, running, base, failing,
                         contextVars, flagVars>>
      BY <1>2 DEF SubmitMulti, CallerIsFree, invocationVars
    <2>2. \/ \E t \in Pool : pool[t] = "unstarted" /\ pool' = [pool EXCEPT ![t] = "starting"]
          \/ UNCHANGED pool
      BY <1>2 DEF SubmitMulti
    <2>3. TaskTypeOK'
      <3>1. queue' \in Seq(Tasks)
        BY <2>1 DEF TaskInv, TaskTypeOK
      <3>2. pool' \in [Pool -> {"unstarted", "starting", "ready"}]
        BY <2>2 DEF TaskInv, TaskTypeOK
      <3> QED BY <2>1, <3>1, <3>2 DEF TaskInv, TaskTypeOK
    <2>4. \A t \in Pool : pool'[t] = "ready" <=> pool[t] = "ready"
      BY <2>2 DEF TaskInv, TaskTypeOK
    <2>5. PoolInv'
      BY <2>1, <2>4 DEF TaskInv, PoolInv, InTask, contextVars
    <2>6. FutureInv'
      <3>1. /\ queue \in Seq(Tasks) /\ Len(queue) + 1 \in DOMAIN queue'
            /\ queue'[Len(queue) + 1] = k
            /\ \A i \in DOMAIN queue : i \in DOMAIN queue' /\ queue'[i] = queue[i]
        BY <2>1 DEF TaskInv, TaskTypeOK
      <3>2. ASSUME NEW j \in Tasks, future'[j] = "pending" PROVE Kept(j)'
        <4>1. CASE j = k
          BY <3>1, <4>1 DEF Kept
        <4>2. CASE j # k
          <5>1. Kept(j)
            BY <2>1, <3>2, <4>2 DEF TaskInv, TaskTypeOK, FutureInv
          <5> QED BY <2>1, <3>1, <5>1 DEF Kept
        <4> QED BY <4>1, <4>2
      <3> QED BY <2>1, <3>2 DEF TaskInv, FutureInv, InTask, flagVars
    <2> QED BY <2>3, <2>5, <2>6 DEF TaskInv
  <1> QED BY <1>1, <1>2

LEMMA PoolKeepsTasks ==
    ASSUME TaskInv, ContextTypeOK, NEW t \in Pool, ThreadInitializer(t) \/ Take(t)
    PROVE  TaskInv'
  <1>1. CASE ThreadInitializer(t)
    <2>1. /\ pool[t] = "starting" /\ pool' = [pool EXCEPT ![t] = "ready"]
          /\ invocation' = [invocation EXCEPT ![t] = captured]
          /\ UNCHANGED <<begun, executor, captured, queue, running, base, failing, future,
                         contextVars, flagVars>>
      BY <1>1 DEF ThreadInitializer
    <2>2. TaskTypeOK'
      BY <2>1, ThreadsOfPool DEF TaskInv, TaskTypeOK
    <2>3. PoolInv'
      BY <2>1, ThreadsOfPool DEF TaskInv, TaskTypeOK, PoolInv, InTask, contextVars
    <2>4. FutureInv'
      BY <2>1 DEF TaskInv, FutureInv, Kept, InTask, flagVars
    <2> QED BY <2>2, <2>3, <2>4 DEF TaskInv
  <1>2. CASE Take(t)
    <2> SUFFICES ASSUME NEW k, k = Head(queue) PROVE TaskInv'
      OBVIOUS
    <2>1. /\ pool[t] = "ready" /\ ~InTask(t) /\ queue # <<>> /\ queue' = Tail(queue)
          /\ Begin(t, k)
          /\ UNCHANGED <<begun, invocation, executor, captured, failing, pool, future,
                         contextVars, flagVars>>
      BY <1>2 DEF Take, Begin, invocationVars
    <2>2. /\ queue \in Seq(Tasks) /\ k \in Tasks /\ k = queue[1] /\ queue' \in Seq(Tasks)
          /\ \A i \in DOMAIN queue : i # 1 => i - 1 \in DOMAIN queue' /\ queue'[i - 1] = queue[i]
      <3>1. queue \in Seq(Tasks) /\ queue # <<>>
        BY <2>1 DEF TaskInv, TaskTypeOK
      <3>2. /\ k = queue[1] /\ k \in Tasks /\ queue' \in Seq(Tasks)
            /\ Len(queue') = Len(queue) - 1 /\ Len(queue) \in Nat
            /\ DOMAIN queue = 1 .. Len(queue) /\ DOMAIN queue' = 1 .. Len(queue')
            /\ \A i \in 1 .. Len(queue') : queue'[i] = queue[i + 1]
        BY <2>1, <3>1, HeadTailProperties
      <3>3. ASSUME NEW i \in DOMAIN queue, i # 1
            PROVE  i - 1 \in DOMAIN queue' /\ queue'[i - 1] = queue[i]
        <4>1. i - 1 \in 1 .. Len(queue') /\ (i - 1) + 1 = i
          BY <3>2, <3>3
        <4> QED BY <3>2, <4>1
      <3> QED BY <3>1, <3>2, <3>3
    <2>3. /\ running' \in [Threads -> Tasks \cup {None}] /\ base' \in [Threads -> Nat]
          /\ running'[t] = k /\ base'[t] = Len(blocks[t])
          /\ \A u \in Threads \ {t} : running'[u] = running[u] /\ base'[u] = base[u]
      BY <2>1, <2>2, ThreadsOfPool, BeginKeepsTypes DEF TaskInv
    <2>4. TaskTypeOK'
      BY <2>1, <2>2, <2>3 DEF TaskInv, TaskTypeOK
    <2>5. PoolInv'
      <3>1. executor = "multi" /\ blocks[t] = <<>>
        BY <2>1 DEF TaskInv, TaskTypeOK, PoolInv
      <3>2. base'[t] = 0
        BY <2>3, <3>1
      <3> QED BY <2>1, <2>3, <3>1, <3>2, ThreadsOfPool DEF TaskInv, PoolInv, InTask, contextVars
    <2>6. FutureInv'
      <3>1. ASSUME NEW j \in Tasks, future'[j] = "pending" PROVE Kept(j)'
        <4>1. Kept(j)
          BY <2>1, <3>1 DEF TaskInv, FutureInv
        <4>2. CASE j = k
          BY <2>3, <4>2, ThreadsOfPool DEF Kept
        <4>3. CASE j # k
          <5>1. running[t] # j
            BY <2>1, ThreadsOfPool DEF InTask
          <5> QED BY <2>1, <2>2, <2>3, <4>1, <4>3, <5>1 DEF Kept
        <4> QED BY <4>2, <4>3
      <3>2. InTask(Main)' <=> InTask(Main)
        BY <2>3, ThreadsOfPool DEF InTask
      <3> QED BY <2>1, <3>1, <3>2 DEF TaskInv, FutureInv, flagVars
    <2> QED BY <2>4, <2>5, <2>6 DEF TaskInv
  <1> QED BY <1>1, <1>2

LEMMA UseKeepsTasks ==
    ASSUME TaskInv, ContextTypeOK, NEW t \in Threads, UsesContext(t),
           UNCHANGED <<invocationVars, taskVars, flagVars>>
    PROVE  TaskInv'
  <1>1. /\ UNCHANGED <<begun, invocation, executor, captured, pool, queue, running, base, failing,
                       future, evaluating>>
        /\ Others(t)
    BY OthersAreLeft DEF invocationVars, taskVars, flagVars
  <1>2. TaskTypeOK'
    BY <1>1 DEF TaskInv, TaskTypeOK
  <1>3. PoolInv'
    <2>1. ASSUME t \in Pool PROVE InTask(t)
      <3>1. Active(t) \/ todo[t] # <<>> \/ blocks[t] # <<>>
        BY DEF UsesContext, Continue, Found, NotFound, Register, Leave
      <3> QED BY <2>1, <3>1, ThreadsOfPool DEF Active, InTask, TaskInv, PoolInv
    <2>2. ASSUME NEW u \in Pool, ~InTask(u)' PROVE todo'[u] = <<>> /\ blocks'[u] = <<>>
      <3>1. ~InTask(u)
        BY <1>1, <2>2 DEF InTask
      <3>2. u # t /\ u \in Threads
        BY <2>1, <3>1, ThreadsOfPool
      <3> QED BY <1>1, <3>1, <3>2 DEF Others, TaskInv, PoolInv
    <2> QED BY <1>1, <2>2 DEF TaskInv, PoolInv, InTask
  <1>4. FutureInv'
    BY <1>1 DEF TaskInv, FutureInv, Kept, InTask
  <1> QED BY <1>2, <1>3, <1>4 DEF TaskInv

LEMMA EvaluationKeepsTasks ==
    ASSUME TaskInv, PhaseInv, NEW t \in Threads, EvaluateFlag(t) \/ FlagRaises(t)
    PROVE  TaskInv'
  <1>1. /\ UNCHANGED <<begun, invocation, executor, captured, pool, queue, running, base, future,
                       todo, blocks>>
        /\ failing[t] = "no"
        /\ \/ UNCHANGED failing
           \/ failing' = [failing EXCEPT ![t] = "exception"] /\ evaluating'[t] = <<>>
    <2>1. CASE EvaluateFlag(t)
      BY <2>1 DEF EvaluateFlag, invocationVars, taskVars, contextVars
    <2>2. CASE FlagRaises(t)
      <3>1. evaluating[t] # <<>>
        BY <2>2 DEF FlagRaises, FireRaises, IsAt
      <3>2. failing[t] = "no"
        BY <3>1 DEF TaskInv, FutureInv
      <3>3. [failing EXCEPT ![t] = failing[t]] = failing
        BY DEF TaskInv, TaskTypeOK
      <3> QED BY <2>2, <3>2, <3>3 DEF FlagRaises, invocationVars, contextVars
    <2> QED BY <2>1, <2>2
  <1>e. \A u \in Threads \ {t} : evaluating'[u] = evaluating[u]
    <2>1. evaluating \in [Threads -> Seq(Evaluations)]
      BY MainAssumption DEF PhaseInv
    <2>2. \E n : evaluating' = [evaluating EXCEPT ![t] = n]
      BY DEF EvaluateFlag, FlagRaises, Check, Evaluate, Fire, FireRaises, Mark, Return
    <2> QED BY <2>1, <2>2
  <1>2. \A u \in Threads \ {t} : evaluating'[u] = evaluating[u] /\ failing'[u] = failing[u]
    BY <1>1, <1>e DEF TaskInv, TaskTypeOK
  <1>3. failing'[t] # "no" => evaluating'[t] = <<>>
    BY <1>1
  <1>4. TaskTypeOK'
    BY <1>1 DEF TaskInv, TaskTypeOK
  <1>5. PoolInv'
    BY <1>1 DEF TaskInv, PoolInv, InTask
  <1>6. FutureInv'
    <2>1. failing[Main] = "interrupt" => failing'[Main] = "interrupt"
      BY <1>1, <1>2, ThreadsOfPool
    <2> QED BY <1>1, <1>2, <1>3, <2>1 DEF TaskInv, FutureInv, Kept, InTask
  <1> QED BY <1>4, <1>5, <1>6 DEF TaskInv

LEMMA FailureKeepsTasks ==
    ASSUME TaskInv, NEW t \in Threads, Fails(t) PROVE TaskInv'
  <1>1. /\ evaluating[t] = <<>> /\ failing[t] = "no"
        /\ failing' \in {[failing EXCEPT ![t] = "exception"], [failing EXCEPT ![t] = "interrupt"]}
        /\ UNCHANGED <<begun, invocation, executor, captured, pool, queue, running, base, future,
                       evaluating, todo, blocks>>
    BY DEF Fails, Quiet, invocationVars, contextVars, flagVars
  <1>2. TaskTypeOK'
    BY <1>1 DEF TaskInv, TaskTypeOK
  <1>3. PoolInv'
    BY <1>1 DEF TaskInv, PoolInv, InTask
  <1>4. FutureInv'
    <2>1. \A u \in Threads \ {t} : failing'[u] = failing[u]
      BY <1>1 DEF TaskInv, TaskTypeOK
    <2>2. failing[Main] = "interrupt" => failing'[Main] = "interrupt"
      BY <1>1, <2>1, ThreadsOfPool
    <2> QED BY <1>1, <2>1, <2>2 DEF TaskInv, FutureInv, Kept, InTask
  <1> QED BY <1>2, <1>3, <1>4 DEF TaskInv

LEMMA FinishKeepsTasks ==
    ASSUME TaskInv, ContextTypeOK, NEW t \in Threads, Finish(t) PROVE TaskInv'
  <1>1. /\ InTask(t) /\ todo[t] = <<>> /\ Len(blocks[t]) = base[t]
        /\ running' = [running EXCEPT ![t] = None] /\ base' = [base EXCEPT ![t] = 0]
        /\ UNCHANGED <<begun, invocation, executor, captured, pool, queue, evaluating, todo, blocks>>
    BY DEF Finish, Free, invocationVars, contextVars, flagVars
  <1>2. \/ t = Main /\ failing[t] = "interrupt" /\ UNCHANGED <<future, failing>>
        \/ /\ ~(t = Main /\ failing[t] = "interrupt")
           /\ \/ future' = [future EXCEPT ![running[t]] = "result"]
              \/ future' = [future EXCEPT ![running[t]] = "exception"]
           /\ failing' = [failing EXCEPT ![t] = "no"]
    BY DEF Finish
  <1>3. running[t] \in Tasks
    BY <1>1 DEF TaskInv, TaskTypeOK, InTask
  <1>4. /\ running'[t] = None /\ base'[t] = 0
        /\ \A u \in Threads \ {t} : running'[u] = running[u] /\ base'[u] = base[u]
    BY <1>1 DEF TaskInv, TaskTypeOK
  <1>5. TaskTypeOK'
    BY <1>1, <1>2, <1>3 DEF TaskInv, TaskTypeOK
  <1>6. PoolInv'
    <2>1. t \in Pool => blocks[t] = <<>>
      BY <1>1 DEF TaskInv, PoolInv, ContextTypeOK
    <2> QED BY <1>1, <1>4, <2>1, ThreadsOfPool DEF TaskInv, PoolInv, InTask
  <1>7. FutureInv'
    <2>1. \A u \in Threads : failing'[u] \in {failing[u], "no"}
      BY <1>2 DEF TaskInv, TaskTypeOK
    <2>2. InTask(Main)' => InTask(Main)
      BY <1>4, ThreadsOfPool DEF InTask
    <2>3. CASE t = Main /\ failing[t] = "interrupt"
      <3>1. executor = "single" /\ failing'[Main] = "interrupt"
        BY <1>1, <1>2, <2>3 DEF TaskInv, FutureInv
      <3> QED BY <1>1, <2>1, <2>2, <3>1 DEF TaskInv, FutureInv, Kept
    <2>4. CASE ~(t = Main /\ failing[t] = "interrupt")
      <3>1. ASSUME NEW k \in Tasks, future'[k] = "pending" PROVE Kept(k)'
        <4>1. k # running[t] /\ future[k] = "pending"
          BY <1>2, <1>3, <2>4, <3>1 DEF TaskInv, TaskTypeOK
        <4>2. failing[Main] = "interrupt" => failing'[Main] = "interrupt"
          BY <1>2, <2>4, ThreadsOfPool DEF TaskInv, TaskTypeOK
        <4>3. Kept(k)
          BY <4>1 DEF TaskInv, FutureInv
        <4> QED BY <1>1, <1>4, <4>1, <4>2, <4>3 DEF Kept
      <3> QED BY <1>1, <2>1, <2>2, <3>1 DEF TaskInv, FutureInv
    <2> QED BY <2>3, <2>4
  <1> QED BY <1>5, <1>6, <1>7 DEF TaskInv

LEMMA NextTaskInv == TaskInv /\ ContextInv /\ FlagInv /\ [Next]_vars => TaskInv'
  <1> SUFFICES ASSUME TaskInv, ContextInv, FlagInv, [Next]_vars PROVE TaskInv'
    OBVIOUS
  <1>t. ContextTypeOK /\ PhaseInv
    BY DEF ContextInv, FlagInv
  <1>1. ASSUME NEW t \in Threads, UseContext(t) \/ ContinueCall(t) \/ LeaveBlock(t)
        PROVE  TaskInv'
    <2>1. UsesContext(t) /\ UNCHANGED <<invocationVars, taskVars, flagVars>>
      BY <1>1 DEF UseContext, ContinueCall, LeaveBlock, UsesContext
    <2> QED BY <1>t, <2>1, UseKeepsTasks
  <1>2. CASE UNCHANGED vars
    <2>1. TaskTypeOK'
      BY <1>2 DEF TaskInv, TaskTypeOK, vars, taskVars, invocationVars
    <2>2. PoolInv'
      BY <1>2 DEF TaskInv, PoolInv, InTask, vars, taskVars, invocationVars, contextVars
    <2>3. FutureInv'
      BY <1>2 DEF TaskInv, FutureInv, Kept, InTask, vars, taskVars, flagVars
    <2> QED BY <2>1, <2>2, <2>3 DEF TaskInv
  <1> QED BY <1>t, <1>1, <1>2, InvocationsKeepTasks, SubmitKeepsTasks, PoolKeepsTasks,
             EvaluationKeepsTasks, FailureKeepsTasks, FinishKeepsTasks DEF Next

\* Between tasks a thread of the pool is in no block: what it has not set
\* directly is Ellipsis in its scope, which is what it shows.
LEMMA InvIsolates ==
    ASSUME TaskInv, ContextInv, \A t \in Threads : NestInv(t) PROVE TasksAreIsolated
  <1>1. ASSUME NEW t \in Pool, InTask(t) PROVE invocation[t] = captured
    BY <1>1 DEF TaskInv, PoolInv
  <1>2. ASSUME NEW t \in Pool, NEW n \in Names, ~InTask(t), OneVariable(n), <<t, n>> \notin direct
        PROVE  Held(t, n) = {}
    <2>1. t \in Threads /\ todo[t] = <<>> /\ blocks[t] = <<>>
      BY <1>2, ThreadsOfPool DEF TaskInv, PoolInv
    <2>2. scope[t][n] = Ellipsis
      <3>1. \A i \in DOMAIN blocks[t] : n \notin blocks[t][i].names
        BY <2>1
      <3> QED BY <1>2, <2>1, <3>1 DEF NestInv
    <2>3. Shows(t, n, scope[t][n])
      BY <1>2, <2>1, FreeTokens DEF Free
    <2> QED BY <2>2, <2>3 DEF Shows
  <1>3. ASSUME NEW k \in Tasks, future[k] = "pending"
        PROVE  \/ \E i \in DOMAIN queue : queue[i] = k
               \/ \E t \in Threads : running[t] = k
               \/ executor = "single" /\ failing[Main] = "interrupt"
    BY <1>3 DEF TaskInv, FutureInv, Kept
  <1> QED BY <1>1, <1>2, <1>3 DEF TasksAreIsolated

\* The invariant TasksAreIsolated, for any threads, names, tasks and programs: a
\* task of the pool runs in its executor's invocation, leaves nothing of its
\* blocks to the next task of its thread, and its outcome is in its future.
THEOREM TasksStayIsolated == Spec => []TasksAreIsolated
  <1> DEFINE Nested == \A t \in Threads : NestInv(t)
             IInv == ProgramInv /\ FlagInv /\ ContextInv /\ Nested /\ TaskInv
  <1>1. Init => IInv
    <2>1. Init => ProgramInv BY DEF Init, ProgramInv
    <2>2. Init => ContextInv BY InitContextInv DEF Init
    <2>3. Init => Nested BY DEF Init, InitContextVars, NestInv
    <2> QED BY <2>1, <2>2, <2>3, InitFlagInv, InitTaskInv
  <1>2. IInv /\ [Next]_vars => IInv'
    BY NextProgramInv, NextFlagInv, NextContextInv, NextNestInv, NextTaskInv
  <1>3. IInv => TasksAreIsolated
    BY InvIsolates
  <1> HIDE DEF IInv
  <1> QED BY <1>1, <1>2, <1>3, PTL DEF Spec
=============================================================================
