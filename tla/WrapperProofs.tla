--------------------------- MODULE WrapperProofs ----------------------------
(***************************************************************************)
(* Proofs about RecordWrapper, and about it within RecordReplay: which      *)
(* calls are recorded, and that a program can be replayed from a recording  *)
(* that is intact, for any contexts, params, kinds of call and bounds.      *)
(***************************************************************************)
EXTENDS RecordReplay, SequenceTheorems, FiniteSetTheorems, WellFoundedInduction, TLAPS

\* The stacks, flags, records and ended calls are what the wrapper's code makes them.
WrapperTypeOK ==
    /\ stack \in [Contexts -> Seq(Frame)]
    /\ flag \in [Contexts -> BOOLEAN]
    /\ recording \in Seq(Entry)
    /\ calls \in Nat
    /\ ended \subseteq Ended

\* The number of a call names one call: no two frames have it, in one context
\* or in two, and a call that is over is not running.
CallsAreDistinct ==
    /\ \A c \in Contexts : \A i \in 1 .. Len(stack[c]) : stack[c][i].call \in 1 .. calls
    /\ \A c, d \in Contexts : \A i \in 1 .. Len(stack[c]), j \in 1 .. Len(stack[d]) :
          stack[c][i].call = stack[d][j].call => c = d /\ i = j
    /\ \A e \in ended :
          /\ e.call \in 1 .. calls
          /\ \A c \in Contexts : \A i \in 1 .. Len(stack[c]) : stack[c][i].call # e.call
    /\ \A e, f \in ended : e.call = f.call => e = f

\* A frame that will add a record is the lowest one on its stack that could;
\* and where the flag is down no frame could.
FlagGuards ==
    \A c \in Contexts :
        /\ \A i \in 1 .. Len(stack[c]) : stack[c][i].records =>
              Recordable(stack[c][i]) /\ \A j \in 1 .. i - 1 : ~Recordable(stack[c][j])
        /\ ~flag[c] => \A i \in 1 .. Len(stack[c]) : ~Recordable(stack[c][i])

\* A record is of a call that returned and was wanted, and of no other record's call.
RecordsAreOfWanted ==
    /\ \A i, j \in 1 .. Len(recording) : i # j => recording[i].call # recording[j].call
    /\ \A i \in 1 .. Len(recording) :
          \E e \in ended : e.call = recording[i].call /\ ~e.raised /\ e.wanted

\* While nobody has raised, the flag is up only under a frame that will add a
\* record, the lowest frame that could is that frame, and what was wanted is there.
NothingIsLost ==
    NobodyRaised =>
        /\ \A c \in Contexts : flag[c] => \E i \in 1 .. Len(stack[c]) : stack[c][i].records
        /\ \A c \in Contexts : \A i \in 1 .. Len(stack[c]) :
              Recordable(stack[c][i]) /\ (\A j \in 1 .. i - 1 : ~Recordable(stack[c][j]))
                  => stack[c][i].records
        /\ \A e \in ended : e.wanted =>
              \E i \in 1 .. Len(recording) : recording[i].call = e.call

WrapperInv ==
    WrapperTypeOK /\ CallsAreDistinct /\ FlagGuards /\ RecordsAreOfWanted /\ NothingIsLost

-----------------------------------------------------------------------------
(* Pushing and popping frames                                              *)

\* The stack of c after a push of f, and after a pop.
Pushed(c, f) == stack' = [stack EXCEPT ![c] = Append(@, f)]
Popped(c) == stack[c] # <<>> /\ stack' = [stack EXCEPT ![c] = Front(@)]

\* A push leaves the frames of c where they are, with f on top.
LEMMA PushedStack ==
    ASSUME WrapperTypeOK, NEW c \in Contexts, NEW f \in Frame, Pushed(c, f)
    PROVE  /\ stack' \in [Contexts -> Seq(Frame)]
           /\ \A d \in Contexts \ {c} : stack'[d] = stack[d]
           /\ Len(stack[c]) \in Nat /\ Len(stack'[c]) = Len(stack[c]) + 1
           /\ \A i \in 1 .. Len(stack[c]) : stack'[c][i] = stack[c][i]
           /\ stack'[c][Len(stack[c]) + 1] = f
<1>1. stack[c] \in Seq(Frame) /\ stack'[c] = Append(stack[c], f)
  BY DEF Pushed, WrapperTypeOK
<1>2. /\ Append(stack[c], f) \in Seq(Frame)
      /\ Len(Append(stack[c], f)) = Len(stack[c]) + 1
      /\ \A i \in 1 .. Len(stack[c]) : Append(stack[c], f)[i] = stack[c][i]
      /\ Append(stack[c], f)[Len(stack[c]) + 1] = f
  BY <1>1, AppendProperties
<1> QED BY <1>1, <1>2, LenProperties DEF Pushed, WrapperTypeOK

\* A pop takes the last frame of c away and leaves the others.
LEMMA PoppedStack ==
    ASSUME WrapperTypeOK, NEW c \in Contexts, Popped(c)
    PROVE  /\ stack' \in [Contexts -> Seq(Frame)]
           /\ \A d \in Contexts \ {c} : stack'[d] = stack[d]
           /\ Len(stack[c]) \in Nat \ {0} /\ Len(stack'[c]) = Len(stack[c]) - 1
           /\ \A i \in 1 .. Len(stack'[c]) : stack'[c][i] = stack[c][i]
           /\ Last(stack[c]) = stack[c][Len(stack[c])] /\ Last(stack[c]) \in Frame
<1> DEFINE n == Len(stack[c])
           front == SubSeq(stack[c], 1, n - 1)
<1>1. stack[c] \in Seq(Frame) /\ stack[c] # <<>>
  BY DEF Popped, WrapperTypeOK
<1>2. n \in Nat \ {0}
  BY <1>1, EmptySeq
<1>3. stack'[c] = front
  BY <1>1 DEF Popped, WrapperTypeOK, Front
<1>4. front \in Seq(Frame) /\ Len(front) = n - 1 /\ \A i \in 1 .. n - 1 : front[i] = stack[c][i]
  <2>1. \A i \in 1 .. n - 1 : stack[c][i] \in Frame
    BY <1>1, <1>2
  <2>2. /\ front \in Seq(Frame)
        /\ Len(front) = IF 1 <= n - 1 THEN (n - 1) - 1 + 1 ELSE 0
        /\ \A i \in 1 .. (n - 1) - 1 + 1 : front[i] = stack[c][1 + i - 1]
    <3>1. 1 \in Int /\ n - 1 \in Int
      BY <1>2
    <3> QED BY <2>1, <3>1, SubSeqProperties
  <2> HIDE DEF front, n
  <2> QED BY <1>2, <2>2
<1>5. stack' \in [Contexts -> Seq(Frame)] /\ \A d \in Contexts \ {c} : stack'[d] = stack[d]
  <2> HIDE DEF front, n
  <2> QED BY <1>3, <1>4 DEF Popped, WrapperTypeOK
<1>6. Last(stack[c]) = stack[c][n] /\ stack[c][n] \in Frame
  BY <1>1, <1>2 DEF Last
<1> QED
  <2> HIDE DEF front, n
  <2> QED BY <1>2, <1>3, <1>4, <1>5, <1>6 DEF n

-----------------------------------------------------------------------------
(* What the actions have in common                                         *)

\* A call enters with the next number.
Entered(c, f) ==
    /\ Pushed(c, f) /\ f.call = calls + 1 /\ calls' = calls + 1
    /\ UNCHANGED <<recording, ended>>

\* The call on top ends as e.
Left(c, e) ==
    /\ Popped(c) /\ calls' = calls /\ ended' = ended \cup {e}
    /\ e \in Ended /\ e.call = Last(stack[c]).call /\ e.wanted = Wanted(c)

LEMMA PushEnters ==
    ASSUME WrapperTypeOK, NEW c \in Contexts, NEW kind \in CallKinds,
           NEW b \in BOOLEAN, Push(c, kind, b)
    PROVE  \E f \in Frame : Entered(c, f) /\ f.kind = kind /\ f.records = b
<1>1. PICK p \in Params :
         stack' = [stack EXCEPT ![c] = Append(@,
             [call |-> calls + 1, kind |-> kind, params |-> p, records |-> b])]
  BY DEF Push
<1> DEFINE f == [call |-> calls + 1, kind |-> kind, params |-> p, records |-> b]
<1>2. f \in Frame
  BY KindsAssumption DEF Frame, WrapperTypeOK
<1>3. Entered(c, f)
  BY <1>1 DEF Entered, Pushed, Push
<1> QED BY <1>2, <1>3

LEMMA ThroughEnters ==
    ASSUME WrapperTypeOK, NEW c \in Contexts, EnterThrough(c)
    PROVE  \E f \in Frame : /\ Entered(c, f) /\ ~f.records
                            /\ Recordable(f) => flag[c]
                            /\ UNCHANGED flag
<1>1. PICK kind \in CallKinds : CallsThrough(c, kind) /\ Push(c, kind, FALSE)
  BY DEF EnterThrough
<1>2. PICK f \in Frame : Entered(c, f) /\ f.kind = kind /\ f.records = FALSE
  BY <1>1, PushEnters
<1>3. Recordable(f) => flag[c]
  BY <1>1, <1>2 DEF CallsThrough, Recordable
<1> QED BY <1>2, <1>3 DEF EnterThrough

LEMMA RecordingEnters ==
    ASSUME WrapperTypeOK, NEW c \in Contexts, EnterRecording(c)
    PROVE  \E f \in Frame : /\ Entered(c, f) /\ f.records
                            /\ Recordable(f) /\ ~flag[c]
                            /\ flag' = [flag EXCEPT ![c] = TRUE]
<1>1. PICK kind \in CallKinds : ~CallsThrough(c, kind) /\ Push(c, kind, TRUE)
  BY DEF EnterRecording
<1>2. PICK f \in Frame : Entered(c, f) /\ f.kind = kind /\ f.records = TRUE
  BY <1>1, PushEnters
<1>3. Recordable(f) /\ ~flag[c]
  BY <1>1, <1>2, KindsAssumption DEF CallsThrough, Recordable, AllKinds
<1> QED BY <1>2, <1>3 DEF EnterRecording

LEMMA PopLeaves ==
    ASSUME WrapperTypeOK, NEW c \in Contexts, NEW raised \in BOOLEAN,
           stack[c] # <<>>, Pop(c, raised)
    PROVE  \E e \in Ended : Left(c, e) /\ e.raised = raised
<1> DEFINE e == [call |-> Last(stack[c]).call, wanted |-> Wanted(c), raised |-> raised]
<1>1. Popped(c)
  BY DEF Pop, Popped
<1>2. e \in Ended
  <2>1. Last(stack[c]) \in Frame
    BY <1>1, PoppedStack
  <2>2. Wanted(c) \in BOOLEAN
    BY DEF Wanted
  <2> QED BY <2>1, <2>2 DEF Frame, Ended
<1>3. Left(c, e)
  BY <1>1, <1>2 DEF Pop, Left
<1> QED BY <1>2, <1>3

-----------------------------------------------------------------------------
(* Types                                                                   *)

\* What AddRecord leaves in the recording: the record of the frame, or nothing new.
LEMMA AddedRecord ==
    ASSUME WrapperTypeOK, NEW f \in Frame, AddRecord(f)
    PROVE  /\ recording' \in Seq(Entry) /\ Len(recording) \in Nat
           /\ \A i \in 1 .. Len(recording) : recording'[i] = recording[i]
           /\ f.kind = "no_params" => recording' = recording
           /\ f.kind # "no_params" =>
                 /\ Len(recording') = Len(recording) + 1
                 /\ recording'[Len(recording) + 1].call = f.call
                 /\ recording'[Len(recording) + 1].params = f.params
<1> DEFINE r == [call |-> f.call, params |-> f.params,
                 result |-> IF f.kind = "no_result" THEN NoResult ELSE f.call]
<1>1. r \in Entry /\ r.call = f.call /\ r.params = f.params
  BY DEF Entry, Frame, NoResult
<1>2. CASE f.kind = "no_params"
  BY <1>2, LenProperties DEF AddRecord, WrapperTypeOK
<1>3. CASE f.kind # "no_params"
  <2>1. recording' = Append(recording, r)
    BY <1>3 DEF AddRecord
  <2> HIDE DEF r
  <2> QED BY <2>1, <1>1, <1>3, AppendProperties, LenProperties DEF WrapperTypeOK
<1> QED BY <1>2, <1>3

LEMMA WrapperTypeNext == WrapperTypeOK /\ [Next]_vars => WrapperTypeOK'
<1> SUFFICES ASSUME WrapperTypeOK, [Next]_vars PROVE WrapperTypeOK'
  OBVIOUS
<1>1. ASSUME NEW c \in Contexts, EnterThrough(c) PROVE WrapperTypeOK'
  <2>1. PICK f \in Frame : Entered(c, f) /\ UNCHANGED flag
    BY <1>1, ThroughEnters
  <2>2. stack' \in [Contexts -> Seq(Frame)]
    BY <2>1, PushedStack DEF Entered
  <2> QED BY <2>1, <2>2 DEF Entered, WrapperTypeOK
<1>2. ASSUME NEW c \in Contexts, EnterRecording(c) PROVE WrapperTypeOK'
  <2>1. PICK f \in Frame : Entered(c, f) /\ flag' = [flag EXCEPT ![c] = TRUE]
    BY <1>2, RecordingEnters
  <2>2. stack' \in [Contexts -> Seq(Frame)]
    BY <2>1, PushedStack DEF Entered
  <2>3. flag' \in [Contexts -> BOOLEAN]
    BY <2>1 DEF WrapperTypeOK
  <2>4. recording' \in Seq(Entry) /\ calls' \in Nat /\ ended' \subseteq Ended
    BY <2>1 DEF Entered, WrapperTypeOK
  <2> QED BY <2>2, <2>3, <2>4 DEF WrapperTypeOK
<1>3. ASSUME NEW c \in Contexts, LeaveThrough(c) PROVE WrapperTypeOK'
  <2>1. PICK e \in Ended : Left(c, e)
    BY <1>3, PopLeaves DEF LeaveThrough
  <2>2. stack' \in [Contexts -> Seq(Frame)]
    BY <2>1, PoppedStack DEF Left
  <2> QED BY <1>3, <2>1, <2>2 DEF Left, LeaveThrough, WrapperTypeOK
<1>4. ASSUME NEW c \in Contexts, LeaveRecording(c) PROVE WrapperTypeOK'
  <2>1. PICK e \in Ended : Left(c, e)
    BY <1>4, PopLeaves DEF LeaveRecording
  <2>2. stack' \in [Contexts -> Seq(Frame)] /\ Last(stack[c]) \in Frame
    BY <2>1, PoppedStack DEF Left
  <2>3. recording' \in Seq(Entry)
    BY <1>4, <2>2, AddedRecord DEF LeaveRecording
  <2> QED BY <1>4, <2>1, <2>2, <2>3 DEF Left, LeaveRecording, WrapperTypeOK
<1>5. ASSUME NEW c \in Contexts, LeaveRaising(c) PROVE WrapperTypeOK'
  <2>1. PICK e \in Ended : Left(c, e)
    BY <1>5, PopLeaves DEF LeaveRaising
  <2>2. stack' \in [Contexts -> Seq(Frame)]
    BY <2>1, PoppedStack DEF Left
  <2> QED BY <1>5, <2>1, <2>2 DEF Left, LeaveRaising, WrapperTypeOK
<1>6. CASE UNCHANGED vars
  BY <1>6 DEF vars, WrapperTypeOK
<1> QED BY <1>1, <1>2, <1>3, <1>4, <1>5, <1>6 DEF Next

-----------------------------------------------------------------------------
(* Calls are distinct                                                      *)

\* The frames after a step, when each was there before at the same place, or
\* is a new one with the next number.
LEMMA DistinctPush ==
    ASSUME WrapperTypeOK, CallsAreDistinct,
           NEW c \in Contexts, NEW f \in Frame, Entered(c, f)
    PROVE  CallsAreDistinct'
<1> USE DEF CallsAreDistinct
<1>1. /\ \A d \in Contexts \ {c} : stack'[d] = stack[d]
      /\ Len(stack[c]) \in Nat /\ Len(stack'[c]) = Len(stack[c]) + 1
      /\ \A i \in 1 .. Len(stack[c]) : stack'[c][i] = stack[c][i]
      /\ stack'[c][Len(stack[c]) + 1] = f
  BY PushedStack DEF Entered
<1>2. calls \in Nat /\ calls' = calls + 1 /\ f.call = calls + 1 /\ ended' = ended
  BY DEF Entered, WrapperTypeOK
<1>3. ASSUME NEW d \in Contexts, NEW i \in 1 .. Len(stack'[d])
      PROVE  \/ i \in 1 .. Len(stack[d]) /\ stack'[d][i] = stack[d][i]
             \/ d = c /\ i = Len(stack[c]) + 1 /\ stack'[d][i].call = calls + 1
  BY <1>1, <1>2
<1>4. \A d \in Contexts : \A i \in 1 .. Len(stack'[d]) : stack'[d][i].call \in 1 .. calls'
  BY <1>2, <1>3
<1>5. ASSUME NEW d \in Contexts, NEW e \in Contexts,
             NEW i \in 1 .. Len(stack'[d]), NEW j \in 1 .. Len(stack'[e]),
             stack'[d][i].call = stack'[e][j].call
      PROVE  d = e /\ i = j
  <2>1. \/ i \in 1 .. Len(stack[d]) /\ stack'[d][i] = stack[d][i]
        \/ d = c /\ i = Len(stack[c]) + 1 /\ stack'[d][i].call = calls + 1
    BY <1>3
  <2>2. \/ j \in 1 .. Len(stack[e]) /\ stack'[e][j] = stack[e][j]
        \/ e = c /\ j = Len(stack[c]) + 1 /\ stack'[e][j].call = calls + 1
    BY <1>3
  <2>3. CASE i \in 1 .. Len(stack[d]) /\ stack'[d][i] = stack[d][i]
    <3>1. stack'[d][i].call \in 1 .. calls
      BY <2>3
    <3>2. stack'[e][j].call # calls + 1
      BY <3>1, <1>2, <1>5
    <3> QED BY <2>2, <2>3, <3>2, <1>5
  <2>4. CASE d = c /\ i = Len(stack[c]) + 1 /\ stack'[d][i].call = calls + 1
    <3>1. ~(j \in 1 .. Len(stack[e]) /\ stack'[e][j] = stack[e][j])
      BY <2>4, <1>2, <1>5
    <3> QED BY <2>2, <2>4, <3>1
  <2> QED BY <2>1, <2>3, <2>4
<1>6. ASSUME NEW e \in ended'
      PROVE  /\ e.call \in 1 .. calls'
             /\ \A d \in Contexts : \A i \in 1 .. Len(stack'[d]) : stack'[d][i].call # e.call
  BY <1>2, <1>3
<1> QED BY <1>2, <1>4, <1>5, <1>6

LEMMA DistinctPop ==
    ASSUME WrapperTypeOK, CallsAreDistinct,
           NEW c \in Contexts, NEW e \in Ended, Left(c, e)
    PROVE  CallsAreDistinct'
<1> USE DEF CallsAreDistinct
<1>1. /\ \A d \in Contexts \ {c} : stack'[d] = stack[d]
      /\ Len(stack[c]) \in Nat \ {0} /\ Len(stack'[c]) = Len(stack[c]) - 1
      /\ \A i \in 1 .. Len(stack'[c]) : stack'[c][i] = stack[c][i]
      /\ Last(stack[c]) = stack[c][Len(stack[c])]
  BY PoppedStack DEF Left
<1>2. calls' = calls /\ ended' = ended \cup {e} /\ e.call = stack[c][Len(stack[c])].call
  BY <1>1 DEF Left
<1>3. ASSUME NEW d \in Contexts, NEW i \in 1 .. Len(stack'[d])
      PROVE  /\ i \in 1 .. Len(stack[d]) /\ stack'[d][i] = stack[d][i]
             /\ ~(d = c /\ i = Len(stack[c]))
  <2>1. CASE d = c
    BY <1>1, <2>1
  <2>2. CASE d # c
    BY <1>1, <2>2
  <2> QED BY <2>1, <2>2
<1>4. \A d \in Contexts : \A i \in 1 .. Len(stack'[d]) :
         stack'[d][i].call \in 1 .. calls' /\ stack'[d][i].call # e.call
  <2> SUFFICES ASSUME NEW d \in Contexts, NEW i \in 1 .. Len(stack'[d])
               PROVE  stack'[d][i].call \in 1 .. calls' /\ stack'[d][i].call # e.call
    OBVIOUS
  <2>1. Len(stack[c]) \in 1 .. Len(stack[c])
    BY <1>1
  <2>2. i \in 1 .. Len(stack[d]) /\ stack'[d][i] = stack[d][i] /\ ~(d = c /\ i = Len(stack[c]))
    BY <1>3
  <2> QED BY <1>2, <2>1, <2>2
<1>5. ASSUME NEW d \in Contexts, NEW g \in Contexts,
             NEW i \in 1 .. Len(stack'[d]), NEW j \in 1 .. Len(stack'[g]),
             stack'[d][i].call = stack'[g][j].call
      PROVE  d = g /\ i = j
  <2>1. i \in 1 .. Len(stack[d]) /\ stack'[d][i] = stack[d][i]
    BY <1>3
  <2>2. j \in 1 .. Len(stack[g]) /\ stack'[g][j] = stack[g][j]
    BY <1>3
  <2> QED BY <1>5, <2>1, <2>2
<1>6. ASSUME NEW x \in ended'
      PROVE  /\ x.call \in 1 .. calls'
             /\ \A d \in Contexts : \A i \in 1 .. Len(stack'[d]) : stack'[d][i].call # x.call
  <2>1. CASE x \in ended
    <3>1. x.call \in 1 .. calls'
      BY <1>2, <2>1
    <3>2. ASSUME NEW d \in Contexts, NEW i \in 1 .. Len(stack'[d]) PROVE stack'[d][i].call # x.call
      <4>1. i \in 1 .. Len(stack[d]) /\ stack'[d][i] = stack[d][i]
        BY <1>3
      <4> QED BY <2>1, <4>1
    <3> QED BY <3>1, <3>2
  <2>2. CASE x = e
    <3>1. x.call \in 1 .. calls'
      BY <1>1, <1>2, <2>2
    <3> QED BY <1>4, <2>2, <3>1
  <2> QED BY <1>2, <1>6, <2>1, <2>2
<1>7. \A x \in ended : x.call # e.call
  BY <1>1, <1>2
<1> QED BY <1>2, <1>4, <1>5, <1>6, <1>7

LEMMA DistinctNext == WrapperInv /\ [Next]_vars => CallsAreDistinct'
<1> SUFFICES ASSUME WrapperInv, [Next]_vars PROVE CallsAreDistinct'
  OBVIOUS
<1>1. WrapperTypeOK /\ CallsAreDistinct
  BY DEF WrapperInv
<1>2. ASSUME NEW c \in Contexts, EnterThrough(c) PROVE CallsAreDistinct'
  BY <1>1, <1>2, ThroughEnters, DistinctPush
<1>3. ASSUME NEW c \in Contexts, EnterRecording(c) PROVE CallsAreDistinct'
  BY <1>1, <1>3, RecordingEnters, DistinctPush
<1>4. ASSUME NEW c \in Contexts, LeaveThrough(c) PROVE CallsAreDistinct'
  BY <1>1, <1>4, PopLeaves, DistinctPop DEF LeaveThrough
<1>5. ASSUME NEW c \in Contexts, LeaveRecording(c) PROVE CallsAreDistinct'
  BY <1>1, <1>5, PopLeaves, DistinctPop DEF LeaveRecording
<1>6. ASSUME NEW c \in Contexts, LeaveRaising(c) PROVE CallsAreDistinct'
  BY <1>1, <1>6, PopLeaves, DistinctPop DEF LeaveRaising
<1>7. CASE UNCHANGED vars
  BY <1>1, <1>7 DEF vars, CallsAreDistinct
<1> QED BY <1>2, <1>3, <1>4, <1>5, <1>6, <1>7 DEF Next

-----------------------------------------------------------------------------
(* The flag and the frames that record                                     *)

LEMMA GuardsNext == WrapperInv /\ [Next]_vars => FlagGuards'
<1> SUFFICES ASSUME WrapperInv, [Next]_vars PROVE FlagGuards'
  OBVIOUS
<1>1. WrapperTypeOK /\ FlagGuards
  BY DEF WrapperInv
<1>f. flag \in [Contexts -> BOOLEAN]
  BY <1>1 DEF WrapperTypeOK
<1> DEFINE Guards(d) ==
        /\ \A i \in 1 .. Len(stack[d]) : stack[d][i].records =>
              Recordable(stack[d][i]) /\ \A j \in 1 .. i - 1 : ~Recordable(stack[d][j])
        /\ ~flag[d] => \A i \in 1 .. Len(stack[d]) : ~Recordable(stack[d][i])
<1>s. (\A d \in Contexts : Guards(d)) /\ ((\A d \in Contexts : Guards(d)') => FlagGuards')
  BY <1>1 DEF FlagGuards
<1>2. ASSUME NEW c \in Contexts, EnterThrough(c) PROVE FlagGuards'
  <2>1. PICK f \in Frame : /\ Entered(c, f) /\ ~f.records
                           /\ Recordable(f) => flag[c]
                           /\ UNCHANGED flag
    BY <1>1, <1>2, ThroughEnters
  <2>2. /\ \A d \in Contexts \ {c} : stack'[d] = stack[d]
        /\ Len(stack[c]) \in Nat /\ Len(stack'[c]) = Len(stack[c]) + 1
        /\ \A i \in 1 .. Len(stack[c]) : stack'[c][i] = stack[c][i]
        /\ stack'[c][Len(stack[c]) + 1] = f
    BY <1>1, <2>1, PushedStack DEF Entered
  <2>3. ASSUME NEW i \in 1 .. Len(stack'[c])
        PROVE  i = Len(stack[c]) + 1 \/ i \in 1 .. Len(stack[c])
    BY <2>2
  <2>4. Guards(c)'
    <3> SUFFICES /\ \A i \in 1 .. Len(stack'[c]) : stack'[c][i].records =>
                       /\ Recordable(stack'[c][i])
                       /\ \A j \in 1 .. i - 1 : ~Recordable(stack'[c][j])
                 /\ ~flag'[c] =>
                       \A i \in 1 .. Len(stack'[c]) : ~Recordable(stack'[c][i])
      BY DEF Recordable
    <3>1. ASSUME NEW i \in 1 .. Len(stack'[c]), stack'[c][i].records
          PROVE  /\ Recordable(stack'[c][i])
                 /\ \A j \in 1 .. i - 1 : ~Recordable(stack'[c][j])
      <4>1. i \in 1 .. Len(stack[c]) /\ stack'[c][i] = stack[c][i]
        BY <2>1, <2>2, <2>3, <3>1
      <4>2. \A j \in 1 .. i - 1 : stack'[c][j] = stack[c][j]
        BY <2>2, <4>1
      <4> QED BY <1>s, <3>1, <4>1, <4>2
    <3>2. ASSUME ~flag'[c], NEW i \in 1 .. Len(stack'[c]) PROVE ~Recordable(stack'[c][i])
      BY <1>s, <2>1, <2>2, <2>3, <3>2
    <3> QED BY <3>1, <3>2
  <2>5. \A d \in Contexts \ {c} : Guards(d)'
    BY <1>s, <2>1, <2>2
  <2> HIDE DEF Guards
  <2> QED BY <1>s, <2>4, <2>5
<1>3. ASSUME NEW c \in Contexts, EnterRecording(c) PROVE FlagGuards'
  <2>1. PICK f \in Frame : /\ Entered(c, f) /\ f.records /\ Recordable(f) /\ ~flag[c]
                           /\ flag' = [flag EXCEPT ![c] = TRUE]
    BY <1>1, <1>3, RecordingEnters
  <2>2. /\ \A d \in Contexts \ {c} : stack'[d] = stack[d]
        /\ Len(stack[c]) \in Nat /\ Len(stack'[c]) = Len(stack[c]) + 1
        /\ \A i \in 1 .. Len(stack[c]) : stack'[c][i] = stack[c][i]
        /\ stack'[c][Len(stack[c]) + 1] = f
    BY <1>1, <2>1, PushedStack DEF Entered
  <2>3. \A i \in 1 .. Len(stack'[c]) : i = Len(stack[c]) + 1 \/ i \in 1 .. Len(stack[c])
    BY <2>2
  <2>4. flag'[c] /\ \A d \in Contexts \ {c} : flag'[d] = flag[d]
    BY <2>1, <1>f
  <2>5. \A i \in 1 .. Len(stack[c]) : ~Recordable(stack[c][i]) /\ ~stack[c][i].records
    BY <1>s, <2>1
  <2>6. ASSUME NEW i \in 1 .. Len(stack'[c]), stack'[c][i].records
        PROVE  Recordable(stack'[c][i]) /\ \A j \in 1 .. i - 1 : ~Recordable(stack'[c][j])
    <3>1. i = Len(stack[c]) + 1
      BY <2>2, <2>3, <2>5, <2>6
    <3>2. \A j \in 1 .. i - 1 : j \in 1 .. Len(stack[c])
      BY <2>2, <3>1
    <3> QED BY <2>1, <2>2, <2>5, <3>1, <3>2
  <2>7. Guards(c)'
    BY <2>4, <2>6
  <2>8. \A d \in Contexts \ {c} : Guards(d)'
    BY <1>s, <2>2, <2>4
  <2> HIDE DEF Guards
  <2> QED BY <1>s, <2>7, <2>8
<1>4. ASSUME NEW c \in Contexts, LeaveThrough(c) \/ LeaveRaising(c) PROVE FlagGuards'
  <2>1. Popped(c) /\ flag' = flag
    BY <1>4 DEF LeaveThrough, LeaveRaising, Pop, Popped
  <2>2. /\ \A d \in Contexts \ {c} : stack'[d] = stack[d]
        /\ Len(stack[c]) \in Nat \ {0} /\ Len(stack'[c]) = Len(stack[c]) - 1
        /\ \A i \in 1 .. Len(stack'[c]) : stack'[c][i] = stack[c][i]
    BY <1>1, <2>1, PoppedStack
  <2>3. \A i \in 1 .. Len(stack'[c]) : i \in 1 .. Len(stack[c])
    BY <2>2
  <2>4. \A i \in 1 .. Len(stack'[c]) : \A j \in 1 .. i - 1 : j \in 1 .. Len(stack'[c])
    BY <2>2
  <2>5. \A i \in 1 .. Len(stack'[c]) : stack'[c][i].records =>
              Recordable(stack'[c][i]) /\ \A j \in 1 .. i - 1 : ~Recordable(stack'[c][j])
    BY <1>s, <2>2, <2>3, <2>4
  <2>6. Guards(c)'
    BY <1>s, <2>1, <2>2, <2>3, <2>5
  <2>7. \A d \in Contexts \ {c} : Guards(d)'
    BY <1>s, <2>1, <2>2
  <2> HIDE DEF Guards
  <2> QED BY <1>s, <2>6, <2>7
<1>5. ASSUME NEW c \in Contexts, LeaveRecording(c) PROVE FlagGuards'
  <2>1. Popped(c) /\ flag' = [flag EXCEPT ![c] = FALSE] /\ Last(stack[c]).records
    BY <1>5 DEF LeaveRecording, Pop, Popped
  <2>2. /\ \A d \in Contexts \ {c} : stack'[d] = stack[d]
        /\ Len(stack[c]) \in Nat \ {0} /\ Len(stack'[c]) = Len(stack[c]) - 1
        /\ \A i \in 1 .. Len(stack'[c]) : stack'[c][i] = stack[c][i]
        /\ Last(stack[c]) = stack[c][Len(stack[c])]
    BY <1>1, <2>1, PoppedStack
  <2>3. \A d \in Contexts \ {c} : flag'[d] = flag[d]
    BY <2>1, <1>f
  <2>4. \A i \in 1 .. Len(stack'[c]) : ~Recordable(stack'[c][i])
    BY <1>s, <2>1, <2>2
  <2>5. \A i \in 1 .. Len(stack'[c]) : ~stack'[c][i].records
    BY <1>s, <2>2, <2>4
  <2>6. Guards(c)'
    BY <2>4, <2>5
  <2>7. \A d \in Contexts \ {c} : Guards(d)'
    BY <1>s, <2>2, <2>3
  <2> HIDE DEF Guards
  <2> QED BY <1>s, <2>6, <2>7
<1>6. CASE UNCHANGED vars
  BY <1>1, <1>6 DEF vars, FlagGuards
<1> QED BY <1>2, <1>3, <1>4, <1>5, <1>6 DEF Next

-----------------------------------------------------------------------------
(* The records                                                             *)

\* The frame that records is wanted unless its params could not be built.
LEMMA RecordingFrameIsWanted ==
    ASSUME WrapperInv, NEW c \in Contexts, stack[c] # <<>>, Last(stack[c]).records
    PROVE  Wanted(c) <=> Last(stack[c]).kind # "no_params"
<1>1. stack[c] \in Seq(Frame) /\ Len(stack[c]) \in Nat \ {0}
  BY EmptySeq DEF WrapperInv, WrapperTypeOK
<1>2. Last(stack[c]) = stack[c][Len(stack[c])]
  BY DEF Last
<1>3. /\ Recordable(Last(stack[c]))
      /\ \A j \in 1 .. Len(stack[c]) - 1 : ~Recordable(stack[c][j])
  BY <1>1, <1>2 DEF WrapperInv, FlagGuards
<1> QED BY <1>3 DEF Wanted, Recordable

LEMMA RecordsNext == WrapperInv /\ [Next]_vars => RecordsAreOfWanted'
<1> SUFFICES ASSUME WrapperInv, [Next]_vars PROVE RecordsAreOfWanted'
  OBVIOUS
<1>1. WrapperTypeOK /\ CallsAreDistinct /\ RecordsAreOfWanted
  BY DEF WrapperInv
<1>2. ASSUME recording' = recording, ended \subseteq ended'
      PROVE  RecordsAreOfWanted'
  BY <1>1, <1>2 DEF RecordsAreOfWanted
<1>3. ASSUME NEW c \in Contexts, EnterThrough(c) \/ EnterRecording(c)
      PROVE  RecordsAreOfWanted'
  BY <1>2, <1>3 DEF EnterThrough, EnterRecording, Push
<1>4. ASSUME NEW c \in Contexts, LeaveThrough(c) \/ LeaveRaising(c)
      PROVE  RecordsAreOfWanted'
  BY <1>2, <1>4 DEF LeaveThrough, LeaveRaising, Pop
<1>5. ASSUME NEW c \in Contexts, LeaveRecording(c) PROVE RecordsAreOfWanted'
  <2> DEFINE f == Last(stack[c])
             n == Len(recording)
  <2>1. PICK e \in Ended : Left(c, e) /\ e.raised = FALSE
    BY <1>1, <1>5, PopLeaves DEF LeaveRecording
  <2>2. /\ Len(stack[c]) \in Nat \ {0}
        /\ f = stack[c][Len(stack[c])] /\ f \in Frame
    BY <1>1, <2>1, PoppedStack DEF Left
  <2>3. /\ recording' \in Seq(Entry) /\ n \in Nat
        /\ \A i \in 1 .. n : recording'[i] = recording[i]
        /\ f.kind = "no_params" => recording' = recording
        /\ f.kind # "no_params" => Len(recording') = n + 1 /\ recording'[n + 1].call = f.call
    BY <1>1, <1>5, <2>2, AddedRecord DEF LeaveRecording
  <2>4. ended' = ended \cup {e} /\ e.call = f.call /\ e.wanted = Wanted(c)
    BY <2>1 DEF Left
  <2>5. CASE f.kind = "no_params"
    BY <1>2, <2>3, <2>4, <2>5
  <2>6. CASE f.kind # "no_params"
    <3>1. e.wanted
      BY <1>5, <2>4, <2>6, RecordingFrameIsWanted DEF LeaveRecording
    <3>2. \A i \in 1 .. n : recording[i].call # f.call
      <4>1. \A i \in 1 .. n : \E x \in ended : x.call = recording[i].call
        BY <1>1 DEF RecordsAreOfWanted
      <4>2. Len(stack[c]) \in 1 .. Len(stack[c])
        BY <2>2
      <4>3. \A x \in ended : x.call # f.call
        BY <1>1, <2>2, <4>2 DEF CallsAreDistinct
      <4> QED BY <4>1, <4>3
    <3>3. \A i \in 1 .. Len(recording') :
             \/ i \in 1 .. n /\ recording'[i].call = recording[i].call
             \/ i = n + 1 /\ recording'[i].call = f.call
      BY <2>3, <2>6
    <3>4. ASSUME NEW i \in 1 .. Len(recording'), NEW j \in 1 .. Len(recording'), i # j
          PROVE  recording'[i].call # recording'[j].call
      <4> HIDE DEF f, n
      <4>1. CASE i \in 1 .. n /\ j \in 1 .. n
        BY <1>1, <2>3, <3>4, <4>1 DEF RecordsAreOfWanted, n
      <4>2. CASE ~(i \in 1 .. n /\ j \in 1 .. n)
        BY <3>2, <3>3, <3>4, <4>2
      <4> QED BY <4>1, <4>2
    <3>5. ASSUME NEW i \in 1 .. Len(recording')
          PROVE  \E x \in ended' : x.call = recording'[i].call /\ ~x.raised /\ x.wanted
      <4>1. CASE i \in 1 .. n /\ recording'[i].call = recording[i].call
        <5>1. PICK x \in ended : x.call = recording[i].call /\ ~x.raised /\ x.wanted
          BY <1>1, <4>1 DEF RecordsAreOfWanted
        <5> QED BY <2>4, <4>1, <5>1
      <4>2. CASE recording'[i].call = f.call
        BY <2>1, <2>4, <3>1, <4>2
      <4> QED BY <3>3, <4>1, <4>2
    <3> QED BY <3>4, <3>5 DEF RecordsAreOfWanted
  <2> QED BY <2>5, <2>6
<1>6. CASE UNCHANGED vars
  BY <1>2, <1>6 DEF vars
<1> QED BY <1>3, <1>4, <1>5, <1>6 DEF Next

-----------------------------------------------------------------------------
(* While nobody raises                                                     *)

LEMMA NothingIsLostNext == WrapperInv /\ [Next]_vars => NothingIsLost'
<1> SUFFICES ASSUME WrapperInv, [Next]_vars, NobodyRaised' PROVE NothingIsLost'
  BY DEF NothingIsLost
<1>1. WrapperTypeOK /\ CallsAreDistinct /\ FlagGuards /\ NothingIsLost
  BY DEF WrapperInv
<1>f. flag \in [Contexts -> BOOLEAN]
  BY <1>1 DEF WrapperTypeOK
<1>e. ended \subseteq ended'
  <2>1. ASSUME NEW c \in Contexts, EnterThrough(c) \/ EnterRecording(c) PROVE ended' = ended
    BY <2>1 DEF EnterThrough, EnterRecording, Push
  <2>2. ASSUME NEW c \in Contexts, LeaveThrough(c) \/ LeaveRecording(c) \/ LeaveRaising(c)
        PROVE  ended \subseteq ended'
    BY <2>2 DEF LeaveThrough, LeaveRecording, LeaveRaising, Pop
  <2> QED BY <2>1, <2>2 DEF Next, vars
<1>2. NobodyRaised
  BY <1>e DEF NobodyRaised
<1> DEFINE Held(d) == flag[d] => \E i \in 1 .. Len(stack[d]) : stack[d][i].records
           Lowest(d) == \A i \in 1 .. Len(stack[d]) :
              Recordable(stack[d][i]) /\ (\A j \in 1 .. i - 1 : ~Recordable(stack[d][j]))
                  => stack[d][i].records
           Kept == \A e \in ended : e.wanted =>
              \E i \in 1 .. Len(recording) : recording[i].call = e.call
<1>s. /\ \A d \in Contexts : Held(d) /\ Lowest(d)
      /\ Kept
      /\ (\A d \in Contexts : Held(d)' /\ Lowest(d)') /\ Kept' => NothingIsLost'
  BY <1>1, <1>2 DEF NothingIsLost
<1>3. ASSUME NEW c \in Contexts, EnterThrough(c) PROVE NothingIsLost'
  <2>1. PICK f \in Frame : /\ Entered(c, f) /\ ~f.records
                           /\ Recordable(f) => flag[c]
                           /\ UNCHANGED flag
    BY <1>1, <1>3, ThroughEnters
  <2>2. /\ \A d \in Contexts \ {c} : stack'[d] = stack[d]
        /\ Len(stack[c]) \in Nat /\ Len(stack'[c]) = Len(stack[c]) + 1
        /\ \A i \in 1 .. Len(stack[c]) : stack'[c][i] = stack[c][i]
        /\ stack'[c][Len(stack[c]) + 1] = f
    BY <1>1, <2>1, PushedStack DEF Entered
  <2>3. Held(c)'
    BY <1>s, <2>1, <2>2
  <2>4. Lowest(c)'
    <3> SUFFICES ASSUME NEW i \in 1 .. Len(stack'[c]), Recordable(stack'[c][i]),
                        \A j \in 1 .. i - 1 : ~Recordable(stack'[c][j])
                 PROVE  stack'[c][i].records
      OBVIOUS
    <3>1. CASE i \in 1 .. Len(stack[c])
      <4>1. \A j \in 1 .. i - 1 : j \in 1 .. Len(stack[c])
        BY <2>2, <3>1
      <4> QED BY <1>s, <2>2, <3>1, <4>1
    <3>2. CASE i = Len(stack[c]) + 1
      <4>1. PICK j \in 1 .. Len(stack[c]) : stack[c][j].records
        BY <1>s, <2>1, <2>2, <3>2
      <4>2. Recordable(stack[c][j])
        BY <1>1, <4>1 DEF FlagGuards
      <4>3. j \in 1 .. i - 1
        BY <2>2, <3>2
      <4> QED BY <2>2, <4>2, <4>3
    <3> QED BY <2>2, <3>1, <3>2
  <2>5. \A d \in Contexts \ {c} : Held(d)' /\ Lowest(d)'
    BY <1>s, <2>1, <2>2
  <2>6. Kept'
    BY <1>s, <2>1 DEF Entered
  <2> HIDE DEF Held, Lowest, Kept
  <2> QED BY <1>s, <2>3, <2>4, <2>5, <2>6
<1>4. ASSUME NEW c \in Contexts, EnterRecording(c) PROVE NothingIsLost'
  <2>1. PICK f \in Frame : /\ Entered(c, f) /\ f.records /\ Recordable(f) /\ ~flag[c]
                           /\ flag' = [flag EXCEPT ![c] = TRUE]
    BY <1>1, <1>4, RecordingEnters
  <2>2. /\ \A d \in Contexts \ {c} : stack'[d] = stack[d]
        /\ Len(stack[c]) \in Nat /\ Len(stack'[c]) = Len(stack[c]) + 1
        /\ \A i \in 1 .. Len(stack[c]) : stack'[c][i] = stack[c][i]
        /\ stack'[c][Len(stack[c]) + 1] = f
    BY <1>1, <2>1, PushedStack DEF Entered
  <2>3. \A d \in Contexts \ {c} : flag'[d] = flag[d]
    BY <2>1, <1>f
  <2>4. \A i \in 1 .. Len(stack[c]) : ~Recordable(stack[c][i])
    BY <1>1, <2>1 DEF FlagGuards
  <2>5. Len(stack[c]) + 1 \in 1 .. Len(stack'[c])
    BY <2>2
  <2>6. Held(c)'
    BY <2>1, <2>2, <2>5
  <2>7. Lowest(c)'
    BY <2>1, <2>2, <2>4
  <2>8. \A d \in Contexts \ {c} : Held(d)' /\ Lowest(d)'
    BY <1>s, <2>2, <2>3
  <2>9. Kept'
    BY <1>s, <2>1 DEF Entered
  <2> HIDE DEF Held, Lowest, Kept
  <2> QED BY <1>s, <2>6, <2>7, <2>8, <2>9
<1>5. ASSUME NEW c \in Contexts, LeaveThrough(c) PROVE NothingIsLost'
  <2>1. PICK e \in Ended : Left(c, e)
    BY <1>1, <1>5, PopLeaves DEF LeaveThrough
  <2>2. /\ \A d \in Contexts \ {c} : stack'[d] = stack[d]
        /\ Len(stack[c]) \in Nat \ {0} /\ Len(stack'[c]) = Len(stack[c]) - 1
        /\ \A i \in 1 .. Len(stack'[c]) : stack'[c][i] = stack[c][i]
        /\ Last(stack[c]) = stack[c][Len(stack[c])]
    BY <1>1, <2>1, PoppedStack DEF Left
  <2>3. /\ ~stack[c][Len(stack[c])].records /\ flag' = flag /\ recording' = recording
        /\ Len(stack[c]) \in 1 .. Len(stack[c])
    BY <1>5, <2>2 DEF LeaveThrough
  <2>4. ~e.wanted
    <3>1. \A j \in 1 .. Len(stack[c]) - 1 : j \in 1 .. Len(stack[c])
      BY <2>2
    <3> QED BY <1>s, <2>1, <2>2, <2>3, <3>1 DEF Left, Wanted, Recordable
  <2>5. Kept'
    BY <1>s, <2>1, <2>3, <2>4 DEF Left
  <2>6. Held(c)'
    <3> SUFFICES ASSUME flag[c] PROVE \E i \in 1 .. Len(stack'[c]) : stack'[c][i].records
      BY <2>3
    <3>1. PICK i \in 1 .. Len(stack[c]) : stack[c][i].records
      BY <1>s
    <3>2. i \in 1 .. Len(stack'[c])
      BY <2>2, <2>3, <3>1
    <3> QED BY <2>2, <3>1, <3>2
  <2>7. Lowest(c)'
    <3>1. \A i \in 1 .. Len(stack'[c]) :
             i \in 1 .. Len(stack[c]) /\ \A j \in 1 .. i - 1 : j \in 1 .. Len(stack'[c])
      BY <2>2
    <3> QED BY <1>s, <2>2, <3>1
  <2>8. \A d \in Contexts \ {c} : Held(d)' /\ Lowest(d)'
    BY <1>s, <2>2, <2>3
  <2> HIDE DEF Held, Lowest, Kept
  <2> QED BY <1>s, <2>5, <2>6, <2>7, <2>8
<1>6. ASSUME NEW c \in Contexts, LeaveRecording(c) PROVE NothingIsLost'
  <2> DEFINE f == Last(stack[c])
  <2>1. PICK e \in Ended : Left(c, e)
    BY <1>1, <1>6, PopLeaves DEF LeaveRecording
  <2>2. /\ \A d \in Contexts \ {c} : stack'[d] = stack[d]
        /\ Len(stack[c]) \in Nat \ {0} /\ Len(stack'[c]) = Len(stack[c]) - 1
        /\ \A i \in 1 .. Len(stack'[c]) : stack'[c][i] = stack[c][i]
        /\ f = stack[c][Len(stack[c])] /\ f \in Frame
    BY <1>1, <2>1, PoppedStack DEF Left
  <2>3. f.records /\ flag' = [flag EXCEPT ![c] = FALSE]
    BY <1>6 DEF LeaveRecording
  <2>4. ~flag'[c] /\ \A d \in Contexts \ {c} : flag'[d] = flag[d]
    BY <2>3, <1>f
  <2>5. \A i \in 1 .. Len(stack'[c]) : ~Recordable(stack'[c][i])
    BY <1>1, <2>2, <2>3 DEF FlagGuards
  <2>6. Held(c)' /\ Lowest(c)'
    BY <2>4, <2>5
  <2>7. \A d \in Contexts \ {c} : Held(d)' /\ Lowest(d)'
    BY <1>s, <2>2, <2>4
  <2>8. Kept'
    <3>1. /\ Len(recording) \in Nat
          /\ \A i \in 1 .. Len(recording) : recording'[i] = recording[i]
          /\ f.kind = "no_params" => recording' = recording
          /\ f.kind # "no_params" => /\ Len(recording') = Len(recording) + 1
                                     /\ recording'[Len(recording) + 1].call = f.call
      BY <1>1, <1>6, <2>2, AddedRecord DEF LeaveRecording
    <3>2. \A i \in 1 .. Len(recording) : i \in 1 .. Len(recording')
      BY <3>1
    <3>3. ended' = ended \cup {e} /\ e.call = f.call /\ (e.wanted <=> f.kind # "no_params")
      BY <1>6, <2>1, RecordingFrameIsWanted DEF Left, LeaveRecording
    <3>4. e.wanted => \E i \in 1 .. Len(recording') : recording'[i].call = e.call
      <4> SUFFICES ASSUME e.wanted PROVE \E i \in 1 .. Len(recording') : recording'[i].call = e.call
        OBVIOUS
      <4>1. Len(recording) + 1 \in 1 .. Len(recording')
        BY <3>1, <3>3
      <4> QED BY <3>1, <3>3, <4>1
    <3>5. \A x \in ended : x.wanted => \E i \in 1 .. Len(recording') : recording'[i].call = x.call
      BY <1>s, <3>1, <3>2
    <3> QED BY <3>3, <3>4, <3>5
  <2> HIDE DEF Held, Lowest, Kept
  <2> QED BY <1>s, <2>6, <2>7, <2>8
<1>7. ASSUME NEW c \in Contexts, LeaveRaising(c) PROVE NothingIsLost'
  <2>1. PICK e \in Ended : Left(c, e) /\ e.raised = TRUE
    BY <1>1, <1>7, PopLeaves DEF LeaveRaising
  <2> QED BY <2>1 DEF Left, NobodyRaised
<1>8. CASE UNCHANGED vars
  BY <1>1, <1>8 DEF vars, NothingIsLost, NobodyRaised
<1> QED BY <1>3, <1>4, <1>5, <1>6, <1>7, <1>8 DEF Next

-----------------------------------------------------------------------------
(* The invariant                                                           *)

LEMMA WrapperInit == Init => WrapperInv
<1> SUFFICES ASSUME Init PROVE WrapperInv
  OBVIOUS
<1>1. \A c \in Contexts : stack[c] = <<>> /\ Len(stack[c]) = 0 /\ ~flag[c]
  BY DEF Init
<1>2. WrapperTypeOK
  BY DEF Init, WrapperTypeOK
<1>3. recording = <<>> /\ Len(recording) = 0 /\ ended = {}
  BY DEF Init
<1>4. CallsAreDistinct
  BY <1>1, <1>3 DEF CallsAreDistinct
<1>5. FlagGuards
  BY <1>1 DEF FlagGuards
<1>6. RecordsAreOfWanted /\ NothingIsLost
  BY <1>1, <1>3 DEF RecordsAreOfWanted, NothingIsLost
<1> QED BY <1>2, <1>4, <1>5, <1>6 DEF WrapperInv

LEMMA WrapperNext == WrapperInv /\ [Next]_vars => WrapperInv'
BY WrapperTypeNext, DistinctNext, GuardsNext, RecordsNext, NothingIsLostNext DEF WrapperInv

\* A step of the recorded program, and a step of its replay, is a step of the
\* wrapper or leaves the wrapper's state alone.
LEMMA ReplayStepsAreSteps == [ReplayNext]_allVars => [Next]_vars
<1>1. ASSUME NEW c \in Contexts, RecordStep(c) PROVE Next
  BY <1>1 DEF RecordStep, Next
<1>2. StartReplay => UNCHANGED vars
  BY DEF StartReplay
<1>3. ReplayStep => UNCHANGED vars
  BY DEF ReplayStep, ReplayMocked, ReplayUnmatched, ReplayThrough
<1>4. UNCHANGED allVars => UNCHANGED vars
  BY DEF allVars
<1> QED BY <1>1, <1>2, <1>3, <1>4 DEF ReplayNext

LEMMA WrapperInvHolds == Spec => []WrapperInv
BY WrapperInit, WrapperNext, PTL DEF Spec

LEMMA WrapperInvInReplay == ReplaySpec => []WrapperInv
<1>1. TraceInit => WrapperInv
  BY WrapperInit DEF TraceInit
<1>2. WrapperInv /\ [ReplayNext]_allVars => WrapperInv'
  BY WrapperNext, ReplayStepsAreSteps
<1> QED BY <1>1, <1>2, PTL DEF ReplaySpec

-----------------------------------------------------------------------------
(* What it implies                                                         *)

LEMMA RecordedOnceFollows == WrapperInv => RecordedOnce
<1> SUFFICES ASSUME WrapperInv PROVE RecordedOnce
  OBVIOUS
<1>1. /\ WrapperTypeOK /\ RecordsAreOfWanted /\ FlagGuards
      /\ DOMAIN recording = 1 .. Len(recording)
      /\ \A c \in Contexts : DOMAIN stack[c] = 1 .. Len(stack[c]) /\ Len(stack[c]) \in Nat
  BY LenProperties DEF WrapperInv, WrapperTypeOK
<1>2. ASSUME NEW c \in Contexts
      PROVE  Cardinality({i \in DOMAIN stack[c] : stack[c][i].records}) <= 1
  <2> DEFINE R == {i \in DOMAIN stack[c] : stack[c][i].records}
  <2>1. \A i, j \in R : ~(i < j)
    <3> SUFFICES ASSUME NEW i \in R, NEW j \in R, i < j PROVE FALSE
      OBVIOUS
    <3>1. i \in 1 .. j - 1
      BY <1>1
    <3> QED BY <1>1, <3>1 DEF FlagGuards
  <2>2. \A i, j \in R : i = j
    BY <1>1, <2>1
  <2>3. R = {} \/ \E i : R = {i}
    BY <2>2
  <2> HIDE DEF R
  <2>4. Cardinality(R) = 0 \/ Cardinality(R) = 1
    BY <2>3, FS_EmptySet, FS_Singleton
  <2> QED BY <2>4 DEF R
<1> QED BY <1>1, <1>2 DEF RecordedOnce, RecordsAreOfWanted

LEMMA OutermostFollows == WrapperInv => OutermostIsRecorded
<1> SUFFICES ASSUME WrapperInv, NobodyRaised, NEW e \in ended
             PROVE  Cardinality({i \in DOMAIN recording : recording[i].call = e.call})
                        = IF e.wanted THEN 1 ELSE 0
  BY DEF OutermostIsRecorded, ReturnsAreRecorded
<1> DEFINE R == {i \in DOMAIN recording : recording[i].call = e.call}
<1>1. /\ CallsAreDistinct /\ RecordsAreOfWanted /\ NothingIsLost
      /\ DOMAIN recording = 1 .. Len(recording)
  BY LenProperties DEF WrapperInv, WrapperTypeOK
<1>2. CASE e.wanted
  <2>1. PICK i \in 1 .. Len(recording) : recording[i].call = e.call
    BY <1>1, <1>2 DEF NothingIsLost
  <2>2. R = {i}
    BY <1>1, <2>1 DEF RecordsAreOfWanted
  <2> QED BY <1>2, <2>2, FS_Singleton
<1>3. CASE ~e.wanted
  <2>1. ASSUME NEW i \in R PROVE FALSE
    <3>1. PICK x \in ended : x.call = recording[i].call /\ x.wanted
      BY <1>1 DEF RecordsAreOfWanted
    <3>2. x = e
      BY <1>1, <3>1 DEF CallsAreDistinct
    <3> QED BY <1>3, <3>1, <3>2
  <2>2. R = {}
    BY <2>1
  <2> QED BY <1>3, <2>2, FS_EmptySet
<1> QED BY <1>2, <1>3

\* Whatever raises, at most one call on each stack is going to add a record,
\* and the records are of distinct calls that returned and were outermost:
\* record_replay_wrapper records an interaction at most once.
THEOREM InteractionsAreRecordedOnce ==
    (Spec => []RecordedOnce) /\ (ReplaySpec => []RecordedOnce)
BY WrapperInvHolds, WrapperInvInReplay, RecordedOnceFollows, PTL

\* As long as no marked call raises, record_replay_wrapper records every call
\* that is outermost on its stack and can be described, exactly once, and none
\* of the calls nested in one.
THEOREM OutermostCallsAreRecorded ==
    (Spec => []OutermostIsRecorded) /\ (ReplaySpec => []OutermostIsRecorded)
BY WrapperInvHolds, WrapperInvInReplay, OutermostFollows, PTL

-----------------------------------------------------------------------------
(* The trace and the replay: the inductive invariant                       *)

TraceTypeOK ==
    /\ trace \in Seq(Event)
    /\ phase \in {"record", "replay"}
    /\ source \in Sources
    /\ pos \in Nat \ {0}
    /\ records \in Seq(Entry)

\* The event at i begins a call, and the one at j ends it.
Begins(i) == trace[i].event = "call"
EndsAt(i, j) == trace[j].event # "call" /\ trace[j].call = trace[i].call

\* The call that begins at index i has no end before index n.
OpenUntil(i, n) == \A j \in 1 .. n - 1 : ~EndsAt(i, j)

\* A call begins once and ends once, after it began.
TraceIsOrdered ==
    /\ \A i \in 1 .. Len(trace) : trace[i].call \in 1 .. calls
    /\ \A i, j \in 1 .. Len(trace) :
          Begins(i) /\ Begins(j) /\ trace[i].call = trace[j].call => i = j
    /\ \A i, j, k \in 1 .. Len(trace) :
          Begins(i) /\ EndsAt(i, j) /\ EndsAt(i, k) => j = k /\ i < j

\* The frame k of context c is of the call that begins at i.
IsOf(i, c, k) == trace[i] = EventOf("call", c, stack[c][k])

\* The calls that are running are those that have begun and not ended.
RunningIsTraced ==
    /\ \A c \in Contexts : \A k \in 1 .. Len(stack[c]) :
          \E i \in 1 .. Len(trace) : IsOf(i, c, k) /\ OpenUntil(i, Len(trace) + 1)
    /\ \A i \in 1 .. Len(trace) : (Begins(i) /\ OpenUntil(i, Len(trace) + 1)) =>
          \E k \in 1 .. Len(stack[trace[i].context]) :
              stack[trace[i].context][k].call = trace[i].call

TraceInv == TraceTypeOK /\ TraceIsOrdered /\ RunningIsTraced

-----------------------------------------------------------------------------
(* Steps of the recorded program                                           *)

\* A call begins, and a call is over, in the trace.
Began(c, f) == Entered(c, f) /\ trace' = Append(trace, EventOf("call", c, f))
Over(c, e) ==
    /\ Left(c, e)
    /\ \E name \in {"return", "raise"} :
          trace' = Append(trace, EventOf(name, c, Last(stack[c])))

\* What an event added to the trace changes.
LEMMA TraceGrows ==
    ASSUME TraceTypeOK, NEW ev \in Event, trace' = Append(trace, ev)
    PROVE  /\ trace' \in Seq(Event) /\ Len(trace) \in Nat /\ Len(trace') = Len(trace) + 1
           /\ \A i \in 1 .. Len(trace) : trace'[i] = trace[i]
           /\ trace'[Len(trace) + 1] = ev
<1>1. trace \in Seq(Event)
  BY DEF TraceTypeOK
<1> QED BY <1>1, AppendProperties, LenProperties

\* A frame that is pushed is the last one.
LEMMA PushedIsLast ==
    ASSUME WrapperTypeOK, NEW c \in Contexts, NEW f \in Frame, Entered(c, f)
    PROVE  Last(stack'[c]) = f
<1>1. /\ Len(stack[c]) \in Nat /\ Len(stack'[c]) = Len(stack[c]) + 1
      /\ stack'[c][Len(stack[c]) + 1] = f
  BY PushedStack DEF Entered
<1> QED BY <1>1 DEF Last

LEMMA RecordStepTraces ==
    ASSUME WrapperTypeOK, NEW c \in Contexts, RecordStep(c)
    PROVE  \/ \E f \in Frame : Began(c, f)
           \/ \E e \in Ended : Over(c, e)
<1>1. CASE /\ EnterThrough(c) \/ EnterRecording(c)
           /\ trace' = Append(trace, EventOf("call", c, Last(stack'[c])))
  <2>1. PICK f \in Frame : Entered(c, f)
    BY <1>1, ThroughEnters, RecordingEnters
  <2>2. Last(stack'[c]) = f
    BY <2>1, PushedIsLast
  <2> QED BY <1>1, <2>1, <2>2 DEF Began
<1>2. CASE /\ LeaveThrough(c) \/ LeaveRecording(c)
           /\ trace' = Append(trace, EventOf("return", c, Last(stack[c])))
  <2>1. PICK e \in Ended : Left(c, e)
    BY <1>2, PopLeaves DEF LeaveThrough, LeaveRecording
  <2> QED BY <1>2, <2>1 DEF Over
<1>3. CASE LeaveRaising(c) /\ trace' = Append(trace, EventOf("raise", c, Last(stack[c])))
  <2>1. PICK e \in Ended : Left(c, e)
    BY <1>3, PopLeaves DEF LeaveRaising
  <2> QED BY <1>3, <2>1 DEF Over
<1> QED BY <1>1, <1>2, <1>3 DEF RecordStep

\* A call begins: the last event has its number, which is new.
LEMMA BeganGrows ==
    ASSUME WrapperTypeOK, TraceTypeOK, NEW c \in Contexts, NEW f \in Frame, Began(c, f)
    PROVE  /\ trace' \in Seq(Event) /\ Len(trace) \in Nat /\ Len(trace') = Len(trace) + 1
           /\ \A i \in 1 .. Len(trace) : trace'[i] = trace[i]
           /\ trace'[Len(trace) + 1] = EventOf("call", c, f)
           /\ f.call = calls + 1 /\ calls' = calls + 1 /\ calls \in Nat
           /\ UNCHANGED <<recording, ended>>
           /\ \A d \in Contexts \ {c} : stack'[d] = stack[d]
           /\ Len(stack[c]) \in Nat /\ Len(stack'[c]) = Len(stack[c]) + 1
           /\ \A i \in 1 .. Len(stack[c]) : stack'[c][i] = stack[c][i]
           /\ stack'[c][Len(stack[c]) + 1] = f
<1>1. EventOf("call", c, f) \in Event
  BY DEF EventOf, Event, Frame
<1>2. /\ trace' \in Seq(Event) /\ Len(trace) \in Nat /\ Len(trace') = Len(trace) + 1
      /\ \A i \in 1 .. Len(trace) : trace'[i] = trace[i]
      /\ trace'[Len(trace) + 1] = EventOf("call", c, f)
  BY <1>1, TraceGrows DEF Began
<1>3. f.call = calls + 1 /\ calls' = calls + 1 /\ calls \in Nat /\ UNCHANGED <<recording, ended>>
  BY DEF Began, Entered, WrapperTypeOK
<1>4. /\ \A d \in Contexts \ {c} : stack'[d] = stack[d]
      /\ Len(stack[c]) \in Nat /\ Len(stack'[c]) = Len(stack[c]) + 1
      /\ \A i \in 1 .. Len(stack[c]) : stack'[c][i] = stack[c][i]
      /\ stack'[c][Len(stack[c]) + 1] = f
  BY PushedStack DEF Began, Entered
<1> QED BY <1>2, <1>3, <1>4

\* A call ends: the last event is not a call and has the number of the frame on top.
LEMMA OverGrows ==
    ASSUME WrapperTypeOK, TraceTypeOK, NEW c \in Contexts, NEW e \in Ended, Over(c, e)
    PROVE  /\ trace' \in Seq(Event) /\ Len(trace) \in Nat /\ Len(trace') = Len(trace) + 1
           /\ \A i \in 1 .. Len(trace) : trace'[i] = trace[i]
           /\ trace'[Len(trace) + 1].event # "call"
           /\ trace'[Len(trace) + 1].call = Last(stack[c]).call
           /\ calls' = calls
           /\ \A d \in Contexts \ {c} : stack'[d] = stack[d]
           /\ Len(stack[c]) \in Nat \ {0} /\ Len(stack'[c]) = Len(stack[c]) - 1
           /\ \A i \in 1 .. Len(stack'[c]) : stack'[c][i] = stack[c][i]
           /\ Last(stack[c]) = stack[c][Len(stack[c])] /\ Last(stack[c]) \in Frame
<1>1. PICK name \in {"return", "raise"} :
         trace' = Append(trace, EventOf(name, c, Last(stack[c])))
  BY DEF Over
<1>2. /\ \A d \in Contexts \ {c} : stack'[d] = stack[d]
      /\ Len(stack[c]) \in Nat \ {0} /\ Len(stack'[c]) = Len(stack[c]) - 1
      /\ \A i \in 1 .. Len(stack'[c]) : stack'[c][i] = stack[c][i]
      /\ Last(stack[c]) = stack[c][Len(stack[c])] /\ Last(stack[c]) \in Frame
  BY PoppedStack DEF Over, Left
<1>3. EventOf(name, c, Last(stack[c])) \in Event
  BY <1>2 DEF EventOf, Event, Frame
<1>4. /\ trace' \in Seq(Event) /\ Len(trace) \in Nat /\ Len(trace') = Len(trace) + 1
      /\ \A i \in 1 .. Len(trace) : trace'[i] = trace[i]
      /\ trace'[Len(trace) + 1] = EventOf(name, c, Last(stack[c]))
  BY <1>1, <1>3, TraceGrows
<1>5. trace'[Len(trace) + 1].event # "call" /\ trace'[Len(trace) + 1].call = Last(stack[c]).call
  <2> HIDE <1>1
  <2> QED BY <1>4 DEF EventOf
<1>6. calls' = calls
  BY DEF Over, Left
<1> QED BY <1>2, <1>4, <1>5, <1>6

\* The event of an old index, and an end at an old index, are what they were.
LEMMA OldEvents ==
    ASSUME Len(trace) \in Nat, Len(trace') = Len(trace) + 1,
           \A i \in 1 .. Len(trace) : trace'[i] = trace[i]
    PROVE  /\ \A i \in 1 .. Len(trace) : Begins(i)' = Begins(i)
           /\ \A i, j \in 1 .. Len(trace) : EndsAt(i, j)' = EndsAt(i, j)
           /\ \A i \in 1 .. Len(trace') : i \in 1 .. Len(trace) \/ i = Len(trace) + 1
BY DEF Begins, EndsAt

LEMMA OrderedBegan ==
    ASSUME WrapperTypeOK, TraceInv, NEW c \in Contexts, NEW f \in Frame, Began(c, f)
    PROVE  TraceIsOrdered'
<1>n. PICK n : n = Len(trace)
  OBVIOUS
<1>1. /\ n \in Nat /\ Len(trace') = n + 1 /\ \A i \in 1 .. n : trace'[i] = trace[i]
      /\ trace'[n + 1].event = "call" /\ trace'[n + 1].call = calls + 1
      /\ calls \in Nat /\ calls' = calls + 1
  <2>1. /\ Len(trace) \in Nat /\ Len(trace') = Len(trace) + 1
        /\ \A i \in 1 .. Len(trace) : trace'[i] = trace[i]
        /\ trace'[Len(trace) + 1] = EventOf("call", c, f)
        /\ calls \in Nat /\ calls' = calls + 1 /\ f.call = calls + 1
    BY BeganGrows DEF TraceInv
  <2>2. trace'[n + 1] = EventOf("call", c, f)
    BY <1>n, <2>1
  <2>3. trace'[n + 1].event = "call" /\ trace'[n + 1].call = f.call
    BY <2>2 DEF EventOf
  <2> QED BY <1>n, <2>1, <2>3
<1>2. /\ \A i \in 1 .. n : Begins(i)' = Begins(i)
      /\ \A i, j \in 1 .. n : EndsAt(i, j)' = EndsAt(i, j)
      /\ \A i \in 1 .. Len(trace') : i \in 1 .. n \/ i = n + 1
  BY <1>n, <1>1, OldEvents
<1>3. TraceIsOrdered
  BY <1>n DEF TraceInv
<1>4. \A i \in 1 .. n : trace'[i].call \in 1 .. calls
  BY <1>n, <1>1, <1>3 DEF TraceIsOrdered
<1>5. \A i, j \in 1 .. Len(trace') : EndsAt(i, j)' => i \in 1 .. n /\ j \in 1 .. n
  <2> SUFFICES ASSUME NEW i \in 1 .. Len(trace'), NEW j \in 1 .. Len(trace'), EndsAt(i, j)'
               PROVE  i \in 1 .. n /\ j \in 1 .. n
    OBVIOUS
  <2>1. j \in 1 .. n
    BY <1>1, <1>2 DEF EndsAt
  <2>2. trace'[i].call \in 1 .. calls
    BY <1>4, <2>1 DEF EndsAt
  <2> QED BY <1>1, <1>2, <2>1, <2>2
<1>6. \A i \in 1 .. Len(trace') : trace'[i].call \in 1 .. calls'
  BY <1>1, <1>2, <1>4
<1>7. ASSUME NEW i \in 1 .. Len(trace'), NEW j \in 1 .. Len(trace'),
             Begins(i)', Begins(j)', trace'[i].call = trace'[j].call
      PROVE  i = j
  <2>1. CASE i \in 1 .. n /\ j \in 1 .. n
    BY <1>n, <1>1, <1>2, <1>3, <1>7, <2>1 DEF TraceIsOrdered
  <2>2. CASE i = n + 1 \/ j = n + 1
    BY <1>n, <1>1, <1>2, <1>4, <1>7, <2>2
  <2> QED BY <1>2, <2>1, <2>2
<1>8. ASSUME NEW i \in 1 .. Len(trace'), NEW j \in 1 .. Len(trace'), NEW k \in 1 .. Len(trace'),
             Begins(i)', EndsAt(i, j)', EndsAt(i, k)'
      PROVE  j = k /\ i < j
  <2>1. i \in 1 .. n /\ j \in 1 .. n /\ k \in 1 .. n
    BY <1>5, <1>8
  <2> QED BY <1>n, <1>2, <1>3, <1>8, <2>1 DEF TraceIsOrdered
<1> QED BY <1>n, <1>6, <1>7, <1>8 DEF TraceIsOrdered

\* The call of a frame begins at one index and has not ended.
LEMMA FrameIsOpen ==
    ASSUME WrapperTypeOK, TraceInv, NEW c \in Contexts, NEW k \in 1 .. Len(stack[c]),
           NEW i \in 1 .. Len(trace), Begins(i), trace[i].call = stack[c][k].call
    PROVE  IsOf(i, c, k) /\ OpenUntil(i, Len(trace) + 1)
<1>1. PICK o \in 1 .. Len(trace) : IsOf(o, c, k) /\ OpenUntil(o, Len(trace) + 1)
  BY DEF TraceInv, RunningIsTraced
<1>2. Begins(o) /\ trace[o].call = stack[c][k].call
  <2>1. trace[o].event = "call" /\ trace[o].call = stack[c][k].call
    BY <1>1 DEF IsOf, EventOf
  <2> QED BY <2>1 DEF Begins
<1>3. o = i
  BY <1>2 DEF TraceInv, TraceIsOrdered
<1> QED BY <1>1, <1>3

LEMMA OrderedOver ==
    ASSUME WrapperTypeOK, TraceInv, NEW c \in Contexts, NEW e \in Ended, Over(c, e)
    PROVE  TraceIsOrdered'
<1>n. PICK n : n = Len(trace)
  OBVIOUS
<1>m. PICK top : top = Len(stack[c])
  OBVIOUS
<1>1. /\ n \in Nat /\ Len(trace') = n + 1 /\ \A i \in 1 .. n : trace'[i] = trace[i]
      /\ trace'[n + 1].event # "call" /\ trace'[n + 1].call = stack[c][top].call
      /\ calls' = calls /\ top \in Nat \ {0}
  BY <1>n, <1>m, OverGrows DEF TraceInv
<1>2. /\ \A i \in 1 .. n : Begins(i)' = Begins(i)
      /\ \A i, j \in 1 .. n : EndsAt(i, j)' = EndsAt(i, j)
      /\ \A i \in 1 .. Len(trace') : i \in 1 .. n \/ i = n + 1
      /\ ~Begins(n + 1)'
  BY <1>n, <1>1, OldEvents DEF Begins
<1>3. TraceIsOrdered /\ top \in 1 .. Len(stack[c])
  BY <1>n, <1>m, <1>1 DEF TraceInv
<1>4. PICK o \in 1 .. n : IsOf(o, c, top) /\ OpenUntil(o, n + 1)
  BY <1>n, <1>m, <1>3 DEF TraceInv, RunningIsTraced
<1>5. trace[o].call = stack[c][top].call
  BY <1>n, <1>4 DEF IsOf, EventOf
<1>6. \A i \in 1 .. Len(trace') : trace'[i].call \in 1 .. calls'
  BY <1>n, <1>1, <1>2, <1>3, <1>5 DEF TraceIsOrdered
<1>7. \A i, j \in 1 .. Len(trace') :
         Begins(i)' /\ Begins(j)' /\ trace'[i].call = trace'[j].call => i = j
  BY <1>n, <1>1, <1>2, <1>3 DEF TraceIsOrdered
<1>8. ASSUME NEW i \in 1 .. n, Begins(i), EndsAt(i, n + 1)', NEW k \in 1 .. n
      PROVE  ~EndsAt(i, k)
  <2>1. trace[i].call = stack[c][top].call
    BY <1>1, <1>8 DEF EndsAt
  <2>2. OpenUntil(i, n + 1)
    BY <1>n, <1>3, <1>8, <2>1, FrameIsOpen
  <2> QED BY <1>n, <1>1, <2>2 DEF OpenUntil
<1>9. ASSUME NEW i \in 1 .. Len(trace'), NEW j \in 1 .. Len(trace'), NEW k \in 1 .. Len(trace'),
             Begins(i)', EndsAt(i, j)', EndsAt(i, k)'
      PROVE  j = k /\ i < j
  <2>1. i \in 1 .. n /\ Begins(i)
    BY <1>2, <1>9
  <2>2. CASE j \in 1 .. n /\ k \in 1 .. n
    BY <1>n, <1>2, <1>3, <1>9, <2>1, <2>2 DEF TraceIsOrdered
  <2>3. CASE j = n + 1 \/ k = n + 1
    <3>1. EndsAt(i, n + 1)'
      BY <1>9, <2>3
    <3>2. \A m \in 1 .. n : ~EndsAt(i, m)'
      BY <1>2, <1>8, <2>1, <3>1
    <3>3. j = n + 1 /\ k = n + 1
      BY <1>2, <1>9, <3>2
    <3> QED BY <1>1, <2>1, <3>3
  <2> QED BY <1>2, <2>2, <2>3
<1> QED BY <1>6, <1>7, <1>9 DEF TraceIsOrdered

LEMMA RunningBegan ==
    ASSUME WrapperTypeOK, CallsAreDistinct, TraceInv,
           NEW c \in Contexts, NEW f \in Frame, Began(c, f)
    PROVE  RunningIsTraced'
<1>n. PICK n : n = Len(trace)
  OBVIOUS
<1>m. PICK m : m = Len(stack[c])
  OBVIOUS
<1>1. /\ n \in Nat /\ Len(trace') = n + 1 /\ \A i \in 1 .. n : trace'[i] = trace[i]
      /\ trace'[n + 1] = EventOf("call", c, f) /\ f.call = calls + 1
      /\ calls \in Nat /\ calls' = calls + 1
      /\ \A d \in Contexts \ {c} : stack'[d] = stack[d]
      /\ m \in Nat /\ Len(stack'[c]) = m + 1
      /\ \A i \in 1 .. m : stack'[c][i] = stack[c][i]
      /\ stack'[c][m + 1] = f
  BY <1>n, <1>m, BeganGrows DEF TraceInv
<1>2. /\ \A i \in 1 .. n : Begins(i)' = Begins(i)
      /\ \A i, j \in 1 .. n : EndsAt(i, j)' = EndsAt(i, j)
      /\ \A i \in 1 .. Len(trace') : i \in 1 .. n \/ i = n + 1
  BY <1>n, <1>1, OldEvents
<1>3. trace'[n + 1].event = "call" /\ trace'[n + 1].call = calls + 1 /\ trace'[n + 1].context = c
  BY <1>n, <1>1 DEF EventOf
<1>4. \A i \in 1 .. n + 1 : ~EndsAt(i, n + 1)'
  BY <1>3 DEF EndsAt
<1>5. \A i \in 1 .. n : trace'[i].call \in 1 .. calls /\ trace[i].context \in Contexts
  <2>1. \A i \in 1 .. n : trace[i] \in Event
    BY <1>n, ElementOfSeq DEF TraceInv, TraceTypeOK
  <2> QED BY <1>n, <1>1, <2>1 DEF TraceInv, TraceIsOrdered, Event
<1>6. \A i \in 1 .. n : OpenUntil(i, n + 1)' = OpenUntil(i, n + 1)
  BY <1>n, <1>1, <1>2 DEF OpenUntil
<1>7. \A i \in 1 .. n : OpenUntil(i, n + 1)' <=> OpenUntil(i, n + 2)'
  <2>1. (n + 1) - 1 = n /\ (n + 2) - 1 = n + 1 /\ 1 .. n + 1 = (1 .. n) \cup {n + 1}
    BY <1>1
  <2>2. \A i \in 1 .. n : ~EndsAt(i, n + 1)'
    BY <1>1, <1>4
  <2> QED BY <2>1, <2>2 DEF OpenUntil
<1>8. ASSUME NEW d \in Contexts, NEW k \in 1 .. Len(stack'[d])
      PROVE  \E i \in 1 .. Len(trace') : IsOf(i, d, k)' /\ OpenUntil(i, Len(trace) + 1)'
  <2>1. CASE d = c /\ k = m + 1
    <3>1. IsOf(n + 1, d, k)'
      BY <1>1, <2>1 DEF IsOf
    <3>2. \A j \in 1 .. n + 1 : ~EndsAt(n + 1, j)'
      BY <1>1, <1>2, <1>3, <1>5 DEF EndsAt
    <3>3. OpenUntil(n + 1, Len(trace) + 1)'
      <4>1. Len(trace') + 1 - 1 = n + 1
        BY <1>1
      <4> QED BY <3>2, <4>1 DEF OpenUntil
    <3>4. n + 1 \in 1 .. Len(trace')
      BY <1>1
    <3> QED BY <3>1, <3>3, <3>4
  <2>2. CASE ~(d = c /\ k = m + 1)
    <3>1. k \in 1 .. Len(stack[d]) /\ stack'[d][k] = stack[d][k]
      BY <1>m, <1>1, <2>2
    <3>2. PICK i \in 1 .. n : IsOf(i, d, k) /\ OpenUntil(i, n + 1)
      BY <1>n, <1>m, <3>1 DEF TraceInv, RunningIsTraced
    <3>3. IsOf(i, d, k)'
      BY <1>n, <1>1, <3>1, <3>2 DEF IsOf, EventOf
    <3>4. OpenUntil(i, n + 2)'
      BY <1>6, <1>7, <3>2
    <3>5. n + 2 = Len(trace') + 1 /\ i \in 1 .. Len(trace')
      BY <1>1, <3>2
    <3> QED BY <3>3, <3>4, <3>5
  <2> QED BY <2>1, <2>2
<1>9. ASSUME NEW i \in 1 .. Len(trace'), Begins(i)', OpenUntil(i, Len(trace) + 1)'
      PROVE  \E k \in 1 .. Len(stack'[trace'[i].context]) :
                 stack'[trace'[i].context][k].call = trace'[i].call
  <2>1. CASE i = n + 1
    <3>1. m + 1 \in 1 .. Len(stack'[c])
      BY <1>1
    <3> QED BY <1>1, <1>3, <2>1, <3>1
  <2>2. CASE i \in 1 .. n
    <3>1. Len(trace') + 1 = n + 2
      BY <1>1
    <3>2. Begins(i) /\ OpenUntil(i, n + 1)
      BY <1>2, <1>6, <1>7, <1>9, <2>2, <3>1
    <3>3. PICK k \in 1 .. Len(stack[trace[i].context]) :
             stack[trace[i].context][k].call = trace[i].call
      BY <1>n, <2>2, <3>2 DEF TraceInv, RunningIsTraced
    <3>4. trace'[i] = trace[i] /\ trace[i].context \in Contexts
      BY <1>n, <1>1, <1>5, <2>2
    <3>5. /\ k \in 1 .. Len(stack'[trace[i].context])
          /\ stack'[trace[i].context][k] = stack[trace[i].context][k]
      BY <1>m, <1>1, <3>3, <3>4
    <3> QED BY <1>m, <3>3, <3>4, <3>5
  <2> QED BY <1>m, <1>2, <2>1, <2>2
<1> QED BY <1>8, <1>9 DEF RunningIsTraced

LEMMA RunningOver ==
    ASSUME WrapperTypeOK, CallsAreDistinct, TraceInv,
           NEW c \in Contexts, NEW e \in Ended, Over(c, e)
    PROVE  RunningIsTraced'
<1>n. PICK n : n = Len(trace)
  OBVIOUS
<1>m. PICK m : m = Len(stack[c])
  OBVIOUS
<1>1. /\ n \in Nat /\ Len(trace') = n + 1 /\ \A i \in 1 .. n : trace'[i] = trace[i]
      /\ trace'[n + 1].event # "call" /\ trace'[n + 1].call = stack[c][m].call
      /\ \A d \in Contexts \ {c} : stack'[d] = stack[d]
      /\ m \in Nat \ {0} /\ Len(stack'[c]) = m - 1
      /\ \A i \in 1 .. Len(stack'[c]) : stack'[c][i] = stack[c][i]
  BY <1>n, <1>m, OverGrows DEF TraceInv
<1>2. /\ \A i \in 1 .. n : Begins(i)' = Begins(i)
      /\ \A i, j \in 1 .. n : EndsAt(i, j)' = EndsAt(i, j)
      /\ \A i \in 1 .. Len(trace') : i \in 1 .. n \/ i = n + 1
      /\ ~Begins(n + 1)' /\ m \in 1 .. Len(stack[c])
  BY <1>n, <1>m, <1>1, OldEvents DEF Begins
<1>3. \A i \in 1 .. n : trace[i].context \in Contexts
  <2>1. \A i \in 1 .. n : trace[i] \in Event
    BY <1>n, ElementOfSeq DEF TraceInv, TraceTypeOK
  <2> QED BY <1>n, <2>1 DEF Event
<1>4. \A i \in 1 .. n : EndsAt(i, n + 1)' <=> trace[i].call = stack[c][m].call
  BY <1>1 DEF EndsAt
<1>5. \A i \in 1 .. n : OpenUntil(i, n + 1)' = OpenUntil(i, n + 1)
  BY <1>1, <1>2 DEF OpenUntil
<1>6. \A i \in 1 .. n : OpenUntil(i, n + 2)' <=>
                           OpenUntil(i, n + 1) /\ trace[i].call # stack[c][m].call
  <2>1. (n + 1) - 1 = n /\ (n + 2) - 1 = n + 1 /\ 1 .. n + 1 = (1 .. n) \cup {n + 1}
    BY <1>1
  <2>2. \A i \in 1 .. n : OpenUntil(i, n + 2)' <=> OpenUntil(i, n + 1)' /\ ~EndsAt(i, n + 1)'
    BY <2>1 DEF OpenUntil
  <2> QED BY <2>2, <1>4, <1>5
<1>7. Len(trace') + 1 = n + 2
  BY <1>1
<1>8. ASSUME NEW d \in Contexts, NEW k \in 1 .. Len(stack'[d])
      PROVE  \E i \in 1 .. Len(trace') : IsOf(i, d, k)' /\ OpenUntil(i, Len(trace) + 1)'
  <2>1. /\ k \in 1 .. Len(stack[d]) /\ stack'[d][k] = stack[d][k]
        /\ ~(d = c /\ k = m)
    <3>1. CASE d = c
      BY <1>m, <1>1, <3>1
    <3>2. CASE d # c
      BY <1>m, <1>1, <3>2
    <3> QED BY <3>1, <3>2
  <2>2. PICK i \in 1 .. n : IsOf(i, d, k) /\ OpenUntil(i, n + 1)
    BY <1>n, <2>1 DEF TraceInv, RunningIsTraced
  <2>3. trace[i].call = stack[d][k].call
    BY <1>n, <2>2 DEF IsOf, EventOf
  <2>4. stack[d][k].call # stack[c][m].call
    BY <1>2, <2>1 DEF CallsAreDistinct
  <2>5. IsOf(i, d, k)'
    BY <1>1, <2>1, <2>2 DEF IsOf, EventOf
  <2>6. OpenUntil(i, n + 2)'
    BY <1>6, <2>2, <2>3, <2>4
  <2>7. i \in 1 .. Len(trace')
    BY <1>1
  <2> QED BY <1>7, <2>5, <2>6, <2>7
<1>9. ASSUME NEW i \in 1 .. Len(trace'), Begins(i)', OpenUntil(i, Len(trace) + 1)'
      PROVE  \E k \in 1 .. Len(stack'[trace'[i].context]) :
                 stack'[trace'[i].context][k].call = trace'[i].call
  <2>1. i \in 1 .. n
    BY <1>2, <1>9
  <2>2. Begins(i) /\ OpenUntil(i, n + 1) /\ trace[i].call # stack[c][m].call
    BY <1>2, <1>6, <1>7, <1>9, <2>1
  <2>3. PICK k \in 1 .. Len(stack[trace[i].context]) :
           stack[trace[i].context][k].call = trace[i].call
    BY <1>n, <2>1, <2>2 DEF TraceInv, RunningIsTraced
  <2>4. trace'[i] = trace[i] /\ trace[i].context \in Contexts
    BY <1>n, <1>1, <1>3, <2>1
  <2>5. /\ k \in 1 .. Len(stack'[trace[i].context])
        /\ stack'[trace[i].context][k] = stack[trace[i].context][k]
    <3>1. CASE trace[i].context = c
      <4>1. k # m /\ k \in 1 .. m
        BY <1>m, <2>2, <2>3, <3>1
      <4>2. k \in 1 .. Len(stack'[c])
        BY <1>m, <1>1, <4>1
      <4> QED BY <1>1, <3>1, <4>2
    <3>2. CASE trace[i].context # c
      BY <1>1, <2>3, <2>4, <3>2
    <3> QED BY <3>1, <3>2
  <2> QED BY <2>3, <2>4, <2>5
<1> QED BY <1>8, <1>9 DEF RunningIsTraced

-----------------------------------------------------------------------------
(* The records that are left                                               *)

\* pop_matching_record finds a record with the params, if there is one.
LEMMA FirstMatchMatches ==
    ASSUME records \in Seq(Entry), NEW e
    PROVE  \/ /\ FirstMatchOf(e) \in 1 .. Len(records)
              /\ records[FirstMatchOf(e)].params = e.params
              /\ \A k \in 1 .. Len(records) :
                    records[k].params = e.params => FirstMatchOf(e) <= k
           \/ /\ FirstMatchOf(e) = 0
              /\ \A k \in 1 .. Len(records) : records[k].params # e.params
<1> DEFINE I == {k \in 1 .. Len(records) : records[k].params = e.params}
           m == FirstMatchOf(e)
<1>1. m = IF I # {} THEN Min(I) ELSE 0
  BY DEF FirstMatchOf, SelectInSeq
<1>2. CASE I = {}
  BY <1>1, <1>2
<1>3. CASE I # {}
  <2>1. I \in SUBSET Nat
    BY LenProperties
  <2>2. \E k \in I : \A l \in I : <<l, k>> \notin OpToRel(<, Nat)
    <3> HIDE DEF I
    <3> QED BY <1>3, <2>1, NatLessThanWellFounded, WFMin, Zenon
  <2>3. PICK k \in I : \A l \in I : ~(l < k)
    BY <2>1, <2>2 DEF OpToRel
  <2>4. \A l \in I : k <= l
    BY <2>1, <2>3
  <2>5. Min(I) \in I /\ \A l \in I : Min(I) <= l
    <3> HIDE DEF I
    <3> QED BY <2>4 DEF Min
  <2> HIDE DEF m
  <2>6. m \in I /\ \A l \in I : m <= l
    BY <1>1, <1>3, <2>5
  <2> QED BY <2>6 DEF m
<1> QED BY <1>2, <1>3

\* The records after m move up when the one at m is taken out.
LEMMA RemoveAtRemoves ==
    ASSUME NEW S, NEW s \in Seq(S), NEW m \in 1 .. Len(s)
    PROVE  /\ RemoveAt(s, m) \in Seq(S)
           /\ Len(s) \in Nat /\ Len(RemoveAt(s, m)) = Len(s) - 1
           /\ \A i \in 1 .. Len(s) - 1 :
                 RemoveAt(s, m)[i] = IF i < m THEN s[i] ELSE s[i + 1]
<1> DEFINE n == Len(s)
           p == SubSeq(s, 1, m - 1)
           q == SubSeq(s, m + 1, n)
<1>1. n \in Nat /\ m \in 1 .. n /\ \A i \in 1 .. n : s[i] \in S
  BY LenProperties, ElementOfSeq
<1>2. /\ p \in Seq(S) /\ Len(p) = m - 1 /\ \A i \in 1 .. m - 1 : p[i] = s[i]
  <2>1. 1 \in Int /\ m - 1 \in Int /\ \A i \in 1 .. m - 1 : s[i] \in S
    BY <1>1
  <2>2. /\ p \in Seq(S)
        /\ Len(p) = IF 1 <= m - 1 THEN (m - 1) - 1 + 1 ELSE 0
        /\ \A i \in 1 .. (m - 1) - 1 + 1 : p[i] = s[1 + i - 1]
    BY <2>1, SubSeqProperties
  <2> HIDE DEF p
  <2> QED BY <1>1, <2>2
<1>3. /\ q \in Seq(S) /\ Len(q) = n - m /\ \A i \in 1 .. n - m : q[i] = s[m + i]
  <2>1. m + 1 \in Int /\ n \in Int /\ \A i \in m + 1 .. n : s[i] \in S
    BY <1>1
  <2>2. /\ q \in Seq(S)
        /\ Len(q) = IF m + 1 <= n THEN n - (m + 1) + 1 ELSE 0
        /\ \A i \in 1 .. n - (m + 1) + 1 : q[i] = s[(m + 1) + i - 1]
    BY <2>1, SubSeqProperties
  <2> HIDE DEF q
  <2> QED BY <1>1, <2>2
<1>4. RemoveAt(s, m) = p \o q
  BY DEF RemoveAt
<1> HIDE DEF p, q
<1>5. /\ p \o q \in Seq(S) /\ Len(p \o q) = Len(p) + Len(q)
      /\ \A i \in 1 .. Len(p) + Len(q) :
            (p \o q)[i] = IF i <= Len(p) THEN p[i] ELSE q[i - Len(p)]
  BY <1>2, <1>3, ConcatProperties
<1>6. Len(p) + Len(q) = n - 1
  BY <1>1, <1>2, <1>3
<1>7. ASSUME NEW i \in 1 .. n - 1 PROVE (p \o q)[i] = IF i < m THEN s[i] ELSE s[i + 1]
  <2>1. CASE i < m
    <3>1. i <= Len(p) /\ i \in 1 .. m - 1
      BY <1>1, <1>2, <2>1
    <3> QED BY <1>2, <1>5, <1>6, <2>1, <3>1
  <2>2. CASE ~(i < m)
    <3>1. ~(i <= Len(p)) /\ i - Len(p) \in 1 .. n - m /\ m + (i - Len(p)) = i + 1
      BY <1>1, <1>2, <2>2
    <3> QED BY <1>3, <1>5, <1>6, <2>2, <3>1
  <2> QED BY <2>1, <2>2
<1> HIDE DEF n
<1> QED BY <1>1, <1>4, <1>5, <1>6, <1>7 DEF n

-----------------------------------------------------------------------------
(* The trace                                                               *)

\* A step of the replay leaves the recorded program alone.
LEMMA ReplayLeavesTrace == ReplayStep \/ StartReplay => vars' = vars /\ trace' = trace
BY DEF ReplayStep, ReplayMocked, ReplayUnmatched, ReplayThrough, StartReplay

\* What is loaded has a record for each that was written, of the same call.
LEMMA LoadedRecords ==
    ASSUME WrapperTypeOK, NEW s \in Sources
    PROVE  /\ Loaded(s) \in Seq(Entry) /\ Len(Loaded(s)) = Len(recording)
           /\ \A k \in 1 .. Len(recording) : Loaded(s)[k].call = recording[k].call
<1>1. PICK n \in Nat : n = Len(recording)
  BY LenProperties DEF WrapperTypeOK
<1>2. DOMAIN recording = 1 .. n /\ \A k \in 1 .. n : recording[k] \in Entry
  BY <1>1, LenProperties DEF WrapperTypeOK
<1>3. CASE s # "dict"
  BY <1>3 DEF Loaded, WrapperTypeOK
<1>4. CASE s = "dict"
  <2> DEFINE q == [i \in 1 .. n |-> [recording[i] EXCEPT !.params = AsLoaded[@]]]
  <2>1. Loaded(s) = q
    BY <1>2, <1>4 DEF Loaded
  <2>2. \A i \in 1 .. n : q[i] = [recording[i] EXCEPT !.params = AsLoaded[@]]
    OBVIOUS
  <2>3. \A r \in Entry : /\ [r EXCEPT !.params = AsLoaded[@]] \in Entry
                          /\ [r EXCEPT !.params = AsLoaded[@]].call = r.call
    BY LoadedAssumption DEF Entry
  <2>4. q \in [1 .. n -> Entry]
    BY <1>2, <2>3
  <2> HIDE DEF q
  <2>5. q \in Seq(Entry) /\ Len(q) = n
    BY <2>4
  <2>6. \A i \in 1 .. n : q[i].call = recording[i].call
    BY <1>2, <2>2, <2>3
  <2> QED BY <1>1, <2>1, <2>5, <2>6
<1> QED BY <1>3, <1>4

\* From a recording that is intact come the records that were made.
LEMMA IntactIsLoaded ==
    ASSUME WrapperTypeOK, vars' = vars, source' \in Sources, Intact'
    PROVE  Loaded(source') = recording
<1>1. recording' = recording
  BY DEF vars
<1>2. recording \in Seq(Entry) /\ DOMAIN recording = 1 .. Len(recording)
  BY LenProperties DEF WrapperTypeOK
<1>3. CASE source' = "memory"
  BY <1>3 DEF Loaded
<1>4. CASE source' = "dict"
  <2>1. \A i \in DOMAIN recording : /\ recording[i] \in Entry
                                    /\ AsLoaded[recording[i].params] = recording[i].params
    BY <1>1, <1>2, <1>4 DEF Intact
  <2>2. \A r \in Entry : AsLoaded[r.params] = r.params =>
                             [r EXCEPT !.params = AsLoaded[@]] = r
    BY DEF Entry
  <2>3. Loaded(source') = [i \in DOMAIN recording |-> recording[i]]
    BY <1>4, <2>1, <2>2 DEF Loaded
  <2> QED BY <1>2, <2>3
<1> QED BY <1>3, <1>4 DEF Intact

LEMMA IntactStays ==
    ASSUME vars' = vars, source' = source PROVE Intact' = Intact
BY DEF vars, Intact

\* An intact recording can be read.
LEMMA IntactIsReadable == Intact => Readable
BY DEF Intact, Readable

LEMMA TraceTypeNext ==
    ASSUME WrapperTypeOK, TraceTypeOK, [ReplayNext]_allVars PROVE TraceTypeOK'
<1>1. ASSUME NEW c \in Contexts, RecordStep(c) PROVE TraceTypeOK'
  <2>1. trace' \in Seq(Event)
    BY <1>1, RecordStepTraces, BeganGrows, OverGrows
  <2> QED BY <1>1, <2>1 DEF RecordStep, replayVars, TraceTypeOK
<1>2. CASE StartReplay
  <2>1. source' \in Sources /\ records' = Loaded(source')
    BY <1>2 DEF StartReplay
  <2>2. Loaded(source') \in Seq(Entry)
    BY <2>1, LoadedRecords
  <2> QED BY <1>2, <2>1, <2>2 DEF StartReplay, TraceTypeOK
<1>3. CASE ReplayMocked
  <2> DEFINE m == FirstMatchOf(Here)
  <2>1. m # 0 /\ records' = RemoveAt(records, m)
    BY <1>3 DEF ReplayMocked
  <2>2. m \in 1 .. Len(records)
    BY <2>1, FirstMatchMatches DEF TraceTypeOK
  <2> HIDE DEF m
  <2>3. records' \in Seq(Entry)
    BY <2>1, <2>2, RemoveAtRemoves DEF TraceTypeOK
  <2> QED BY <1>3, <2>3 DEF ReplayMocked, TraceTypeOK
<1>4. CASE ReplayUnmatched
  BY <1>4 DEF ReplayUnmatched, TraceTypeOK
<1>5. CASE ReplayThrough
  BY <1>5 DEF ReplayThrough, TraceTypeOK
<1>6. CASE UNCHANGED allVars
  BY <1>6 DEF allVars, replayVars, TraceTypeOK
<1> QED BY <1>1, <1>2, <1>3, <1>4, <1>5, <1>6 DEF ReplayNext, ReplayStep

LEMMA TraceInvInit == TraceInit => TraceInv
<1> SUFFICES ASSUME TraceInit PROVE TraceInv
  OBVIOUS
<1>1. trace = <<>> /\ Len(trace) = 0 /\ \A c \in Contexts : stack[c] = <<>> /\ Len(stack[c]) = 0
  BY DEF TraceInit, Init
<1>2. TraceTypeOK
  BY DEF TraceInit, TraceTypeOK, Sources
<1>3. TraceIsOrdered /\ RunningIsTraced
  BY <1>1 DEF TraceIsOrdered, RunningIsTraced
<1> QED BY <1>2, <1>3 DEF TraceInv

\* What the trace says of calls and stacks is about the trace and the wrapper only.
LEMMA TraceStays ==
    ASSUME vars' = vars, trace' = trace, TraceIsOrdered, RunningIsTraced
    PROVE  TraceIsOrdered' /\ RunningIsTraced'
<1>1. stack' = stack /\ calls' = calls /\ trace' = trace
  BY DEF vars
<1>2. TraceIsOrdered' = TraceIsOrdered
  BY <1>1 DEF TraceIsOrdered, Begins, EndsAt
<1>3. RunningIsTraced' = RunningIsTraced
  BY <1>1 DEF RunningIsTraced, IsOf, OpenUntil, EndsAt, Begins, EventOf
<1> QED BY <1>2, <1>3

LEMMA TraceInvNext ==
    ASSUME WrapperInv, TraceInv, [ReplayNext]_allVars PROVE TraceInv'
<1>1. WrapperTypeOK /\ CallsAreDistinct /\ TraceTypeOK /\ TraceIsOrdered /\ RunningIsTraced
  BY DEF WrapperInv, TraceInv
<1>2. TraceTypeOK'
  BY <1>1, TraceTypeNext
<1>3. ASSUME NEW c \in Contexts, RecordStep(c) PROVE TraceIsOrdered' /\ RunningIsTraced'
  BY <1>1, <1>3, RecordStepTraces, OrderedBegan, OrderedOver, RunningBegan, RunningOver
<1>4. CASE StartReplay \/ ReplayStep
  BY <1>1, <1>2, <1>4, ReplayLeavesTrace, TraceStays DEF TraceInv
<1>5. CASE UNCHANGED allVars
  BY <1>1, <1>2, <1>5, TraceStays DEF allVars, TraceInv
<1> QED BY <1>2, <1>3, <1>4, <1>5 DEF ReplayNext, TraceInv

-----------------------------------------------------------------------------
(* Which calls of the trace are recorded                                   *)

\* The call that begins at i has a record, or a frame that will add one.
Recorded(i) ==
    \/ \E k \in 1 .. Len(recording) : recording[k].call = trace[i].call
    \/ \E k \in 1 .. Len(stack[trace[i].context]) :
          /\ stack[trace[i].context][k].records
          /\ stack[trace[i].context][k].call = trace[i].call

\* The event at i happens inside the call that begins at o.
Within(i, o) ==
    o < i /\ trace[o].context = trace[i].context /\ OpenUntil(o, i)

\* What is recorded of a program that can be replayed: only calls that replay
\* mocks, with their params, and of these exactly the ones in no recorded call.
RecordedAreOutermost ==
    Replayable =>
        /\ \A i \in 1 .. Len(trace) : Begins(i) /\ Recorded(i) => Mocked(trace[i])
        /\ \A k \in 1 .. Len(recording) :
              \E i \in 1 .. Len(trace) :
                  /\ Begins(i) /\ trace[i].call = recording[k].call
                  /\ trace[i].params = recording[k].params
        /\ \A i \in 1 .. Len(trace) : Mocked(trace[i]) =>
              (Recorded(i) <=>
                 ~\E o \in 1 .. Len(trace) : Begins(o) /\ Recorded(o) /\ Within(i, o))

\* The steps of the program again, with what each does to the records.
BeganGuarded(c, f) ==
    /\ Began(c, f)
    /\ f.records => Recordable(f) /\ ~flag[c]
    /\ ~f.records => (Recordable(f) => flag[c])
OverThrough(c, e) == Over(c, e) /\ ~Last(stack[c]).records /\ recording' = recording
OverRecording(c, e) == Over(c, e) /\ Last(stack[c]).records /\ AddRecord(Last(stack[c]))

LEMMA RecordStepRecords ==
    ASSUME WrapperTypeOK, NEW c \in Contexts, RecordStep(c)
    PROVE  \/ \E f \in Frame : BeganGuarded(c, f)
           \/ \E e \in Ended : OverThrough(c, e) \/ OverRecording(c, e)
           \/ \E e \in Ended : Over(c, e) /\ e.raised /\ recording' = recording
<1>1. CASE EnterThrough(c) /\ trace' = Append(trace, EventOf("call", c, Last(stack'[c])))
  <2>1. PICK f \in Frame : Entered(c, f) /\ ~f.records /\ (Recordable(f) => flag[c])
    BY <1>1, ThroughEnters
  <2>2. Last(stack'[c]) = f
    BY <2>1, PushedIsLast
  <2> QED BY <1>1, <2>1, <2>2 DEF Began, BeganGuarded
<1>2. CASE EnterRecording(c) /\ trace' = Append(trace, EventOf("call", c, Last(stack'[c])))
  <2>1. PICK f \in Frame : Entered(c, f) /\ f.records /\ Recordable(f) /\ ~flag[c]
    BY <1>2, RecordingEnters
  <2>2. Last(stack'[c]) = f
    BY <2>1, PushedIsLast
  <2> QED BY <1>2, <2>1, <2>2 DEF Began, BeganGuarded
<1>3. CASE LeaveThrough(c) /\ trace' = Append(trace, EventOf("return", c, Last(stack[c])))
  <2>1. PICK e \in Ended : Left(c, e)
    BY <1>3, PopLeaves DEF LeaveThrough
  <2> QED BY <1>3, <2>1 DEF Over, OverThrough, LeaveThrough
<1>4. CASE LeaveRecording(c) /\ trace' = Append(trace, EventOf("return", c, Last(stack[c])))
  <2>1. PICK e \in Ended : Left(c, e)
    BY <1>4, PopLeaves DEF LeaveRecording
  <2> QED BY <1>4, <2>1 DEF Over, OverRecording, LeaveRecording
<1>5. CASE LeaveRaising(c) /\ trace' = Append(trace, EventOf("raise", c, Last(stack[c])))
  <2>1. PICK e \in Ended : Left(c, e) /\ e.raised
    BY <1>5, PopLeaves DEF LeaveRaising
  <2> QED BY <1>5, <2>1 DEF Over, LeaveRaising
<1> QED BY <1>1, <1>2, <1>3, <1>4, <1>5 DEF RecordStep

\* A program that can be replayed could be before its last step.
LEMMA ReplayableBefore ==
    ASSUME WrapperTypeOK, TraceTypeOK, NEW c \in Contexts, RecordStep(c), Replayable'
    PROVE  /\ Replayable
           /\ \A i \in 1 .. Len(trace') : trace'[i].kind # "no_params"
           /\ \A e \in ended' : ~e.raised
<1>1. /\ trace' \in Seq(Event) /\ Len(trace) \in Nat /\ Len(trace') = Len(trace) + 1
      /\ \A i \in 1 .. Len(trace) : trace'[i] = trace[i]
      /\ ended \subseteq ended'
  <2>1. ASSUME NEW f \in Frame, Began(c, f) PROVE <1>1!:
    BY <2>1, BeganGrows
  <2>2. ASSUME NEW e \in Ended, Over(c, e) PROVE <1>1!:
    <3>1. ended \subseteq ended'
      BY <2>2 DEF Over, Left
    <3> QED BY <2>2, <3>1, OverGrows
  <2> QED BY <2>1, <2>2, RecordStepTraces
<1>2. DOMAIN trace = 1 .. Len(trace) /\ DOMAIN trace' = 1 .. Len(trace')
  BY <1>1, LenProperties DEF TraceTypeOK
<1> QED BY <1>1, <1>2 DEF Replayable, NobodyRaised

\* A frame's call has no record yet.
LEMMA RunningHasNoRecord ==
    ASSUME WrapperInv, NEW c \in Contexts, NEW k \in 1 .. Len(stack[c]),
           NEW r \in 1 .. Len(recording)
    PROVE  recording[r].call # stack[c][k].call /\ recording[r].call \in 1 .. calls
<1>1. PICK x \in ended : x.call = recording[r].call
  BY DEF WrapperInv, RecordsAreOfWanted
<1> QED BY <1>1 DEF WrapperInv, CallsAreDistinct

LEMMA RecordsAreCalls ==
    ASSUME WrapperInv, NEW r \in 1 .. Len(recording)
    PROVE  recording[r].call \in 1 .. calls
<1>1. PICK x \in ended : x.call = recording[r].call
  BY DEF WrapperInv, RecordsAreOfWanted
<1> QED BY <1>1 DEF WrapperInv, CallsAreDistinct

LEMMA TracedContexts ==
    ASSUME TraceTypeOK, NEW i \in 1 .. Len(trace) PROVE trace[i].context \in Contexts
<1>1. trace[i] \in Event
  BY ElementOfSeq DEF TraceTypeOK
<1> QED BY <1>1 DEF Event

\* A call that begins has a new number, so it changes nothing for the calls before.
LEMMA BeganRecorded ==
    ASSUME WrapperInv, TraceInv, NEW c \in Contexts, NEW f \in Frame, Began(c, f)
    PROVE  /\ \A i \in 1 .. Len(trace) : Recorded(i)' <=> Recorded(i)
           /\ \A n : n = Len(trace) + 1 => (Recorded(n)' <=> f.records)
<1>n. PICK n : n = Len(trace)
  OBVIOUS
<1>m. PICK m : m = Len(stack[c])
  OBVIOUS
<1>t. WrapperTypeOK /\ TraceTypeOK
  BY DEF WrapperInv, TraceInv
<1>1. /\ n \in Nat /\ Len(trace') = n + 1 /\ \A i \in 1 .. n : trace'[i] = trace[i]
      /\ trace'[n + 1] = EventOf("call", c, f) /\ f.call = calls + 1
      /\ calls \in Nat /\ recording' = recording
      /\ \A d \in Contexts \ {c} : stack'[d] = stack[d]
      /\ m \in Nat /\ Len(stack'[c]) = m + 1
      /\ \A i \in 1 .. m : stack'[c][i] = stack[c][i]
      /\ stack'[c][m + 1] = f
  BY <1>n, <1>m, <1>t, BeganGrows
<1>2. trace'[n + 1].call = calls + 1 /\ trace'[n + 1].context = c
  BY <1>1 DEF EventOf
<1>3. ASSUME NEW i \in 1 .. n PROVE Recorded(i)' <=> Recorded(i)
  <2>1. trace[i].call \in 1 .. calls /\ trace'[i] = trace[i] /\ trace[i].context \in Contexts
    BY <1>1, <1>n, <1>t, TracedContexts DEF TraceInv, TraceIsOrdered
  <2>2. trace[i].call # f.call
    BY <1>1, <2>1
  <2>3. PICK d \in Contexts : d = trace[i].context
    BY <2>1
  <2>4. (\E k \in 1 .. Len(stack'[d]) : stack'[d][k].records /\ stack'[d][k].call = trace[i].call)
        <=> (\E k \in 1 .. Len(stack[d]) : stack[d][k].records /\ stack[d][k].call = trace[i].call)
    <3>1. CASE d = c
      <4>1. \A k \in 1 .. Len(stack[c]) : k \in 1 .. Len(stack'[c]) /\ stack'[c][k] = stack[c][k]
        BY <1>1, <1>m
      <4>2. \A k \in 1 .. Len(stack'[c]) : k \in 1 .. Len(stack[c]) \/ stack'[c][k] = f
        BY <1>1, <1>m
      <4> QED BY <2>2, <3>1, <4>1, <4>2
    <3>2. CASE d # c
      BY <1>1, <3>2
    <3> QED BY <3>1, <3>2
  <2> QED BY <1>1, <2>1, <2>3, <2>4 DEF Recorded
<1>4. Recorded(n + 1)' <=> f.records
  <2>1. \A k \in 1 .. Len(recording') : recording'[k].call # calls + 1
    BY <1>1, RecordsAreCalls
  <2>2. \A k \in 1 .. m : stack'[c][k].call # calls + 1
    BY <1>1, <1>m DEF WrapperInv, CallsAreDistinct
  <2>3. \A k \in 1 .. Len(stack'[c]) : k \in 1 .. m \/ k = m + 1
    BY <1>1
  <2>4. m + 1 \in 1 .. Len(stack'[c])
    BY <1>1
  <2>5. (\E k \in 1 .. Len(stack'[c]) : stack'[c][k].records /\ stack'[c][k].call = calls + 1)
        <=> f.records
    BY <1>1, <2>2, <2>3, <2>4
  <2> QED BY <1>2, <2>1, <2>5 DEF Recorded
<1> QED BY <1>n, <1>3, <1>4

\* A call that is not recorded ends.
LEMMA OverThroughRecorded ==
    ASSUME WrapperInv, TraceInv, NEW c \in Contexts, NEW e \in Ended, OverThrough(c, e)
    PROVE  \A i \in 1 .. Len(trace) : Recorded(i)' <=> Recorded(i)
<1>m. PICK m : m = Len(stack[c])
  OBVIOUS
<1>t. WrapperTypeOK /\ TraceTypeOK /\ Over(c, e) /\ recording' = recording
  BY DEF WrapperInv, TraceInv, OverThrough
<1>1. /\ \A i \in 1 .. Len(trace) : trace'[i] = trace[i]
      /\ \A d \in Contexts \ {c} : stack'[d] = stack[d]
      /\ m \in Nat \ {0} /\ Len(stack'[c]) = m - 1
      /\ \A i \in 1 .. Len(stack'[c]) : stack'[c][i] = stack[c][i]
      /\ Last(stack[c]) = stack[c][m]
  BY <1>m, <1>t, OverGrows
<1>2. ~stack[c][m].records
  BY <1>1 DEF OverThrough
<1> SUFFICES ASSUME NEW i \in 1 .. Len(trace) PROVE Recorded(i)' <=> Recorded(i)
  OBVIOUS
<1>3. PICK d \in Contexts : d = trace[i].context
  BY <1>t, TracedContexts
<1>4. (\E k \in 1 .. Len(stack'[d]) : stack'[d][k].records /\ stack'[d][k].call = trace[i].call)
      <=> (\E k \in 1 .. Len(stack[d]) : stack[d][k].records /\ stack[d][k].call = trace[i].call)
  <2>1. CASE d = c
    <3>1. \A k \in 1 .. Len(stack[c]) : k \in 1 .. Len(stack'[c]) \/ k = m
      BY <1>1, <1>m
    <3>2. \A k \in 1 .. Len(stack'[c]) : k \in 1 .. Len(stack[c])
      BY <1>1, <1>m
    <3> QED BY <1>1, <1>2, <2>1, <3>1, <3>2
  <2>2. CASE d # c
    BY <1>1, <2>2
  <2> QED BY <2>1, <2>2
<1> QED BY <1>1, <1>3, <1>4, <1>t DEF Recorded

\* A call that is recorded ends: its frame goes and its record comes.
LEMMA OverRecordingRecorded ==
    ASSUME WrapperInv, TraceInv, NEW c \in Contexts, NEW e \in Ended, OverRecording(c, e),
           Last(stack[c]).kind # "no_params"
    PROVE  \A i \in 1 .. Len(trace) : Begins(i) => (Recorded(i)' <=> Recorded(i))
<1>m. PICK m : m = Len(stack[c])
  OBVIOUS
<1>r. PICK r : r = Len(recording)
  OBVIOUS
<1>f. PICK f : f = Last(stack[c])
  OBVIOUS
<1>t. WrapperTypeOK /\ TraceTypeOK /\ Over(c, e) /\ AddRecord(f) /\ f.records
  BY <1>f DEF WrapperInv, TraceInv, OverRecording
<1>1. /\ \A i \in 1 .. Len(trace) : trace'[i] = trace[i]
      /\ \A d \in Contexts \ {c} : stack'[d] = stack[d]
      /\ m \in Nat \ {0} /\ Len(stack'[c]) = m - 1
      /\ \A i \in 1 .. Len(stack'[c]) : stack'[c][i] = stack[c][i]
      /\ f = stack[c][m] /\ f \in Frame
  BY <1>m, <1>f, <1>t, OverGrows
<1>2. /\ r \in Nat /\ Len(recording') = r + 1
      /\ \A k \in 1 .. r : recording'[k] = recording[k]
      /\ recording'[r + 1].call = f.call
  BY <1>1, <1>f, <1>r, <1>t, AddedRecord
<1>3. m \in 1 .. Len(stack[c])
  BY <1>1, <1>m
<1> SUFFICES ASSUME NEW i \in 1 .. Len(trace), Begins(i) PROVE Recorded(i)' <=> Recorded(i)
  OBVIOUS
<1>4. PICK d \in Contexts : d = trace[i].context
  BY <1>t, TracedContexts
<1> DEFINE InStack(k) == stack[d][k].records /\ stack[d][k].call = trace[i].call
<1>5. CASE trace[i].call = f.call
  <2>1. IsOf(i, c, m)
    BY <1>1, <1>3, <1>5, <1>t, FrameIsOpen
  <2>2. d = c
    BY <1>4, <2>1 DEF IsOf, EventOf
  <2>3. Recorded(i)
    BY <1>1, <1>3, <1>4, <1>5, <1>t, <2>2 DEF Recorded
  <2>4. r + 1 \in 1 .. Len(recording')
    BY <1>2
  <2>5. Recorded(i)'
    BY <1>1, <1>2, <1>5, <2>4 DEF Recorded
  <2> QED BY <2>3, <2>5
<1>6. CASE trace[i].call # f.call
  <2>1. (\E k \in 1 .. Len(stack'[d]) :
            stack'[d][k].records /\ stack'[d][k].call = trace[i].call)
        <=> (\E k \in 1 .. Len(stack[d]) : InStack(k))
    <3>1. CASE d = c
      <4>1. \A k \in 1 .. Len(stack[c]) : k \in 1 .. Len(stack'[c]) \/ k = m
        BY <1>1, <1>m
      <4>2. \A k \in 1 .. Len(stack'[c]) : k \in 1 .. Len(stack[c])
        BY <1>1, <1>m
      <4> QED BY <1>1, <1>6, <3>1, <4>1, <4>2
    <3>2. CASE d # c
      BY <1>1, <3>2
    <3> QED BY <3>1, <3>2
  <2>2. (\E k \in 1 .. Len(recording') : recording'[k].call = trace[i].call)
        <=> (\E k \in 1 .. Len(recording) : recording[k].call = trace[i].call)
    <3>1. \A k \in 1 .. Len(recording') : k \in 1 .. Len(recording) \/ k = r + 1
      BY <1>2, <1>r
    <3>2. \A k \in 1 .. Len(recording) : k \in 1 .. Len(recording')
      BY <1>2, <1>r
    <3> QED BY <1>2, <1>6, <1>r, <3>1, <3>2
  <2>3. trace'[i] = trace[i]
    BY <1>1
  <2> QED BY <1>4, <2>1, <2>2, <2>3 DEF Recorded
<1> QED BY <1>5, <1>6

\* A call that is recorded is running in its context or has a record.
LEMMA OpenIsUnrecorded ==
    ASSUME WrapperInv, TraceInv, NEW o \in 1 .. Len(trace), Begins(o),
           OpenUntil(o, Len(trace) + 1), Recorded(o)
    PROVE  flag[trace[o].context]
<1>1. PICK d \in Contexts : d = trace[o].context
  BY TracedContexts DEF TraceInv
<1>2. PICK k \in 1 .. Len(stack[d]) : stack[d][k].call = trace[o].call
  BY <1>1 DEF TraceInv, RunningIsTraced
<1>3. \A r \in 1 .. Len(recording) : recording[r].call # trace[o].call
  BY <1>2, RunningHasNoRecord
<1>4. PICK l \in 1 .. Len(stack[d]) : stack[d][l].records
  BY <1>1, <1>3 DEF Recorded
<1>5. Recordable(stack[d][l])
  BY <1>4 DEF WrapperInv, FlagGuards
<1> QED BY <1>1, <1>5 DEF WrapperInv, FlagGuards

\* Where the flag is up a call is running that will be recorded.
LEMMA FlagIsOfRecorded ==
    ASSUME WrapperInv, TraceInv, NobodyRaised, NEW c \in Contexts, flag[c]
    PROVE  \E o \in 1 .. Len(trace) : /\ Begins(o) /\ Recorded(o) /\ trace[o].context = c
                                      /\ OpenUntil(o, Len(trace) + 1)
<1>1. PICK k \in 1 .. Len(stack[c]) : stack[c][k].records
  BY DEF WrapperInv, NothingIsLost
<1>2. PICK o \in 1 .. Len(trace) : IsOf(o, c, k) /\ OpenUntil(o, Len(trace) + 1)
  BY DEF TraceInv, RunningIsTraced
<1>3. trace[o].event = "call" /\ trace[o].context = c /\ trace[o].call = stack[c][k].call
  BY <1>2 DEF IsOf, EventOf
<1> QED BY <1>1, <1>2, <1>3 DEF Begins, Recorded

\* What RecordedAreOutermost says of the events seen before is left as it was.
LEMMA OuterStays ==
    ASSUME WrapperInv, TraceInv, RecordedAreOutermost, Replayable,
           Len(trace) \in Nat, Len(trace') = Len(trace) + 1,
           \A i \in 1 .. Len(trace) : trace'[i] = trace[i],
           \A i \in 1 .. Len(trace) : Begins(i) => (Recorded(i)' <=> Recorded(i))
    PROVE  \A i \in 1 .. Len(trace) :
              /\ (Begins(i) /\ Recorded(i) => Mocked(trace[i]))'
              /\ (Mocked(trace[i]) => (Recorded(i) <=>
                     ~\E o \in 1 .. Len(trace) : Begins(o) /\ Recorded(o) /\ Within(i, o)))'
<1> SUFFICES ASSUME NEW i \in 1 .. Len(trace)
             PROVE  /\ (Begins(i) /\ Recorded(i) => Mocked(trace[i]))'
                    /\ (Mocked(trace[i]) => (Recorded(i) <=>
                           ~\E o \in 1 .. Len(trace) : Begins(o) /\ Recorded(o) /\ Within(i, o)))'
  OBVIOUS
<1>1. /\ \A o \in 1 .. Len(trace) : Begins(o)' = Begins(o)
      /\ \A o, j \in 1 .. Len(trace) : EndsAt(o, j)' = EndsAt(o, j)
  BY OldEvents
<1>2. \A o \in 1 .. Len(trace) : Within(i, o)' <=> Within(i, o)
  <2> SUFFICES ASSUME NEW o \in 1 .. Len(trace) PROVE Within(i, o)' <=> Within(i, o)
    OBVIOUS
  <2>1. \A j \in 1 .. i - 1 : j \in 1 .. Len(trace)
    OBVIOUS
  <2>2. OpenUntil(o, i)' <=> OpenUntil(o, i)
    BY <1>1, <2>1 DEF OpenUntil
  <2> QED BY <2>2 DEF Within
<1>3. Mocked(trace[i]) => Begins(i)
  BY DEF Mocked, Begins
<1>4. \A o \in 1 .. Len(trace') : Within(i, o)' => o \in 1 .. Len(trace)
  BY DEF Within
<1>5. Begins(i) /\ Recorded(i) => Mocked(trace[i])
  BY DEF RecordedAreOutermost
<1>6. Mocked(trace[i]) => (Recorded(i) <=>
          ~\E o \in 1 .. Len(trace) : Begins(o) /\ Recorded(o) /\ Within(i, o))
  BY DEF RecordedAreOutermost
<1>7. (\E o \in 1 .. Len(trace') : Begins(o)' /\ Recorded(o)' /\ Within(i, o)')
      <=> (\E o \in 1 .. Len(trace) : Begins(o) /\ Recorded(o) /\ Within(i, o))
  <2>1. \A o \in 1 .. Len(trace) : o \in 1 .. Len(trace')
    OBVIOUS
  <2> QED BY <1>1, <1>2, <1>4, <2>1
<1>8. trace'[i] = trace[i]
  OBVIOUS
<1> QED BY <1>1, <1>3, <1>5, <1>6, <1>7, <1>8

\* A call that begins is recorded exactly if its kind is to be and no call that it
\* is in is recorded.
LEMMA OuterBegan ==
    ASSUME WrapperInv, TraceInv, RecordedAreOutermost, Replayable,
           NEW c \in Contexts, NEW f \in Frame, BeganGuarded(c, f), f.kind # "no_params"
    PROVE  RecordedAreOutermost'
<1>n. PICK n : n = Len(trace)
  OBVIOUS
<1>t. WrapperTypeOK /\ TraceTypeOK /\ Began(c, f)
  BY DEF WrapperInv, TraceInv, BeganGuarded
<1>1. /\ n \in Nat /\ Len(trace') = n + 1 /\ \A i \in 1 .. n : trace'[i] = trace[i]
      /\ trace'[n + 1] = EventOf("call", c, f) /\ recording' = recording
  BY <1>n, <1>t, BeganGrows
<1>2. \A i \in 1 .. n : Recorded(i)' <=> Recorded(i)
  BY <1>n, <1>t, BeganRecorded
<1>3. Recorded(n + 1)' <=> f.records
  BY <1>n, <1>t, BeganRecorded
<1>4. \A i \in 1 .. n :
         /\ (Begins(i) /\ Recorded(i) => Mocked(trace[i]))'
         /\ (Mocked(trace[i]) => (Recorded(i) <=>
                ~\E o \in 1 .. Len(trace) : Begins(o) /\ Recorded(o) /\ Within(i, o)))'
  BY <1>1, <1>2, <1>n, OuterStays
<1>5. \A i \in 1 .. Len(trace') : i \in 1 .. n \/ i = n + 1
  BY <1>1
<1>6. /\ trace'[n + 1].event = "call" /\ trace'[n + 1].context = c
      /\ trace'[n + 1].kind = f.kind
  BY <1>1 DEF EventOf
<1>7. Begins(n + 1)' /\ (Mocked(trace[n + 1])' <=> Recordable(f))
  <2>1. trace'[n + 1].event = "call" /\ trace'[n + 1].kind = f.kind
    BY <1>6
  <2>2. Mocked(trace[n + 1])' <=> f.kind \in {"plain", "no_result"}
    BY <2>1 DEF Mocked
  <2> QED BY <2>1, <2>2 DEF Begins, Recordable
<1>8. (Begins(n + 1) /\ Recorded(n + 1) => Mocked(trace[n + 1]))'
  BY <1>3, <1>7 DEF BeganGuarded
<1>9. \A o \in 1 .. n :
         Within(n + 1, o)' <=> trace[o].context = c /\ OpenUntil(o, n + 1)
  <2> SUFFICES ASSUME NEW o \in 1 .. n
               PROVE Within(n + 1, o)' <=> trace[o].context = c /\ OpenUntil(o, n + 1)
    OBVIOUS
  <2>1. OpenUntil(o, n + 1)' <=> OpenUntil(o, n + 1)
    BY <1>1, <1>n, OldEvents DEF OpenUntil
  <2>2. o < n + 1 /\ trace'[o] = trace[o]
    BY <1>1
  <2> QED BY <1>6, <2>1, <2>2 DEF Within
<1>10. (\E o \in 1 .. n : Begins(o) /\ Recorded(o) /\ Within(n + 1, o)') <=> flag[c]
  <2>1. ASSUME flag[c] PROVE \E o \in 1 .. n : Begins(o) /\ Recorded(o) /\ Within(n + 1, o)'
    BY <1>9, <1>n, <2>1, FlagIsOfRecorded DEF Replayable
  <2>2. ASSUME NEW o \in 1 .. n, Begins(o), Recorded(o), Within(n + 1, o)' PROVE flag[c]
    BY <1>9, <1>n, <2>2, OpenIsUnrecorded
  <2> QED BY <2>1, <2>2
<1>11. (\E o \in 1 .. Len(trace') : Begins(o)' /\ Recorded(o)' /\ Within(n + 1, o)') <=> flag[c]
  <2>1. \A o \in 1 .. n : Begins(o)' = Begins(o) /\ o \in 1 .. Len(trace')
    BY <1>1, <1>n, OldEvents
  <2>2. \A o \in 1 .. Len(trace') : Within(n + 1, o)' => o \in 1 .. n
    BY <1>1, <1>5 DEF Within
  <2> QED BY <1>2, <1>10, <2>1, <2>2
<1>12. (Mocked(trace[n + 1]) => (Recorded(n + 1) <=>
           ~\E o \in 1 .. Len(trace) : Begins(o) /\ Recorded(o) /\ Within(n + 1, o)))'
  <2>1. Recordable(f) => (f.records <=> ~flag[c])
    BY DEF BeganGuarded
  <2> QED BY <1>3, <1>7, <1>11, <2>1
<1>13. ASSUME NEW k \in 1 .. Len(recording')
       PROVE  \E i \in 1 .. Len(trace') :
                  /\ Begins(i)' /\ trace'[i].call = recording'[k].call
                  /\ trace'[i].params = recording'[k].params
  <2>1. PICK i \in 1 .. n : /\ Begins(i) /\ trace[i].call = recording[k].call
                            /\ trace[i].params = recording[k].params
    BY <1>1, <1>n DEF RecordedAreOutermost
  <2> QED BY <1>1, <1>n, <2>1, OldEvents
<1> QED BY <1>4, <1>5, <1>8, <1>12, <1>13 DEF RecordedAreOutermost

\* A call that ends is in the recording as it was going to be.
LEMMA OuterOver ==
    ASSUME WrapperInv, TraceInv, RecordedAreOutermost, Replayable,
           \A i \in 1 .. Len(trace) : trace[i].kind # "no_params",
           NEW c \in Contexts, NEW e \in Ended, OverThrough(c, e) \/ OverRecording(c, e)
    PROVE  RecordedAreOutermost'
<1>n. PICK n : n = Len(trace)
  OBVIOUS
<1>m. PICK m : m = Len(stack[c])
  OBVIOUS
<1>f. PICK f : f = Last(stack[c])
  OBVIOUS
<1>t. WrapperTypeOK /\ TraceTypeOK /\ Over(c, e)
  BY DEF WrapperInv, TraceInv, OverThrough, OverRecording
<1>1. /\ n \in Nat /\ Len(trace') = n + 1 /\ \A i \in 1 .. n : trace'[i] = trace[i]
      /\ trace'[n + 1].event # "call" /\ m \in Nat \ {0} /\ f = stack[c][m] /\ f \in Frame
  BY <1>n, <1>m, <1>f, <1>t, OverGrows
<1>2. m \in 1 .. Len(stack[c])
  BY <1>1, <1>m
<1>3. PICK o \in 1 .. n : IsOf(o, c, m)
  BY <1>2, <1>n DEF TraceInv, RunningIsTraced
<1>4. /\ trace[o].event = "call" /\ trace[o].call = f.call
      /\ trace[o].params = f.params /\ trace[o].kind = f.kind
  BY <1>1, <1>3 DEF IsOf, EventOf
<1>5. f.kind # "no_params"
  BY <1>3, <1>4, <1>n
<1>6. \A i \in 1 .. n : Begins(i) => (Recorded(i)' <=> Recorded(i))
  BY <1>5, <1>n, <1>f, OverThroughRecorded, OverRecordingRecorded
<1>7. \A i \in 1 .. n :
         /\ (Begins(i) /\ Recorded(i) => Mocked(trace[i]))'
         /\ (Mocked(trace[i]) => (Recorded(i) <=>
                ~\E x \in 1 .. Len(trace) : Begins(x) /\ Recorded(x) /\ Within(i, x)))'
  BY <1>1, <1>6, <1>n, OuterStays
<1>8. \A i \in 1 .. Len(trace') : i \in 1 .. n \/ i = n + 1
  BY <1>1
<1>9. ~Begins(n + 1)' /\ ~Mocked(trace[n + 1])'
  BY <1>1 DEF Begins, Mocked
<1>10. \A i \in 1 .. n : Begins(i)' = Begins(i) /\ i \in 1 .. Len(trace')
  BY <1>1, <1>n, OldEvents
<1>11. ASSUME NEW k \in 1 .. Len(recording')
       PROVE  \/ k \in 1 .. Len(recording) /\ recording'[k] = recording[k]
              \/ recording'[k].call = f.call /\ recording'[k].params = f.params
  <2>1. CASE OverThrough(c, e)
    BY <1>11, <2>1 DEF OverThrough
  <2>2. CASE OverRecording(c, e)
    <3>1. AddRecord(f)
      BY <1>f, <2>2 DEF OverRecording
    <3>2. /\ Len(recording) \in Nat /\ Len(recording') = Len(recording) + 1
          /\ \A i \in 1 .. Len(recording) : recording'[i] = recording[i]
          /\ recording'[Len(recording) + 1].call = f.call
          /\ recording'[Len(recording) + 1].params = f.params
      BY <1>1, <1>5, <1>t, <3>1, AddedRecord
    <3> QED BY <3>2
  <2> QED BY <2>1, <2>2
<1>12. ASSUME NEW k \in 1 .. Len(recording')
       PROVE  \E i \in 1 .. Len(trace') :
                  /\ Begins(i)' /\ trace'[i].call = recording'[k].call
                  /\ trace'[i].params = recording'[k].params
  <2>1. CASE k \in 1 .. Len(recording) /\ recording'[k] = recording[k]
    <3>1. PICK i \in 1 .. n : /\ Begins(i) /\ trace[i].call = recording[k].call
                              /\ trace[i].params = recording[k].params
      BY <1>n, <2>1 DEF RecordedAreOutermost
    <3> QED BY <1>1, <1>10, <2>1, <3>1
  <2>2. CASE recording'[k].call = f.call /\ recording'[k].params = f.params
    <3>1. Begins(o)' /\ o \in 1 .. Len(trace') /\ trace'[o] = trace[o]
      BY <1>1, <1>4, <1>10 DEF Begins
    <3> QED BY <1>4, <2>2, <3>1
  <2> QED BY <1>11, <2>1, <2>2
<1> QED BY <1>7, <1>8, <1>9, <1>12 DEF RecordedAreOutermost

LEMMA OuterInit == TraceInit => RecordedAreOutermost
<1> SUFFICES ASSUME TraceInit PROVE RecordedAreOutermost
  OBVIOUS
<1>1. Len(trace) = 0 /\ Len(recording) = 0
  BY DEF TraceInit, Init
<1> QED BY <1>1 DEF RecordedAreOutermost

\* What is recorded of the program is about the trace and the wrapper only.
LEMMA OuterIsStable ==
    ASSUME vars' = vars, trace' = trace
    PROVE  /\ RecordedAreOutermost' = RecordedAreOutermost /\ Replayable' = Replayable
           /\ \A i : Begins(i)' = Begins(i) /\ Recorded(i)' = Recorded(i)
           /\ \A i, j : EndsAt(i, j)' = EndsAt(i, j)
           /\ \A i : Body(i)' = Body(i)
<1>1. stack' = stack /\ recording' = recording /\ ended' = ended /\ trace' = trace
  BY DEF vars
<1>2. /\ Replayable' = Replayable
      /\ \A i : Begins(i)' = Begins(i) /\ Recorded(i)' = Recorded(i)
      /\ \A i, j : EndsAt(i, j)' = EndsAt(i, j)
  BY <1>1 DEF Replayable, NobodyRaised, Begins, EndsAt, Recorded
<1>3. \A i : Body(i)' = Body(i)
  BY <1>1 DEF Body, EndOf
<1>4. RecordedAreOutermost' = RecordedAreOutermost
  <2>1. \A i : Mocked(trace[i])' = Mocked(trace[i])
    BY <1>1 DEF Mocked
  <2>2. \A i, j : Within(i, j)' = Within(i, j)
    BY <1>1, <1>2 DEF Within, OpenUntil
  <2> QED BY <1>1, <1>2, <2>1, <2>2 DEF RecordedAreOutermost
<1> QED BY <1>2, <1>3, <1>4

LEMMA OuterNext ==
    ASSUME WrapperInv, TraceInv, RecordedAreOutermost, [ReplayNext]_allVars
    PROVE  RecordedAreOutermost'
<1>1. ASSUME NEW c \in Contexts, RecordStep(c) PROVE RecordedAreOutermost'
  <2> SUFFICES ASSUME Replayable' PROVE RecordedAreOutermost'
    BY DEF RecordedAreOutermost
  <2>t. WrapperTypeOK /\ TraceTypeOK
    BY DEF WrapperInv, TraceInv
  <2>1. /\ Replayable /\ \A e \in ended' : ~e.raised
        /\ \A i \in 1 .. Len(trace') : trace'[i].kind # "no_params"
    BY <1>1, <2>t, ReplayableBefore
  <2>2. ASSUME NEW f \in Frame, BeganGuarded(c, f) PROVE RecordedAreOutermost'
    <3>1. /\ Len(trace) \in Nat /\ Len(trace') = Len(trace) + 1
          /\ trace'[Len(trace) + 1] = EventOf("call", c, f)
      BY <2>2, <2>t, BeganGrows DEF BeganGuarded
    <3>2. Len(trace) + 1 \in 1 .. Len(trace')
      BY <3>1
    <3>3. f.kind # "no_params"
      BY <2>1, <3>1, <3>2 DEF EventOf
    <3> QED BY <2>1, <2>2, <3>3, OuterBegan
  <2>3. ASSUME NEW e \in Ended, OverThrough(c, e) \/ OverRecording(c, e)
        PROVE  RecordedAreOutermost'
    <3>1. \A i \in 1 .. Len(trace) : trace[i].kind # "no_params"
      BY <2>1, <2>t, LenProperties DEF Replayable, TraceTypeOK
    <3> QED BY <2>1, <2>3, <3>1, OuterOver
  <2>4. ASSUME NEW e \in Ended, Over(c, e), e.raised PROVE FALSE
    BY <2>1, <2>4 DEF Over, Left
  <2> QED BY <1>1, <2>t, <2>2, <2>3, <2>4, RecordStepRecords
<1>2. CASE StartReplay \/ ReplayStep
  BY <1>2, ReplayLeavesTrace, OuterIsStable
<1>3. CASE UNCHANGED allVars
  BY <1>3, OuterIsStable DEF allVars
<1> QED BY <1>1, <1>2, <1>3 DEF ReplayNext

-----------------------------------------------------------------------------
(* The replay                                                              *)

\* The replay has not begun, or nothing of the program is running.
PhaseInv ==
    /\ phase = "record" => pos = 1 /\ skipped = {} /\ ~unmatched
    /\ phase = "replay" => \A c \in Contexts : stack[c] = <<>>

\* Skipped is what was in a recorded call that is behind.
SkippedAreInside ==
    phase = "replay" /\ Replayable =>
        \A i \in 1 .. Len(trace) :
            i \in skipped <=> \E o \in 1 .. pos - 1 :
                                 o \in 1 .. Len(trace) /\ Begins(o) /\ Recorded(o) /\ i \in Body(o)

\* The recorded calls that are ahead.
Pending == {i \in 1 .. Len(trace) : pos <= i /\ Begins(i) /\ Recorded(i)}

\* f takes the records that are left to the calls ahead, one to one, and each record
\* of an intact recording to a call with its params.
Pairs(f) ==
    /\ f \in [1 .. Len(records) -> Pending]
    /\ \A k, l \in 1 .. Len(records) : f[k] = f[l] => k = l
    /\ \A i \in Pending : \E k \in 1 .. Len(records) : f[k] = i
    /\ Intact => \A k \in 1 .. Len(records) : records[k].params = trace[f[k]].params

\* The records that are left are those of the calls ahead, though not in their order
\* when calls of several contexts overlapped.
RecordsArePending ==
    phase = "replay" /\ Replayable => (Intact => ~unmatched) /\ \E f : Pairs(f)

ReplayInv ==
    /\ WrapperInv /\ TraceInv /\ RecordedAreOutermost
    /\ PhaseInv /\ SkippedAreInside /\ RecordsArePending

\* When all calls are over, each has an end.
LEMMA CallsHaveEnds ==
    ASSUME TraceInv, \A c \in Contexts : stack[c] = <<>>,
           NEW o \in 1 .. Len(trace), Begins(o)
    PROVE  EndOf(trace[o]) \in 1 .. Len(trace) /\ EndsAt(o, EndOf(trace[o]))
<1>1. trace[o].context \in Contexts /\ Len(trace) \in Nat /\ DOMAIN trace = 1 .. Len(trace)
  BY TracedContexts, LenProperties DEF TraceInv, TraceTypeOK
<1>2. Len(stack[trace[o].context]) = 0
  BY <1>1
<1>3. ~OpenUntil(o, Len(trace) + 1)
  BY <1>2 DEF TraceInv, RunningIsTraced
<1>4. \E j \in 1 .. Len(trace) : trace[j].event # "call" /\ trace[j].call = trace[o].call
  <2>1. (Len(trace) + 1) - 1 = Len(trace)
    BY <1>1
  <2> QED BY <1>3, <2>1 DEF OpenUntil, EndsAt
<1> QED BY <1>1, <1>4 DEF EndOf, EndsAt

\* The body of a call is what happens in its context before its end.
LEMMA BodyIsWithin ==
    ASSUME TraceInv, \A c \in Contexts : stack[c] = <<>>,
           NEW o \in 1 .. Len(trace), Begins(o), NEW i \in 1 .. Len(trace)
    PROVE  i \in Body(o) <=> Within(i, o)
<1>1. PICK n \in 1 .. Len(trace) : n = EndOf(trace[o]) /\ EndsAt(o, n)
  BY CallsHaveEnds
<1>2. i \in Body(o) <=> i \in o + 1 .. n /\ trace[i].context = trace[o].context
  BY <1>1 DEF Body
<1>3. Len(trace) \in Nat /\ \A j \in 1 .. Len(trace) : EndsAt(o, j) => j = n
  BY <1>1, LenProperties DEF TraceInv, TraceTypeOK, TraceIsOrdered
<1>4. OpenUntil(o, i) <=> i <= n
  <2>1. ASSUME i <= n, NEW j \in 1 .. i - 1 PROVE ~EndsAt(o, j)
    <3>1. j \in 1 .. Len(trace) /\ j # n
      BY <2>1, <1>3
    <3> QED BY <3>1, <1>3
  <2>2. ASSUME ~(i <= n) PROVE ~OpenUntil(o, i)
    <3>1. n \in 1 .. i - 1
      BY <1>3, <2>2
    <3> QED BY <1>1, <3>1 DEF OpenUntil
  <2> QED BY <2>1, <2>2 DEF OpenUntil
<1> QED BY <1>2, <1>3, <1>4 DEF Within

\* A call that is not skipped is mocked exactly if it was recorded.
LEMMA MockedIsRecorded ==
    ASSUME ReplayInv, Replaying, Replayable
    PROVE  (pos \notin skipped /\ Mocked(Here)) <=> (Begins(pos) /\ Recorded(pos))
<1>1. /\ TraceInv /\ RecordedAreOutermost /\ \A c \in Contexts : stack[c] = <<>>
      /\ pos \in 1 .. Len(trace) /\ phase = "replay"
  <2>1. phase = "replay" /\ pos <= Len(trace) /\ pos \in Nat \ {0} /\ Len(trace) \in Nat
    BY LenProperties DEF Replaying, ReplayInv, TraceInv, TraceTypeOK
  <2> QED BY <2>1 DEF ReplayInv, PhaseInv
<1>2. PICK p \in 1 .. Len(trace) : p = pos
  BY <1>1
<1>3. p \in skipped <=> \E o \in 1 .. p - 1 :
                           o \in 1 .. Len(trace) /\ Begins(o) /\ Recorded(o) /\ p \in Body(o)
  BY <1>1, <1>2 DEF ReplayInv, SkippedAreInside
<1>4. p \in skipped <=> \E o \in 1 .. Len(trace) : Begins(o) /\ Recorded(o) /\ Within(p, o)
  <2>1. \A o \in 1 .. Len(trace) : Begins(o) => (p \in Body(o) <=> Within(p, o))
    BY <1>1, BodyIsWithin
  <2>2. \A o \in 1 .. Len(trace) : Within(p, o) => o \in 1 .. p - 1
    BY DEF Within
  <2> QED BY <1>3, <2>1, <2>2
<1>5. Mocked(trace[p]) => (Recorded(p) <=> p \notin skipped)
  BY <1>1, <1>4 DEF RecordedAreOutermost
<1>6. Begins(p) /\ Recorded(p) => Mocked(trace[p])
  BY <1>1 DEF RecordedAreOutermost
<1>7. Mocked(trace[p]) => Begins(p)
  BY DEF Mocked, Begins
<1> QED BY <1>2, <1>5, <1>6, <1>7 DEF Here

LEMMA PhaseInit == TraceInit => PhaseInv /\ SkippedAreInside /\ RecordsArePending
BY DEF TraceInit, PhaseInv, SkippedAreInside, RecordsArePending

LEMMA PhaseNext == ASSUME PhaseInv, [ReplayNext]_allVars PROVE PhaseInv'
<1>1. ASSUME NEW c \in Contexts, RecordStep(c) PROVE PhaseInv'
  BY <1>1 DEF RecordStep, replayVars, PhaseInv
<1>2. CASE StartReplay
  BY <1>2 DEF StartReplay, vars, PhaseInv
<1>3. CASE ReplayStep
  BY <1>3 DEF ReplayStep, ReplayMocked, ReplayUnmatched, ReplayThrough, Replaying, vars, PhaseInv
<1>4. CASE UNCHANGED allVars
  BY <1>4 DEF allVars, vars, replayVars, PhaseInv
<1> QED BY <1>1, <1>2, <1>3, <1>4 DEF ReplayNext

\* At the start of the replay each record is that of one call.
LEMMA StartPairs ==
    ASSUME ReplayInv, StartReplay, Replayable PROVE \E f : Pairs(f)'
<1>1. /\ WrapperInv /\ TraceInv /\ RecordedAreOutermost /\ pos = 1
      /\ \A c \in Contexts : stack[c] = <<>>
  BY DEF ReplayInv, StartReplay, PhaseInv
<1>2. /\ vars' = vars /\ trace' = trace /\ records' = Loaded(source') /\ pos' = pos
      /\ Len(records') = Len(recording)
      /\ Intact' => records' = recording
  BY <1>1, LoadedRecords, IntactIsLoaded DEF StartReplay, WrapperInv
<1> DEFINE Of(i, k) == /\ Begins(i) /\ trace[i].call = recording[k].call
                       /\ trace[i].params = recording[k].params
           f == [k \in 1 .. Len(recording) |-> CHOOSE i \in 1 .. Len(trace) : Of(i, k)]
<1>3. \A k \in 1 .. Len(recording) : f[k] \in 1 .. Len(trace) /\ Of(f[k], k)
  BY <1>1 DEF RecordedAreOutermost
<1>4. PICK g : g = f
  OBVIOUS
<1>5. Pending' = {i \in 1 .. Len(trace) : Begins(i) /\ Recorded(i)}
  <2>1. \A i \in 1 .. Len(trace) : pos <= i
    BY <1>1
  <2>2. \A i : Begins(i)' = Begins(i) /\ Recorded(i)' = Recorded(i)
    BY <1>2, OuterIsStable
  <2> QED BY <1>2, <2>1, <2>2 DEF Pending
<1>6. /\ \A k \in 1 .. Len(recording) :
             g[k] \in 1 .. Len(trace) /\ Begins(g[k]) /\ trace[g[k]].call = recording[k].call
             /\ trace[g[k]].params = recording[k].params
      /\ g = [k \in 1 .. Len(recording) |-> g[k]]
  BY <1>3, <1>4
<1> HIDE DEF f, Of
<1>7. g \in [1 .. Len(recording) -> Pending']
  BY <1>5, <1>6 DEF Recorded
<1>8. \A k, l \in 1 .. Len(recording) : g[k] = g[l] => k = l
  BY <1>1, <1>6 DEF WrapperInv, RecordsAreOfWanted
<1>9. ASSUME NEW i \in Pending' PROVE \E k \in 1 .. Len(recording) : g[k] = i
  <2>1. i \in 1 .. Len(trace) /\ Begins(i) /\ Recorded(i)
    BY <1>5
  <2>2. trace[i].context \in Contexts
    BY <1>1, <2>1, TracedContexts DEF TraceInv
  <2>3. Len(stack[trace[i].context]) = 0
    BY <1>1, <2>2
  <2>4. PICK k \in 1 .. Len(recording) : recording[k].call = trace[i].call
    BY <2>1, <2>3 DEF Recorded
  <2>5. g[k] = i
    BY <1>1, <1>6, <2>1, <2>4 DEF TraceInv, TraceIsOrdered
  <2> QED BY <2>5
<1>10. Pairs(g)'
  <2>1. Intact' => \A k \in 1 .. Len(records') : records'[k].params = trace'[g[k]].params
    BY <1>2, <1>6
  <2> QED BY <1>2, <1>7, <1>8, <1>9, <2>1 DEF Pairs
<1> QED BY <1>10

\* A record with the params of the call at p can be given to it: exchange it with
\* the record that f gave to p, and take it out.
LEMMA PairsWithoutOne ==
    ASSUME records \in Seq(Entry), NEW f, Pairs(f), NEW p \in Pending,
           NEW m \in 1 .. Len(records), records[m].params = trace[p].params
    PROVE  \E h : /\ h \in [1 .. Len(records) - 1 -> Pending \ {p}]
                  /\ \A k, l \in 1 .. Len(records) - 1 : h[k] = h[l] => k = l
                  /\ \A i \in Pending \ {p} : \E k \in 1 .. Len(records) - 1 : h[k] = i
                  /\ Intact => \A k \in 1 .. Len(records) - 1 :
                        RemoveAt(records, m)[k].params = trace[h[k]].params
<1>n. PICK n \in Nat : n = Len(records)
  BY LenProperties
<1>1. PICK x \in 1 .. n : f[x] = p
  BY <1>n DEF Pairs
<1> DEFINE g == [k \in 1 .. n |-> IF k = m THEN p ELSE IF k = x THEN f[m] ELSE f[k]]
           up(k) == IF k < m THEN k ELSE k + 1
           h == [k \in 1 .. n - 1 |-> g[up(k)]]
<1>2. /\ f \in [1 .. n -> Pending] /\ m \in 1 .. n
      /\ \A k, l \in 1 .. n : f[k] = f[l] => k = l
      /\ \A i \in Pending : \E k \in 1 .. n : f[k] = i
      /\ Intact => \A k \in 1 .. n : records[k].params = trace[f[k]].params
  BY <1>n DEF Pairs
<1>3. /\ g \in [1 .. n -> Pending] /\ g[m] = p
      /\ \A k, l \in 1 .. n : g[k] = g[l] => k = l
      /\ \A i \in Pending : \E k \in 1 .. n : g[k] = i
  <2>1. g \in [1 .. n -> Pending] /\ g[m] = p
    BY <1>2
  <2>2. \A k \in 1 .. n : g[k] = IF k = m THEN p ELSE IF k = x THEN f[m] ELSE f[k]
    OBVIOUS
  <2> HIDE DEF g
  <2>3. \A k, l \in 1 .. n : g[k] = g[l] => k = l
    BY <1>1, <1>2, <2>2
  <2>4. ASSUME NEW i \in Pending PROVE \E k \in 1 .. n : g[k] = i
    <3>1. PICK k \in 1 .. n : f[k] = i
      BY <1>2
    <3>2. CASE k = x
      BY <1>1, <1>2, <2>2, <3>1, <3>2
    <3>3. CASE k = m
      BY <1>1, <1>2, <2>2, <3>1, <3>3
    <3>4. CASE k # x /\ k # m
      BY <2>2, <3>1, <3>4
    <3> QED BY <3>2, <3>3, <3>4
  <2> QED BY <2>1, <2>3, <2>4
<1>4. ASSUME Intact, NEW k \in 1 .. n, k # m PROVE records[k].params = trace[g[k]].params
  <2>0. \A l \in 1 .. n : records[l].params = trace[f[l]].params
    BY <1>2, <1>4
  <2>1. CASE k = x
    <3>1. g[k] = f[m]
      BY <1>4, <2>1
    <3>2. m \in 1 .. n
      BY <1>2
    <3> QED BY <1>1, <2>0, <2>1, <3>1, <3>2
  <2>2. CASE k # x
    BY <1>4, <2>0, <2>2
  <2> QED BY <2>1, <2>2
<1> HIDE DEF g
<1>5. /\ \A k \in 1 .. n - 1 : up(k) \in 1 .. n /\ up(k) # m
      /\ \A k, l \in 1 .. n - 1 : up(k) = up(l) => k = l
  BY <1>2
<1>6. \A l \in 1 .. n : l # m => \E k \in 1 .. n - 1 : up(k) = l
  <2> SUFFICES ASSUME NEW l \in 1 .. n, l # m PROVE \E k \in 1 .. n - 1 : up(k) = l
    OBVIOUS
  <2>1. CASE l < m
    <3>1. l \in 1 .. n - 1 /\ up(l) = l
      BY <1>2, <2>1
    <3> QED BY <3>1
  <2>2. CASE ~(l < m)
    <3>1. l - 1 \in 1 .. n - 1 /\ up(l - 1) = l
      BY <1>2, <2>2
    <3> QED BY <3>1
  <2> QED BY <2>1, <2>2
<1>7. ASSUME NEW k \in 1 .. n - 1 PROVE RemoveAt(records, m)[k] = records[up(k)]
  <2>1. RemoveAt(records, m)[k] = IF k < m THEN records[k] ELSE records[k + 1]
    BY <1>n, RemoveAtRemoves
  <2>2. CASE k < m
    <3>1. up(k) = k
      BY <2>2
    <3> QED BY <2>1, <2>2, <3>1
  <2>3. CASE ~(k < m)
    <3>1. up(k) = k + 1
      BY <2>3
    <3> QED BY <2>1, <2>3, <3>1
  <2> QED BY <2>2, <2>3
<1> HIDE DEF up
<1>8. h \in [1 .. n - 1 -> Pending \ {p}]
  BY <1>2, <1>3, <1>5
<1>9. \A k, l \in 1 .. n - 1 : h[k] = h[l] => k = l
  BY <1>3, <1>5
<1>10. \A i \in Pending \ {p} : \E k \in 1 .. n - 1 : h[k] = i
  BY <1>3, <1>6
<1>11. Intact => \A k \in 1 .. n - 1 : RemoveAt(records, m)[k].params = trace[h[k]].params
  BY <1>4, <1>5, <1>7
<1> HIDE DEF h
<1> QED BY <1>n, <1>8, <1>9, <1>10, <1>11

\* What an event of the replay changes of what is ahead.
LEMMA PendingNext ==
    ASSUME ReplayInv, vars' = vars, trace' = trace, pos' = pos + 1
    PROVE  Pending' = Pending \ {pos}
<1>1. pos \in Nat /\ \A i \in 1 .. Len(trace) : pos + 1 <= i <=> pos <= i /\ i # pos
  BY DEF ReplayInv, TraceInv, TraceTypeOK
<1>2. \A i : Begins(i)' = Begins(i) /\ Recorded(i)' = Recorded(i)
  BY OuterIsStable
<1> QED BY <1>1, <1>2 DEF Pending

LEMMA SkippedNext ==
    ASSUME ReplayInv, [ReplayNext]_allVars PROVE SkippedAreInside'
<1>1. ASSUME NEW c \in Contexts, RecordStep(c) PROVE SkippedAreInside'
  BY <1>1 DEF RecordStep, replayVars, SkippedAreInside
<1>2. CASE StartReplay
  <2>1. pos' = 1 /\ skipped' = {}
    BY <1>2 DEF StartReplay, ReplayInv, PhaseInv
  <2> QED BY <2>1 DEF SkippedAreInside
<1>3. ASSUME vars' = vars, trace' = trace, phase' = phase, pos' = pos, skipped' = skipped
      PROVE  SkippedAreInside'
  <2>1. SkippedAreInside
    BY DEF ReplayInv
  <2> QED BY <1>3, <2>1, OuterIsStable DEF SkippedAreInside
<1>4. ASSUME Replaying, vars' = vars, trace' = trace, phase' = phase, pos' = pos + 1,
             \/ pos \notin skipped /\ Mocked(Here) /\ skipped' = skipped \cup Body(pos)
             \/ ~(pos \notin skipped /\ Mocked(Here)) /\ skipped' = skipped
      PROVE  SkippedAreInside'
  <2> SUFFICES ASSUME Replayable', phase' = "replay", NEW i \in 1 .. Len(trace)
               PROVE  i \in skipped' <=>
                        \E o \in 1 .. pos' - 1 : /\ o \in 1 .. Len(trace') /\ Begins(o)'
                                                 /\ Recorded(o)' /\ i \in Body(o)'
    BY <1>4 DEF SkippedAreInside
  <2>1. /\ Replayable /\ phase = "replay"
        /\ \A o : Begins(o)' = Begins(o) /\ Recorded(o)' = Recorded(o) /\ Body(o)' = Body(o)
    BY <1>4, OuterIsStable
  <2>2. PICK p \in 1 .. Len(trace) : p = pos
    BY <1>4, LenProperties DEF ReplayInv, TraceInv, TraceTypeOK, Replaying
  <2>3. (p \notin skipped /\ Mocked(Here)) <=> (Begins(p) /\ Recorded(p))
    BY <1>4, <2>1, <2>2, MockedIsRecorded
  <2>4. i \in skipped <=> \E o \in 1 .. p - 1 :
                             o \in 1 .. Len(trace) /\ Begins(o) /\ Recorded(o) /\ i \in Body(o)
    BY <2>1, <2>2 DEF ReplayInv, SkippedAreInside
  <2>5. i \in skipped' <=> i \in skipped \/ (Begins(p) /\ Recorded(p) /\ i \in Body(p))
    BY <1>4, <2>2, <2>3
  <2>6. \A o : o \in 1 .. pos' - 1 <=> o \in 1 .. p - 1 \/ o = p
    BY <1>4, <2>2
  <2> QED BY <1>4, <2>1, <2>2, <2>4, <2>5, <2>6
<1>5. CASE ReplayMocked
  BY <1>4, <1>5 DEF ReplayMocked
<1>6. CASE ReplayUnmatched
  BY <1>3, <1>6 DEF ReplayUnmatched
<1>7. CASE ReplayThrough
  BY <1>4, <1>7 DEF ReplayThrough
<1>8. CASE UNCHANGED allVars
  BY <1>3, <1>8 DEF allVars, replayVars
<1> QED BY <1>1, <1>2, <1>5, <1>6, <1>7, <1>8 DEF ReplayNext, ReplayStep

\* What is mocked has its record, and what is not needs none.
LEMMA PairsNext ==
    ASSUME ReplayInv, [ReplayNext]_allVars PROVE RecordsArePending'
<1>1. ASSUME NEW c \in Contexts, RecordStep(c) PROVE RecordsArePending'
  BY <1>1 DEF RecordStep, replayVars, RecordsArePending
<1>2. CASE StartReplay
  <2> SUFFICES ASSUME Replayable' PROVE ~unmatched' /\ \E f : Pairs(f)'
    BY DEF RecordsArePending
  <2>1. Replayable
    BY <1>2, OuterIsStable DEF StartReplay
  <2> QED BY <1>2, <2>1, StartPairs DEF StartReplay, ReplayInv, PhaseInv
<1>3. CASE UNCHANGED allVars
  <2>1. /\ vars' = vars /\ trace' = trace /\ pos' = pos /\ records' = records
        /\ phase' = phase /\ source' = source /\ unmatched' = unmatched
    BY <1>3 DEF allVars, replayVars
  <2>2. /\ Replayable' = Replayable /\ Intact' = Intact
        /\ \A o : Begins(o)' = Begins(o) /\ Recorded(o)' = Recorded(o)
    BY <2>1, OuterIsStable, IntactStays
  <2>3. Pending' = Pending
    BY <2>1, <2>2 DEF Pending
  <2> QED BY <2>1, <2>2, <2>3 DEF ReplayInv, RecordsArePending, Pairs
<1>4. CASE ReplayStep
  <2> SUFFICES ASSUME Replayable' PROVE (Intact' => ~unmatched') /\ \E f : Pairs(f)'
    BY DEF RecordsArePending
  <2>1. /\ vars' = vars /\ trace' = trace /\ source' = source
        /\ Replayable /\ Replaying /\ phase = "replay"
    BY <1>4, ReplayLeavesTrace, OuterIsStable
       DEF ReplayStep, ReplayMocked, ReplayUnmatched, ReplayThrough, Replaying
  <2>2. PICK f : Pairs(f)
    BY <2>1 DEF ReplayInv, RecordsArePending
  <2>3. PICK p \in 1 .. Len(trace) : p = pos
    BY <2>1, LenProperties DEF ReplayInv, TraceInv, TraceTypeOK, Replaying
  <2>4. (p \notin skipped /\ Mocked(Here)) <=> p \in Pending
    <3>1. (p \notin skipped /\ Mocked(Here)) <=> (Begins(p) /\ Recorded(p))
      BY <2>1, <2>3, MockedIsRecorded
    <3> QED BY <2>3, <3>1 DEF Pending
  <2>5. records \in Seq(Entry) /\ ~unmatched /\ Intact' = Intact
    BY <2>1, IntactStays DEF ReplayInv, TraceInv, TraceTypeOK, Replaying
  <2>6. CASE ReplayMocked
    <3> DEFINE i == FirstMatchOf(Here)
    <3>1. /\ i # 0 /\ records' = RemoveAt(records, i) /\ pos' = pos + 1 /\ unmatched' = unmatched
          /\ p \in Pending
      BY <2>3, <2>4, <2>6 DEF ReplayMocked
    <3>2. PICK m : m = i
      OBVIOUS
    <3>3. m \in 1 .. Len(records) /\ records[m].params = trace[p].params
      BY <2>3, <2>5, <3>1, <3>2, FirstMatchMatches DEF Here
    <3>4. records' = RemoveAt(records, m)
      BY <3>1, <3>2
    <3>5. PICK h : /\ h \in [1 .. Len(records) - 1 -> Pending \ {p}]
                   /\ \A k, l \in 1 .. Len(records) - 1 : h[k] = h[l] => k = l
                   /\ \A x \in Pending \ {p} : \E k \in 1 .. Len(records) - 1 : h[k] = x
                   /\ Intact => \A k \in 1 .. Len(records) - 1 :
                         RemoveAt(records, m)[k].params = trace[h[k]].params
      BY <2>2, <2>5, <3>1, <3>3, PairsWithoutOne
    <3>6. Pending' = Pending \ {p}
      BY <2>1, <2>3, <3>1, PendingNext
    <3>7. Len(records') = Len(records) - 1
      BY <2>5, <3>3, <3>4, RemoveAtRemoves
    <3> HIDE DEF i
    <3>8. Pairs(h)'
      BY <2>1, <2>5, <3>4, <3>5, <3>6, <3>7 DEF Pairs
    <3> QED BY <2>5, <3>1, <3>8
  <2>7. CASE ReplayUnmatched
    <3>1. /\ p \in Pending
          /\ ~Readable \/ FirstMatchOf(Here) = 0
          /\ pos' = pos /\ records' = records
      BY <2>3, <2>4, <2>7 DEF ReplayUnmatched
    <3>2. ASSUME Intact PROVE FALSE
      <4>1. PICK k \in 1 .. Len(records) : f[k] = p
        BY <2>2, <3>1 DEF Pairs
      <4>2. records[k].params = Here.params
        BY <2>2, <2>3, <3>2, <4>1 DEF Pairs, Here
      <4>3. 0 \notin 1 .. Len(records)
        BY <2>5, LenProperties
      <4> QED BY <2>5, <3>1, <3>2, <4>2, <4>3, FirstMatchMatches, IntactIsReadable
    <3>3. Pending' = Pending
      <4>1. \A i : Begins(i)' = Begins(i) /\ Recorded(i)' = Recorded(i)
        BY <2>1, OuterIsStable
      <4> QED BY <2>1, <3>1, <4>1 DEF Pending
    <3>4. Pairs(f)'
      BY <2>1, <2>2, <2>5, <3>1, <3>3 DEF Pairs
    <3> QED BY <2>5, <3>2, <3>4
  <2>8. CASE ReplayThrough
    <3>1. p \notin Pending /\ pos' = pos + 1 /\ records' = records /\ unmatched' = unmatched
      BY <2>3, <2>4, <2>8 DEF ReplayThrough
    <3>2. Pending' = Pending
      BY <2>1, <2>3, <3>1, PendingNext
    <3>3. Pairs(f)'
      BY <2>1, <2>2, <2>5, <3>1, <3>2 DEF Pairs
    <3> QED BY <2>5, <3>1, <3>3
  <2> QED BY <1>4, <2>6, <2>7, <2>8 DEF ReplayStep
<1> QED BY <1>1, <1>2, <1>3, <1>4 DEF ReplayNext

-----------------------------------------------------------------------------
(* Each call gets its own record                                           *)

\* The event at j ends the call with number n.
IsEnd(j, n) == trace[j].event # "call" /\ trace[j].call = n

\* The records are in the order in which their calls ended.
RecordingIsOrdered ==
    \A k, l \in 1 .. Len(recording) : k < l =>
        \A a, b \in 1 .. Len(trace) :
            IsEnd(a, recording[k].call) /\ IsEnd(b, recording[l].call) => a < b

\* Where calls with equal params do not overlap, the records that are left of an
\* intact recording are those of the calls ahead, in the order of the recording.
RecordsAreOwn ==
    phase = "replay" /\ Replayable /\ Intact /\ EqualCallsDoNotOverlap =>
        /\ \A a \in answers : IsOwn(a)
        /\ \A k \in 1 .. Len(records) : \E r \in 1 .. Len(recording) : records[k] = recording[r]
        /\ \A k \in 1 .. Len(records) : \E i \in Pending : records[k].call = trace[i].call
        /\ \A i \in Pending : \E k \in 1 .. Len(records) : records[k].call = trace[i].call
        /\ \A k, l \in 1 .. Len(records) : k < l =>
              \A a, b \in 1 .. Len(trace) :
                  IsEnd(a, records[k].call) /\ IsEnd(b, records[l].call) => a < b

NothingAnswered == phase = "record" => answers = {}

LEMMA OrderStays ==
    ASSUME vars' = vars, trace' = trace
    PROVE  RecordingIsOrdered' = RecordingIsOrdered
<1>1. recording' = recording
  BY DEF vars
<1> QED BY <1>1 DEF RecordingIsOrdered, IsEnd

\* A record is added when its call ends, after all that ended before.
LEMMA OrderNext ==
    ASSUME WrapperInv, TraceInv, RecordingIsOrdered, [ReplayNext]_allVars
    PROVE  RecordingIsOrdered'
<1>t. WrapperTypeOK /\ TraceTypeOK
  BY DEF WrapperInv, TraceInv
<1>1. ASSUME NEW c \in Contexts, NEW f \in Frame, Began(c, f) PROVE RecordingIsOrdered'
  <2>n. PICK n : n = Len(trace)
    OBVIOUS
  <2>1. /\ n \in Nat /\ Len(trace') = n + 1 /\ \A i \in 1 .. n : trace'[i] = trace[i]
        /\ trace'[n + 1] = EventOf("call", c, f) /\ recording' = recording
    BY <1>1, <1>t, <2>n, BeganGrows
  <2>2. trace'[n + 1].event = "call"
    BY <2>1 DEF EventOf
  <2>3. \A a \in 1 .. Len(trace') : a \in 1 .. n \/ a = n + 1
    BY <2>1
  <2>4. \A x : \A a \in 1 .. Len(trace') : IsEnd(a, x)' => a \in 1 .. n /\ IsEnd(a, x)
    BY <2>1, <2>2, <2>3 DEF IsEnd
  <2>5. \A k, l \in 1 .. Len(recording) : k < l =>
           \A a, b \in 1 .. n : IsEnd(a, recording[k].call) /\ IsEnd(b, recording[l].call) => a < b
    BY <2>n DEF RecordingIsOrdered
  <2> SUFFICES ASSUME NEW k \in 1 .. Len(recording'), NEW l \in 1 .. Len(recording'), k < l,
                      NEW a \in 1 .. Len(trace'), NEW b \in 1 .. Len(trace'),
                      IsEnd(a, recording[k].call)', IsEnd(b, recording[l].call)'
               PROVE  a < b
    BY DEF RecordingIsOrdered
  <2>6. PICK x, y : x = recording[k].call /\ y = recording[l].call
    OBVIOUS
  <2>7. IsEnd(a, x)' /\ IsEnd(b, y)'
    BY <2>1, <2>6
  <2>8. a \in 1 .. n /\ b \in 1 .. n /\ IsEnd(a, x) /\ IsEnd(b, y)
    BY <2>4, <2>7
  <2> QED BY <2>1, <2>5, <2>6, <2>8
<1>2. ASSUME NEW c \in Contexts, NEW e \in Ended, Over(c, e),
             \/ recording' = recording
             \/ AddRecord(Last(stack[c]))
      PROVE  RecordingIsOrdered'
  <2>n. PICK n : n = Len(trace)
    OBVIOUS
  <2>r. PICK r : r = Len(recording)
    OBVIOUS
  <2>m. PICK m : m = Len(stack[c])
    OBVIOUS
  <2>f. PICK f : f = Last(stack[c])
    OBVIOUS
  <2>1. /\ n \in Nat /\ Len(trace') = n + 1 /\ \A i \in 1 .. n : trace'[i] = trace[i]
        /\ trace'[n + 1].event # "call" /\ trace'[n + 1].call = f.call
        /\ m \in Nat \ {0} /\ f = stack[c][m] /\ f \in Frame
    BY <1>2, <1>t, <2>n, <2>m, <2>f, OverGrows
  <2>2. /\ r \in Nat /\ Len(recording') \in {r, r + 1}
        /\ \A k \in 1 .. r : recording'[k] = recording[k]
        /\ Len(recording') = r + 1 => recording'[r + 1].call = f.call
    <3>1. CASE recording' = recording
      BY <1>t, <2>r, <3>1, LenProperties DEF WrapperTypeOK
    <3>2. CASE AddRecord(f)
      <4>1. /\ r \in Nat /\ \A k \in 1 .. r : recording'[k] = recording[k]
            /\ f.kind = "no_params" => recording' = recording
            /\ f.kind # "no_params" => Len(recording') = r + 1 /\ recording'[r + 1].call = f.call
        BY <1>t, <2>1, <2>r, <3>2, AddedRecord
      <4> QED BY <2>r, <4>1
    <3> QED BY <1>2, <2>f, <3>1, <3>2
  <2>3. m \in 1 .. Len(stack[c])
    BY <2>1, <2>m
  <2>4. \A k \in 1 .. r : recording'[k].call # f.call
    BY <2>1, <2>2, <2>3, <2>r, RunningHasNoRecord
  <2>5. \A a \in 1 .. n : ~(trace[a].event # "call" /\ trace[a].call = f.call)
    <3>1. PICK o \in 1 .. n : IsOf(o, c, m) /\ OpenUntil(o, n + 1)
      BY <2>3, <2>n DEF TraceInv, RunningIsTraced
    <3>2. trace[o].call = f.call
      BY <2>1, <3>1 DEF IsOf, EventOf
    <3> QED BY <2>1, <3>1, <3>2 DEF OpenUntil, EndsAt
  <2>6. \A k, l \in 1 .. r : k < l =>
           \A a, b \in 1 .. n : IsEnd(a, recording[k].call) /\ IsEnd(b, recording[l].call) => a < b
    BY <2>n, <2>r DEF RecordingIsOrdered
  <2> SUFFICES ASSUME NEW k \in 1 .. Len(recording'), NEW l \in 1 .. Len(recording'), k < l,
                      NEW a \in 1 .. Len(trace'), NEW b \in 1 .. Len(trace'),
                      IsEnd(a, recording[k].call)', IsEnd(b, recording[l].call)'
               PROVE  a < b
    BY DEF RecordingIsOrdered
  <2>7. /\ trace'[a].event # "call" /\ trace'[a].call = recording'[k].call
        /\ trace'[b].event # "call" /\ trace'[b].call = recording'[l].call
    BY DEF IsEnd
  <2>8. k \in 1 .. r
    BY <2>2
  <2>9. a \in 1 .. n
    BY <2>1, <2>4, <2>7, <2>8
  <2>10. CASE l = r + 1
    <3>1. trace'[b].call = f.call
      BY <2>2, <2>7, <2>10
    <3>2. b = n + 1
      BY <2>1, <2>5, <2>7, <3>1
    <3> QED BY <2>1, <2>9, <3>2
  <2>11. CASE l \in 1 .. r
    <3>1. b \in 1 .. n
      BY <2>1, <2>4, <2>7, <2>11
    <3>2. IsEnd(a, recording[k].call) /\ IsEnd(b, recording[l].call)
      BY <2>1, <2>2, <2>7, <2>8, <2>9, <2>11, <3>1 DEF IsEnd
    <3> QED BY <2>6, <2>8, <2>9, <2>11, <3>1, <3>2
  <2> QED BY <2>2, <2>10, <2>11
<1>3. ASSUME NEW c \in Contexts, RecordStep(c) PROVE RecordingIsOrdered'
  <2> QED BY <1>1, <1>2, <1>3, <1>t, RecordStepRecords
      DEF BeganGuarded, OverThrough, OverRecording
<1>4. CASE StartReplay \/ ReplayStep
  BY <1>4, ReplayLeavesTrace, OrderStays
<1>5. CASE UNCHANGED allVars
  BY <1>5, OrderStays DEF allVars
<1> QED BY <1>3, <1>4, <1>5 DEF ReplayNext

OwnInv == ReplayInv /\ RecordingIsOrdered /\ NothingAnswered /\ RecordsAreOwn

\* Of two recorded calls with equal params that do not overlap, the one that began
\* first ended first.
LEMMA EqualCallsEndInOrder ==
    ASSUME ReplayInv, EqualCallsDoNotOverlap, Replayable, phase = "replay",
           NEW p \in Pending, NEW i \in Pending, p < i, trace[i].params = trace[p].params
    PROVE  EndOf(trace[p]) < EndOf(trace[i])
<1>1. /\ TraceInv /\ RecordedAreOutermost /\ \A c \in Contexts : stack[c] = <<>>
      /\ DOMAIN trace = 1 .. Len(trace)
  BY LenProperties DEF ReplayInv, PhaseInv, TraceInv, TraceTypeOK
<1>2. /\ p \in 1 .. Len(trace) /\ Begins(p) /\ Recorded(p)
      /\ i \in 1 .. Len(trace) /\ Begins(i) /\ Recorded(i)
  BY DEF Pending
<1>3. Mocked(trace[p]) /\ Mocked(trace[i])
  BY <1>1, <1>2 DEF RecordedAreOutermost
<1>4. /\ EndOf(trace[p]) \in 1 .. Len(trace) /\ EndOf(trace[i]) \in 1 .. Len(trace)
      /\ i < EndOf(trace[i])
  BY <1>1, <1>2, CallsHaveEnds DEF TraceInv, TraceIsOrdered
<1>5. CASE trace[p].context # trace[i].context
  BY <1>1, <1>2, <1>3, <1>4, <1>5 DEF EqualCallsDoNotOverlap
<1>6. CASE trace[p].context = trace[i].context
  <2>1. i \notin Body(p)
    BY <1>1, <1>2, <1>3, BodyIsWithin DEF RecordedAreOutermost
  <2>2. ~(i \in p + 1 .. EndOf(trace[p]))
    BY <1>6, <2>1 DEF Body
  <2> QED BY <1>2, <1>4, <2>2
<1> QED BY <1>5, <1>6

\* A record that is left is that of a call ahead, and has its params.
LEMMA OwnParams ==
    ASSUME ReplayInv, RecordsAreOwn, phase = "replay", Replayable, Intact,
           EqualCallsDoNotOverlap,
           NEW k \in 1 .. Len(records), NEW i \in 1 .. Len(trace), Begins(i),
           trace[i].call = records[k].call
    PROVE  records[k].params = trace[i].params
<1>1. PICK r \in 1 .. Len(recording) : records[k] = recording[r]
  BY DEF RecordsAreOwn
<1>2. PICK o \in 1 .. Len(trace) : /\ Begins(o) /\ trace[o].call = recording[r].call
                                   /\ trace[o].params = recording[r].params
  BY DEF ReplayInv, RecordedAreOutermost
<1>3. o = i
  BY <1>1, <1>2 DEF ReplayInv, TraceInv, TraceIsOrdered
<1> QED BY <1>1, <1>2, <1>3

\* Two records that are left are of different calls.
LEMMA OwnAreDistinct ==
    ASSUME ReplayInv, RecordsAreOwn, phase = "replay", Replayable, Intact,
           EqualCallsDoNotOverlap,
           NEW k \in 1 .. Len(records), NEW l \in 1 .. Len(records),
           records[k].call = records[l].call
    PROVE  k = l
<1>1. PICK i \in Pending : records[k].call = trace[i].call
  BY DEF RecordsAreOwn
<1>2. /\ i \in 1 .. Len(trace) /\ Begins(i) /\ TraceInv
      /\ \A c \in Contexts : stack[c] = <<>>
  BY DEF Pending, ReplayInv, PhaseInv
<1>3. PICK a \in 1 .. Len(trace) : EndsAt(i, a)
  BY <1>2, CallsHaveEnds
<1>4. IsEnd(a, records[k].call) /\ IsEnd(a, records[l].call)
  BY <1>1, <1>3 DEF EndsAt, IsEnd
<1>5. ~(k < l) /\ ~(l < k)
  <2>1. ~(a < a)
    BY LenProperties DEF ReplayInv, TraceInv, TraceTypeOK
  <2> QED BY <1>4, <2>1 DEF RecordsAreOwn
<1> QED BY <1>5, LenProperties DEF ReplayInv, TraceInv, TraceTypeOK

\* The first record with the params of the call that is mocked is the call's own.
LEMMA FirstMatchIsOwn ==
    ASSUME ReplayInv, RecordsAreOwn, Replaying, Replayable, Intact, EqualCallsDoNotOverlap,
           pos \in Pending, NEW m, m = FirstMatchOf(Here), m # 0
    PROVE  m \in 1 .. Len(records) /\ records[m].call = Here.call
<1>1. PICK p \in Pending : p = pos
  OBVIOUS
<1>2. phase = "replay" /\ records \in Seq(Entry) /\ Here = trace[p] /\ Len(records) \in Nat
  BY <1>1, LenProperties DEF Replaying, Here, ReplayInv, TraceInv, TraceTypeOK
<1>3. /\ m \in 1 .. Len(records) /\ records[m].params = trace[p].params
      /\ \A k \in 1 .. Len(records) : records[k].params = trace[p].params => m <= k
  BY <1>2, FirstMatchMatches
<1>4. PICK x \in 1 .. Len(records) : records[x].call = trace[p].call
  BY <1>1, <1>2 DEF RecordsAreOwn
<1>5. p \in 1 .. Len(trace) /\ Begins(p) /\ pos \in Nat
  BY DEF Pending, ReplayInv, TraceInv, TraceTypeOK
<1>6. records[x].params = trace[p].params
  BY <1>2, <1>4, <1>5, OwnParams
<1>7. PICK i \in Pending : records[m].call = trace[i].call
  BY <1>2, <1>3 DEF RecordsAreOwn
<1>8. i \in 1 .. Len(trace) /\ Begins(i) /\ p <= i
  BY <1>1 DEF Pending
<1>9. records[m].params = trace[i].params
  BY <1>2, <1>3, <1>7, <1>8, OwnParams
<1>10. CASE i = p
  BY <1>2, <1>3, <1>7, <1>10
<1>11. CASE i # p
  <2>1. p < i
    BY <1>5, <1>8, <1>11
  <2>2. EndOf(trace[p]) < EndOf(trace[i])
    BY <1>2, <1>3, <1>9, <2>1, EqualCallsEndInOrder
  <2>3. m <= x /\ m # x
    <3>1. trace[i].call # trace[p].call
      BY <1>5, <1>8, <1>11 DEF ReplayInv, TraceInv, TraceIsOrdered
    <3> QED BY <1>3, <1>4, <1>6, <1>7, <3>1
  <2>4. /\ EndOf(trace[p]) \in 1 .. Len(trace) /\ EndsAt(p, EndOf(trace[p]))
        /\ EndOf(trace[i]) \in 1 .. Len(trace) /\ EndsAt(i, EndOf(trace[i]))
    BY <1>2, <1>5, <1>8, CallsHaveEnds DEF ReplayInv, PhaseInv
  <2>5. IsEnd(EndOf(trace[i]), records[m].call) /\ IsEnd(EndOf(trace[p]), records[x].call)
    BY <1>4, <1>7, <2>4 DEF EndsAt, IsEnd
  <2>6. m < x
    BY <1>3, <1>4, <2>3
  <2>7. EndOf(trace[i]) < EndOf(trace[p])
    BY <1>2, <1>3, <1>4, <2>4, <2>5, <2>6 DEF RecordsAreOwn
  <2> QED BY <2>2, <2>4, <2>7
<1> QED BY <1>10, <1>11

\* At the start all records are left, those of all calls.
LEMMA StartOwn ==
    ASSUME OwnInv, StartReplay PROVE RecordsAreOwn'
<1> SUFFICES ASSUME Replayable', Intact', EqualCallsDoNotOverlap' PROVE RecordsAreOwn'
  BY DEF RecordsAreOwn
<1>1. /\ WrapperInv /\ TraceInv /\ RecordedAreOutermost /\ pos = 1
      /\ \A c \in Contexts : stack[c] = <<>>
      /\ RecordingIsOrdered /\ answers = {}
  BY DEF OwnInv, ReplayInv, StartReplay, PhaseInv, NothingAnswered
<1>2. /\ vars' = vars /\ trace' = trace /\ records' = recording /\ pos' = pos
      /\ answers' = {} /\ recording' = recording
  BY <1>1, IntactIsLoaded DEF StartReplay, vars, WrapperInv
<1>3. Replayable
  BY <1>2, OuterIsStable
<1>4. \A i : i \in Pending' <=> i \in 1 .. Len(trace) /\ Begins(i) /\ Recorded(i)
  <2>1. \A i \in 1 .. Len(trace) : pos <= i
    BY <1>1
  <2>2. \A i : Begins(i)' = Begins(i) /\ Recorded(i)' = Recorded(i)
    BY <1>2, OuterIsStable
  <2> QED BY <1>2, <2>1, <2>2 DEF Pending
<1>5. ASSUME NEW k \in 1 .. Len(recording)
      PROVE  \E i \in Pending' : recording[k].call = trace[i].call
  <2>1. PICK i \in 1 .. Len(trace) : Begins(i) /\ trace[i].call = recording[k].call
    BY <1>1, <1>3 DEF RecordedAreOutermost
  <2> QED BY <1>4, <2>1 DEF Recorded
<1>6. ASSUME NEW i \in Pending'
      PROVE  \E k \in 1 .. Len(recording) : recording[k].call = trace[i].call
  <2>1. i \in 1 .. Len(trace) /\ Recorded(i)
    BY <1>4
  <2>2. trace[i].context \in Contexts
    BY <1>1, <2>1, TracedContexts DEF TraceInv
  <2>3. Len(stack[trace[i].context]) = 0
    BY <1>1, <2>2
  <2> QED BY <2>1, <2>3 DEF Recorded
<1>7. \A k, l \in 1 .. Len(recording) : k < l =>
         \A a, b \in 1 .. Len(trace) :
             IsEnd(a, recording[k].call)' /\ IsEnd(b, recording[l].call)' => a < b
  BY <1>1, <1>2 DEF RecordingIsOrdered, IsEnd
<1>8. /\ \A a \in answers' : IsOwn(a)'
      /\ \A k \in 1 .. Len(records') : \E r \in 1 .. Len(recording') : records'[k] = recording'[r]
      /\ \A k \in 1 .. Len(records') : \E i \in Pending' : records'[k].call = trace'[i].call
      /\ \A i \in Pending' : \E k \in 1 .. Len(records') : records'[k].call = trace'[i].call
  BY <1>2, <1>5, <1>6
<1>9. \A k, l \in 1 .. Len(records') : k < l =>
         \A a, b \in 1 .. Len(trace') :
             IsEnd(a, records[k].call)' /\ IsEnd(b, records[l].call)' => a < b
  BY <1>2, <1>7 DEF IsEnd
<1> QED BY <1>8, <1>9 DEF RecordsAreOwn

\* A call that is mocked gets its own record, and the others stay for their calls.
LEMMA MockedOwn ==
    ASSUME OwnInv, ReplayMocked, Replayable, Intact, EqualCallsDoNotOverlap
    PROVE  RecordsAreOwn'
<1>1. /\ ReplayInv /\ RecordsAreOwn /\ Replaying /\ phase = "replay"
      /\ vars' = vars /\ trace' = trace /\ pos' = pos + 1 /\ recording' = recording
  BY DEF OwnInv, ReplayMocked, Replaying, vars
<1>2. records \in Seq(Entry) /\ TraceInv
  BY <1>1 DEF ReplayInv, TraceInv, TraceTypeOK
<1>3. PICK m : m = FirstMatchOf(Here)
  OBVIOUS
<1>4. /\ m # 0 /\ records' = RemoveAt(records, m)
      /\ answers' = answers \cup {[call |-> Here.call, got |-> records[m].result]}
      /\ pos \notin skipped /\ Mocked(Here)
  BY <1>3 DEF ReplayMocked
<1>5. PICK p \in 1 .. Len(trace) : p = pos
  BY <1>1, <1>2, LenProperties DEF Replaying, TraceInv, TraceTypeOK
<1>6. p \in Pending /\ Here = trace[p] /\ Begins(p)
  BY <1>1, <1>4, <1>5, MockedIsRecorded DEF Pending, Here
<1>7. m \in 1 .. Len(records) /\ records[m].call = trace[p].call
  BY <1>1, <1>3, <1>4, <1>5, <1>6, FirstMatchIsOwn
<1>8. Pending' = Pending \ {p}
  BY <1>1, <1>5, PendingNext
<1>n. PICK n \in Nat : n = Len(records)
  BY <1>2, LenProperties
<1> DEFINE up(k) == IF k < m THEN k ELSE k + 1
<1>9. /\ Len(records') = n - 1 /\ m \in 1 .. n
      /\ \A k \in 1 .. n - 1 : records'[k] = records[up(k)]
      /\ \A k \in 1 .. n - 1 : up(k) \in 1 .. n /\ up(k) # m
      /\ \A k, l \in 1 .. n - 1 : k < l => up(k) < up(l)
  BY <1>2, <1>4, <1>7, <1>n, RemoveAtRemoves
<1>10. \A l \in 1 .. n : l # m => \E k \in 1 .. n - 1 : up(k) = l
  <2> SUFFICES ASSUME NEW l \in 1 .. n, l # m PROVE \E k \in 1 .. n - 1 : up(k) = l
    OBVIOUS
  <2>1. CASE l < m
    <3>1. l \in 1 .. n - 1 /\ up(l) = l
      BY <1>9, <2>1
    <3> QED BY <3>1
  <2>2. CASE ~(l < m)
    <3>1. l - 1 \in 1 .. n - 1 /\ up(l - 1) = l
      BY <1>9, <2>2
    <3> QED BY <3>1
  <2> QED BY <2>1, <2>2
<1> HIDE DEF up
<1>11. \A k \in 1 .. n : k # m => records[k].call # trace[p].call
  BY <1>1, <1>7, <1>n, OwnAreDistinct
<1>12. /\ \A k \in 1 .. n : \E r \in 1 .. Len(recording) : records[k] = recording[r]
       /\ \A k \in 1 .. n : \E i \in Pending : records[k].call = trace[i].call
       /\ \A i \in Pending : \E k \in 1 .. n : records[k].call = trace[i].call
       /\ \A k, l \in 1 .. n : k < l =>
             \A a, b \in 1 .. Len(trace) :
                 IsEnd(a, records[k].call) /\ IsEnd(b, records[l].call) => a < b
       /\ \A a \in answers : IsOwn(a)
  BY <1>1, <1>n DEF RecordsAreOwn
<1>13. \A a \in answers' : IsOwn(a)'
  <2>1. PICK r \in 1 .. Len(recording) : records[m] = recording[r]
    BY <1>9, <1>12
  <2>2. DOMAIN recording = 1 .. Len(recording)
    BY <1>1, LenProperties DEF ReplayInv, WrapperInv, WrapperTypeOK
  <2>3. IsOwn([call |-> Here.call, got |-> records[m].result])
    BY <1>6, <1>7, <2>1, <2>2 DEF IsOwn
  <2>4. \A a : IsOwn(a)' <=> IsOwn(a)
    BY <1>1 DEF IsOwn
  <2> QED BY <1>4, <1>12, <2>3, <2>4
<1>14. \A k \in 1 .. n - 1 : \E r \in 1 .. Len(recording') : records'[k] = recording'[r]
  <2> SUFFICES ASSUME NEW k \in 1 .. n - 1
               PROVE  \E r \in 1 .. Len(recording') : records'[k] = recording'[r]
    OBVIOUS
  <2>1. recording' = recording
    BY <1>1
  <2>2. up(k) \in 1 .. n /\ records'[k] = records[up(k)]
    BY <1>9
  <2>3. \E r \in 1 .. Len(recording) : records[up(k)] = recording[r]
    BY <1>12, <2>2
  <2> QED BY <2>1, <2>2, <2>3
<1>15. \A k \in 1 .. n - 1 : \E i \in Pending' : records'[k].call = trace'[i].call
  <2> SUFFICES ASSUME NEW k \in 1 .. n - 1
               PROVE  \E i \in Pending' : records'[k].call = trace'[i].call
    OBVIOUS
  <2>1. up(k) \in 1 .. n /\ up(k) # m /\ records'[k] = records[up(k)]
    BY <1>9
  <2>2. PICK i \in Pending : records[up(k)].call = trace[i].call
    BY <1>12, <2>1
  <2>3. i # p
    BY <1>11, <2>1, <2>2
  <2> QED BY <1>1, <1>8, <2>1, <2>2, <2>3
<1>16. \A i \in Pending' : \E k \in 1 .. n - 1 : records'[k].call = trace'[i].call
  <2> SUFFICES ASSUME NEW i \in Pending \ {p}
               PROVE  \E k \in 1 .. n - 1 : records'[k].call = trace'[i].call
    BY <1>8
  <2>1. PICK l \in 1 .. n : records[l].call = trace[i].call
    BY <1>12
  <2>2. trace[i].call # trace[p].call
    BY <1>2, <1>6 DEF Pending, TraceInv, TraceIsOrdered
  <2>3. PICK k \in 1 .. n - 1 : up(k) = l
    BY <1>7, <1>10, <2>1, <2>2
  <2> QED BY <1>1, <1>9, <2>1, <2>3
<1>17. \A k, l \in 1 .. n - 1 : k < l =>
          \A a, b \in 1 .. Len(trace') :
              IsEnd(a, records[k].call)' /\ IsEnd(b, records[l].call)' => a < b
  <2> SUFFICES ASSUME NEW k \in 1 .. n - 1, NEW l \in 1 .. n - 1, k < l,
                      NEW a \in 1 .. Len(trace'), NEW b \in 1 .. Len(trace'),
                      IsEnd(a, records[k].call)', IsEnd(b, records[l].call)'
               PROVE  a < b
    OBVIOUS
  <2>1. IsEnd(a, records[up(k)].call) /\ IsEnd(b, records[up(l)].call)
    BY <1>1, <1>9 DEF IsEnd
  <2>2. up(k) \in 1 .. n /\ up(l) \in 1 .. n /\ up(k) < up(l)
    BY <1>9
  <2> QED BY <1>1, <1>12, <2>1, <2>2
<1> HIDE DEF IsEnd, IsOwn
<1> QED BY <1>9, <1>13, <1>14, <1>15, <1>16, <1>17 DEF RecordsAreOwn

LEMMA OwnNext ==
    ASSUME OwnInv, [ReplayNext]_allVars PROVE RecordsAreOwn'
<1>1. ASSUME NEW c \in Contexts, RecordStep(c) PROVE RecordsAreOwn'
  BY <1>1 DEF RecordStep, replayVars, RecordsAreOwn
<1>2. CASE StartReplay
  BY <1>2, StartOwn
<1>3. ASSUME vars' = vars, trace' = trace, phase' = phase, source' = source,
             records' = records, answers' = answers,
             Replayable /\ phase = "replay" => Pending' = Pending
      PROVE  RecordsAreOwn'
  <2> SUFFICES ASSUME phase' = "replay", Replayable', Intact', EqualCallsDoNotOverlap'
               PROVE  RecordsAreOwn'
    BY DEF RecordsAreOwn
  <2>1. phase = "replay" /\ Replayable /\ Intact /\ recording' = recording
    BY <1>3, OuterIsStable, IntactStays DEF vars
  <2>2. EqualCallsDoNotOverlap
    BY <1>3 DEF EqualCallsDoNotOverlap, Mocked, EndOf
  <2>3. RecordsAreOwn
    BY DEF OwnInv
  <2> QED BY <1>3, <2>1, <2>2, <2>3 DEF RecordsAreOwn, IsOwn, IsEnd
<1>4. CASE ReplayMocked
  <2> SUFFICES ASSUME Replayable', Intact', EqualCallsDoNotOverlap' PROVE RecordsAreOwn'
    BY DEF RecordsAreOwn
  <2>1. vars' = vars /\ trace' = trace /\ source' = source
    BY <1>4 DEF ReplayMocked
  <2>2. Replayable /\ Intact /\ EqualCallsDoNotOverlap
    BY <2>1, OuterIsStable, IntactStays DEF EqualCallsDoNotOverlap, Mocked, EndOf
  <2> QED BY <1>4, <2>2, MockedOwn
<1>5. CASE ReplayUnmatched
  <2>1. /\ vars' = vars /\ trace' = trace /\ phase' = phase /\ pos' = pos
        /\ source' = source /\ records' = records /\ answers' = answers
    BY <1>5 DEF ReplayUnmatched
  <2>2. Pending' = Pending
    <3>1. \A i : Begins(i)' = Begins(i) /\ Recorded(i)' = Recorded(i)
      BY <2>1, OuterIsStable
    <3> QED BY <2>1, <3>1 DEF Pending
  <2> QED BY <1>3, <2>1, <2>2
<1>6. CASE ReplayThrough
  <2>1. /\ vars' = vars /\ trace' = trace /\ phase' = phase /\ pos' = pos + 1
        /\ source' = source /\ records' = records /\ answers' = answers /\ Replaying
        /\ ~(pos \notin skipped /\ Mocked(Here))
    BY <1>6 DEF ReplayThrough
  <2>2. ASSUME Replayable PROVE Pending' = Pending
    <3>1. pos \notin Pending
      BY <2>1, <2>2, MockedIsRecorded DEF OwnInv, Pending
    <3> QED BY <2>1, <3>1, PendingNext DEF OwnInv
  <2> QED BY <1>3, <2>1, <2>2
<1>7. CASE UNCHANGED allVars
  <2>1. /\ vars' = vars /\ trace' = trace /\ phase' = phase /\ pos' = pos
        /\ source' = source /\ records' = records /\ answers' = answers
    BY <1>7 DEF allVars, replayVars
  <2>2. Pending' = Pending
    <3>1. \A i : Begins(i)' = Begins(i) /\ Recorded(i)' = Recorded(i)
      BY <2>1, OuterIsStable
    <3> QED BY <2>1, <3>1 DEF Pending
  <2> QED BY <1>3, <2>1, <2>2
<1> QED BY <1>1, <1>2, <1>4, <1>5, <1>6, <1>7 DEF ReplayNext, ReplayStep

LEMMA AnsweredNext == ASSUME NothingAnswered, [ReplayNext]_allVars PROVE NothingAnswered'
<1>1. ASSUME NEW c \in Contexts, RecordStep(c) PROVE NothingAnswered'
  BY <1>1 DEF RecordStep, replayVars, NothingAnswered
<1> QED BY <1>1 DEF ReplayNext, StartReplay, ReplayStep, ReplayMocked, ReplayUnmatched,
      ReplayThrough, Replaying, allVars, replayVars, NothingAnswered

-----------------------------------------------------------------------------
(* The invariant, and what it implies                                      *)

LEMMA ReplayInvNext == ASSUME ReplayInv, [ReplayNext]_allVars PROVE ReplayInv'
<1>1. WrapperInv /\ TraceInv /\ RecordedAreOutermost /\ PhaseInv
  BY DEF ReplayInv
<1>2. WrapperInv'
  BY <1>1, WrapperNext, ReplayStepsAreSteps
<1>3. TraceInv' /\ RecordedAreOutermost' /\ PhaseInv'
  BY <1>1, TraceInvNext, OuterNext, PhaseNext
<1> QED BY <1>2, <1>3, SkippedNext, PairsNext DEF ReplayInv

LEMMA OwnInvHolds == ReplaySpec => []OwnInv
<1>1. TraceInit => OwnInv
  <2> SUFFICES ASSUME TraceInit PROVE OwnInv
    OBVIOUS
  <2>1. ReplayInv
    BY WrapperInit, TraceInvInit, OuterInit, PhaseInit DEF TraceInit, ReplayInv
  <2>2. recording = <<>> /\ Len(recording) = 0 /\ phase = "record" /\ answers = {}
    BY DEF TraceInit, Init
  <2>3. RecordingIsOrdered /\ NothingAnswered /\ RecordsAreOwn
    BY <2>2 DEF RecordingIsOrdered, NothingAnswered, RecordsAreOwn
  <2> QED BY <2>1, <2>3 DEF OwnInv
<1>2. OwnInv /\ [ReplayNext]_allVars => OwnInv'
  <2> SUFFICES ASSUME OwnInv, [ReplayNext]_allVars PROVE OwnInv'
    OBVIOUS
  <2>1. ReplayInv /\ WrapperInv /\ TraceInv /\ RecordingIsOrdered /\ NothingAnswered
    BY DEF OwnInv, ReplayInv
  <2>2. ReplayInv'
    BY <2>1, ReplayInvNext
  <2>3. RecordingIsOrdered' /\ NothingAnswered' /\ RecordsAreOwn'
    BY <2>1, OrderNext, AnsweredNext, OwnNext
  <2> QED BY <2>2, <2>3 DEF OwnInv
<1> QED BY <1>1, <1>2, PTL DEF ReplaySpec

LEMMA ReplayMatchesFollows == OwnInv => ReplayMatches
<1> SUFFICES ASSUME OwnInv, Replayable, Intact
             PROVE  ~unmatched /\ \A a \in answers : EqualCallsDoNotOverlap => IsOwn(a)
  BY DEF ReplayMatches
<1>1. phase \in {"record", "replay"} /\ ReplayInv
  BY DEF OwnInv, ReplayInv, TraceInv, TraceTypeOK
<1>2. ~unmatched
  BY <1>1 DEF ReplayInv, PhaseInv, RecordsArePending
<1>3. ASSUME NEW a \in answers, EqualCallsDoNotOverlap PROVE IsOwn(a)
  BY <1>1, <1>3 DEF OwnInv, NothingAnswered, RecordsAreOwn
<1> QED BY <1>2, <1>3

LEMMA ReplayConsumesFollows == ReplayInv => ReplayConsumesAll
<1> SUFFICES ASSUME ReplayInv, phase = "replay", Replayable, pos > Len(trace)
             PROVE  records = <<>>
  BY DEF ReplayConsumesAll
<1>1. records \in Seq(Entry) /\ pos \in Nat /\ Len(trace) \in Nat /\ Len(records) \in Nat
  BY LenProperties DEF ReplayInv, TraceInv, TraceTypeOK
<1>2. Pending = {}
  BY <1>1 DEF Pending
<1>3. PICK f : f \in [1 .. Len(records) -> Pending]
  BY DEF ReplayInv, RecordsArePending, Pairs
<1>4. Len(records) = 0
  <2> SUFFICES ASSUME Len(records) # 0 PROVE FALSE
    OBVIOUS
  <2>1. 1 \in 1 .. Len(records)
    BY <1>1
  <2>2. f[1] \in Pending
    BY <1>3, <2>1
  <2> QED BY <1>2, <2>2
<1> QED BY <1>1, <1>4, EmptySeq

\* A program in which no marked call raises, and all can be described, can be
\* replayed from a recording that is intact, one whose records are those it was
\* given: pop_matching_record finds a record for every call that
\* record_replay_wrapper mocks, however its contexts were interleaved, and it is the
\* call's own where no two calls with equal params overlapped.
THEOREM ReplaysMatch == ReplaySpec => []ReplayMatches
BY OwnInvHolds, ReplayMatchesFollows, PTL

\* A replay of such a program that runs to the end has consumed the whole recording,
\* wherever the recording comes from: if _ensure_records_processed raises, or a call
\* finds no record, the replay does not run to the end.
THEOREM ReplaysConsumeAll == ReplaySpec => []ReplayConsumesAll
<1>1. OwnInv => ReplayInv
  BY DEF OwnInv
<1> QED BY <1>1, OwnInvHolds, ReplayConsumesFollows, PTL
=============================================================================
