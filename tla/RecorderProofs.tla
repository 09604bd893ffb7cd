--------------------------- MODULE RecorderProofs ---------------------------
(***************************************************************************)
(* Invariants of Recorder, proved for every set of threads and types,      *)
(* every way in which serialization may fail, and every bound.             *)
(***************************************************************************)
EXTENDS Recorder, SequenceTheorems, TLAPS

(* The tokens that the actions append are tokens.                          *)
LEMMA TokenTypes ==
    /\ Open \in Token /\ Comma \in Token /\ Close \in Token
    /\ \A r \in Record : /\ RecordHead(r) \in Token
                         /\ RecordTail(r) \in Token
                         /\ ErrorObject(r) \in Token
BY DEF Token, Open, Comma, Close, RecordHead, RecordTail, ErrorObject

(* Appending a token to a file gives a file.                               *)
LEMMA AppendToken ==
    ASSUME NEW f \in Seq(Token), NEW x \in Token
    PROVE  Append(f, x) \in Seq(Token)
OBVIOUS

(* A list that _to_list returns is a sequence of the records it read.      *)
LEMMA SortedType ==
    ASSUME TypeOK, NEW s \in SortedRecords
    PROVE  s \in Seq(Record) /\ Len(s) \in Nat /\ DOMAIN s = 1 .. Len(s)
<1>1. gathered \subseteq Record
  BY DEF TypeOK
<1>2. s \in Seq(gathered)
  BY DEF SortedRecords, SomeOrder, BoundedSeq, SeqOf, TypeOK
<1> QED BY <1>1, <1>2

(* What write() dumps from the lists is a sequence of tokens.              *)
LEMMA DumpedType ==
    ASSUME TypeOK, NEW s \in SortedRecords
    PROVE  Dumped(s) \subseteq Seq(Token)
<1> DEFINE n == IF s = <<>> THEN 2 ELSE 3 * Len(s) + 1
<1>2. s \in Seq(Record) /\ Len(s) \in Nat /\ DOMAIN s = 1 .. Len(s)
  BY SortedType
<1>3. n \in Nat
  BY <1>2
<1>4. ASSUME NEW i \in 1 .. n
      PROVE  ListTokens(s)[i] \in Token
  <2>1. CASE i = 1 \/ s = <<>> \/ i = 3 * Len(s) + 1
    BY <2>1, TokenTypes, <1>2 DEF ListTokens
  <2>2. CASE ~(i = 1 \/ s = <<>> \/ i = 3 * Len(s) + 1)
    <3>1. ((i - 2) \div 3) + 1 \in 1 .. Len(s)
      BY <2>2, <1>2
    <3>2. s[((i - 2) \div 3) + 1] \in Record
      BY <3>1, <1>2
    <3> QED BY <2>2, <3>2, TokenTypes DEF ListTokens
  <2> QED BY <2>1, <2>2
<1>5. ListTokens(s) = [i \in 1 .. n |-> ListTokens(s)[i]]
  BY DEF ListTokens
<1>6. ListTokens(s) \in Seq(Token)
  <2> HIDE DEF n
  <2> QED BY <1>3, <1>4, <1>5
<1>7. ASSUME NEW k \in DOMAIN s, s # <<>>
      PROVE  SubSeq(ListTokens(s), 1, 3 * k - 1) \in Seq(Token)
  <2>1. 3 * k - 1 \in Nat /\ 3 * k - 1 <= n
    BY <1>2, <1>7
  <2>2. \A i \in 1 .. 3 * k - 1 : ListTokens(s)[i] \in Token
    <3> HIDE DEF n
    <3> QED BY <1>3, <1>4, <2>1
  <2> QED BY <2>1, <2>2, SubSeqProperties
<1>8. <<>> \in Seq(Token)
  OBVIOUS
<1> QED
  <2> HIDE DEF n
  <2>1. CASE s = <<>>
    BY <2>1, <1>6, <1>8 DEF Dumped
  <2>2. CASE s # <<>>
    BY <2>2, <1>6, <1>7, <1>8 DEF Dumped
  <2> QED BY <2>1, <2>2

-----------------------------------------------------------------------------
(* Type correctness: in every reachable state the recorder's fields, its   *)
(* locks and the tokens in its file have the types that add_record and     *)
(* write rely on.                                                          *)

LEMMA TypeInit == Init => TypeOK
<1> SUFFICES ASSUME Init PROVE TypeOK
  OBVIOUS
<1>1. (CHOOSE y \in Types : TRUE) \in Types
  BY TypesAssumption
<1>2. rec \in [Threads -> Record] /\ \A t \in Threads : rec[t].by = t
  BY <1>1 DEF Init, NewRecord, Record, AllFates, NoSeq
<1>3. file \in Seq(Token)
  <2>1. <<Open>> \in Seq(Token) /\ <<>> \in Seq(Token)
    BY TokenTypes
  <2> QED BY <2>1 DEF Init
<1>4. recordsByType \in [Types -> Seq(Record)]
  BY DEF Init
<1>5. streaming \in BOOLEAN /\ joins \in BOOLEAN
  BY FlagsAssumption DEF Init
<1> QED BY <1>2, <1>3, <1>4, <1>5 DEF Init, TypeOK, Labels

LEMMA TypeNext == TypeOK /\ [Next]_vars => TypeOK'
<1> SUFFICES ASSUME TypeOK, [Next]_vars PROVE TypeOK'
  OBVIOUS
<1> USE DEF Labels, addVars, counterVars, streamVars, memoryVars, writeVars, listVars
<1>c. streaming' \in BOOLEAN /\ joins' \in BOOLEAN
  BY DEF Next, vars, setupVars, TypeOK
<1> USE <1>c
<1>1. ASSUME NEW t \in Threads, StartAdd(t) PROVE TypeOK'
  <2>1. PICK type \in Types, fate \in Fates :
           rec' = [rec EXCEPT ![t] = NewRecord(t, calls[t] + 1, type, fate)]
    BY <1>1 DEF StartAdd
  <2>2. NewRecord(t, calls[t] + 1, type, fate) \in Record
    BY TypesAssumption DEF NewRecord, Record, NoSeq, TypeOK
  <2>3. rec' \in [Threads -> Record] /\ \A u \in Threads : rec'[u].by = u
    BY <2>1, <2>2 DEF TypeOK, NewRecord
  <2> QED BY <1>1, <2>3 DEF StartAdd, Goto, TypeOK
<1>2. ASSUME NEW t \in Threads, LockCounter(t) PROVE TypeOK'
  BY <1>2 DEF LockCounter, Goto, TypeOK
<1>3. ASSUME NEW t \in Threads, AssignSeq(t) PROVE TypeOK'
  <2>1. rec' = [rec EXCEPT ![t] = [rec[t] EXCEPT !.seq = counter]]
    BY <1>3 DEF AssignSeq
  <2>2. [rec[t] EXCEPT !.seq = counter] \in Record
    <3>1. rec[t] \in Record /\ counter \in Int
      BY DEF TypeOK
    <3> QED BY <3>1 DEF Record
  <2>3. [rec[t] EXCEPT !.seq = counter].by = t
    BY DEF TypeOK, Record
  <2>4. rec' \in [Threads -> Record] /\ \A u \in Threads : rec'[u].by = u
    BY <2>1, <2>2, <2>3 DEF TypeOK
  <2> QED BY <1>3, <2>4 DEF AssignSeq, Goto, TypeOK
<1>4. ASSUME NEW t \in Threads, BumpCounter(t) PROVE TypeOK'
  BY <1>4 DEF BumpCounter, Goto, TypeOK
<1>5. ASSUME NEW t \in Threads, CheckFile(t) PROVE TypeOK'
  BY <1>5 DEF CheckFile, Goto, TypeOK
<1>6. ASSUME NEW t \in Threads, LockFile(t) PROVE TypeOK'
  BY <1>6 DEF LockFile, Goto, TypeOK
<1>7. ASSUME NEW t \in Threads, WriteComma(t) PROVE TypeOK'
  <2>1. file' = file \/ file' = Append(file, Comma)
    BY <1>7 DEF WriteComma, Append1
  <2>2. file' \in Seq(Token)
    BY <2>1, TokenTypes, AppendToken DEF TypeOK
  <2> QED BY <1>7, <2>2 DEF WriteComma, Goto, TypeOK
<1>8. ASSUME NEW t \in Threads, DumpHead(t) PROVE TypeOK'
  <2>1. file' = file \/ file' = Append(file, RecordHead(rec[t]))
    BY <1>8 DEF DumpHead, Append1
  <2>2. file' \in Seq(Token)
    BY <2>1, TokenTypes, AppendToken DEF TypeOK
  <2> QED BY <1>8, <2>2 DEF DumpHead, Goto, TypeOK
<1>9. ASSUME NEW t \in Threads, DumpTail(t) PROVE TypeOK'
  <2>1. file' = file \/ file' = Append(file, RecordTail(rec[t]))
    BY <1>9 DEF DumpTail, Append1
  <2>2. file' \in Seq(Token)
    BY <2>1, TokenTypes, AppendToken DEF TypeOK
  <2>3. pc' \in [Threads -> Labels]
    BY <1>9 DEF DumpTail, Return, Goto, TypeOK
  <2>6. returned' \subseteq Record
    BY <1>9 DEF DumpTail, Return, TypeOK
  <2>4. fileLock' \in Threads \cup {Nobody} /\ recordAdded' \in BOOLEAN
    BY <1>9 DEF DumpTail, TypeOK
  <2>5. UNCHANGED <<rec, calls, raised, counterVars, memoryVars, writeVars>>
    BY <1>9 DEF DumpTail, Return
  <2> QED BY <2>2, <2>3, <2>4, <2>5, <2>6 DEF TypeOK
<1>10. ASSUME NEW t \in Threads, DumpError(t) PROVE TypeOK'
  <2>1. file' = file \/ file' = Append(file, ErrorObject(rec[t]))
    BY <1>10 DEF DumpError, Append1
  <2>2. file' \in Seq(Token)
    BY <2>1, TokenTypes, AppendToken DEF TypeOK
  <2> QED BY <1>10, <2>2 DEF DumpError, Return, Goto, TypeOK
<1>11. ASSUME NEW t \in Threads, WriteRaises(t) PROVE TypeOK'
  BY <1>11 DEF WriteRaises, Raise, Goto, TypeOK
<1>12. ASSUME NEW t \in Threads, CheckList(t) PROVE TypeOK'
  BY <1>12 DEF CheckList, Goto, TypeOK
<1>13. ASSUME NEW t \in Threads, CreateList(t) PROVE TypeOK'
  <2>1. rec[t].type \in Types
    BY DEF TypeOK, Record
  <2> QED BY <1>13, <2>1 DEF CreateList, Goto, TypeOK
<1>14. ASSUME NEW t \in Threads, AppendRecord(t) PROVE TypeOK'
  <2>1. rec[t].type \in Types
    BY DEF TypeOK, Record
  <2>2. recordsByType' \in [Types -> Seq(Record)]
    BY <1>14, <2>1 DEF AppendRecord, TypeOK
  <2> QED BY <1>14, <2>2 DEF AppendRecord, Return, Goto, TypeOK
<1>15. ASSUME WriteBracket PROVE TypeOK'
  <2>1. file' \in Seq(Token)
    BY <1>15, TokenTypes DEF WriteBracket, TypeOK
  <2> QED BY <1>15, <2>1 DEF WriteBracket, TypeOK
<1>16. ASSUME CloseFile \/ UnsetFile PROVE TypeOK'
  BY <1>16 DEF CloseFile, UnsetFile, TypeOK
<1>17. ASSUME OpenList PROVE TypeOK'
  <2>1. <<>> \in Seq(Token)
    OBVIOUS
  <2> QED BY <1>17, <2>1 DEF OpenList, TypeOK
<1>19. ASSUME GatherType PROVE TypeOK'
  <2>1. PICK y \in unread : /\ gathered' = gathered \cup ToSet(recordsByType[y])
                            /\ unread' = unread \ {y}
    BY <1>19 DEF GatherType
  <2>2. ToSet(recordsByType[y]) \subseteq Record
    BY DEF TypeOK, ToSet
  <2> QED BY <1>19, <2>1, <2>2 DEF GatherType, TypeOK
<1>20. ASSUME ListRaises PROVE TypeOK'
  BY <1>20 DEF ListRaises, EndList, TypeOK
<1>21. ASSUME DumpList PROVE TypeOK'
  <2>1. file' \in Seq(Token)
    BY <1>21, DumpedType DEF DumpList
  <2> QED BY <1>21, <2>1 DEF DumpList, EndList, TypeOK
<1>18. CASE UNCHANGED vars
  BY <1>18 DEF vars, TypeOK
<1> QED
  BY <1>1, <1>2, <1>3, <1>4, <1>5, <1>6, <1>7, <1>8, <1>9, <1>10, <1>11,
     <1>12, <1>13, <1>14, <1>15, <1>16, <1>17, <1>18, <1>19, <1>20, <1>21
     DEF Next, AddStep, WriteStep, WriteListStep

THEOREM TypeCorrect == Spec => []TypeOK
<1>1. Init => TypeOK BY TypeInit
<1>2. TypeOK /\ [Next]_vars => TypeOK' BY TypeNext
<1> QED BY <1>1, <1>2, PTL DEF Spec

-----------------------------------------------------------------------------
(* Mutual exclusion: each lock is held exactly by the thread inside the    *)
(* section it protects, so at most one thread numbers a record and at most *)
(* one writes to the file.                                                 *)

LEMMA LocksInit == Init => LocksMatchSections
BY NobodyAssumption DEF Init, LocksMatchSections, InFileSection

LEMMA LocksNext == TypeOK /\ LocksMatchSections /\ [Next]_vars => LocksMatchSections'
<1> SUFFICES ASSUME TypeOK, LocksMatchSections, [Next]_vars
             PROVE  LocksMatchSections'
  OBVIOUS
<1> USE NobodyAssumption DEF Labels, InFileSection, LocksMatchSections,
        addVars, counterVars, streamVars, memoryVars, writeVars, listVars
<1>t. pc \in [Threads -> Labels]
  BY DEF TypeOK
<1>1. ASSUME NEW t \in Threads, StartAdd(t) \/ LockCounter(t) \/ AssignSeq(t)
                                  \/ BumpCounter(t) \/ CheckFile(t)
      PROVE  LocksMatchSections'
  BY <1>t, <1>1 DEF StartAdd, LockCounter, AssignSeq, BumpCounter, CheckFile, Goto
<1>2. ASSUME NEW t \in Threads, LockFile(t) \/ WriteComma(t) \/ DumpHead(t)
      PROVE  LocksMatchSections'
  BY <1>t, <1>2 DEF LockFile, WriteComma, DumpHead, Goto
<1>3. ASSUME NEW t \in Threads, DumpTail(t)
      PROVE  LocksMatchSections'
  <2>1. CASE CanWrite
    BY <1>t, <1>3, <2>1 DEF DumpTail, Return, Goto
  <2>2. CASE ~CanWrite
    BY <1>t, <1>3, <2>2 DEF DumpTail, Goto
  <2> QED BY <2>1, <2>2
<1>4. ASSUME NEW t \in Threads, DumpError(t) \/ WriteRaises(t)
      PROVE  LocksMatchSections'
  BY <1>t, <1>4 DEF DumpError, WriteRaises, Return, Raise, Goto
<1>5. ASSUME NEW t \in Threads, CheckList(t) \/ CreateList(t) \/ AppendRecord(t)
      PROVE  LocksMatchSections'
  BY <1>t, <1>5 DEF CheckList, CreateList, AppendRecord, Return, Goto
<1>6. CASE WriteStep \/ UNCHANGED vars
  BY <1>6 DEF WriteStep, WriteBracket, CloseFile, UnsetFile, OpenList, WriteListStep,
         GatherType, ListRaises, DumpList, EndList, vars
<1> QED BY <1>1, <1>2, <1>3, <1>4, <1>5, <1>6 DEF Next, AddStep

THEOREM LocksExclude == Spec => []LocksMatchSections
<1>1. Init => TypeOK /\ LocksMatchSections
  BY TypeInit, LocksInit
<1>2. TypeOK /\ LocksMatchSections /\ [Next]_vars => (TypeOK /\ LocksMatchSections)'
  BY TypeNext, LocksNext
<1> QED BY <1>1, <1>2, PTL DEF Spec

-----------------------------------------------------------------------------
(* Sequence numbers.  SeqIdentifiesRecord is not inductive: the record     *)
(* that was numbered and not yet counted holds the number the counter      *)
(* still has, and the lock is what makes it the only one.                  *)

Bumping(t) == pc[t] = "bump_counter"

Numbering ==
    /\ SeqIdentifiesRecord
    /\ \A r \in Numbered : r.seq \in 0 .. counter
    /\ \A r \in Numbered :
          r.seq = counter => \E t \in Threads : Bumping(t) /\ rec[t] = r
    /\ \A t \in Threads : Bumping(t) => rec[t].seq = counter

LEMMA NumberingInit == Init => Numbering
BY DEF Init, Numbering, SeqIdentifiesRecord, Numbered, Bumping

(* A step that numbers no record and does not touch the counter.           *)
LEMMA NumberingKept ==
    ASSUME Numbering, Numbered' = Numbered, counter' = counter,
           \A t \in Threads : Bumping(t)' <=> Bumping(t),
           \A t \in Threads : Bumping(t) => rec'[t] = rec[t]
    PROVE  Numbering'
BY DEF Numbering, SeqIdentifiesRecord

LEMMA NumberingNext ==
    TypeOK /\ LocksMatchSections /\ Numbering /\ [Next]_vars => Numbering'
<1> SUFFICES ASSUME TypeOK, LocksMatchSections, Numbering, [Next]_vars
             PROVE  Numbering'
  OBVIOUS
<1> USE DEF addVars, counterVars, streamVars, memoryVars, writeVars, listVars
<1>t. /\ pc \in [Threads -> Labels] /\ rec \in [Threads -> Record]
      /\ counter \in Nat
  BY DEF TypeOK
<1>1. ASSUME NEW t \in Threads, StartAdd(t)
      PROVE  Numbering'
  <2>1. /\ \A u \in Threads \ {t} : pc'[u] = pc[u] /\ rec'[u] = rec[u]
        /\ pc[t] = "idle" /\ pc'[t] = "lock_counter"
        /\ UNCHANGED <<returned, raised, counter>>
    BY <1>1, <1>t DEF StartAdd, Goto
  <2>2. Numbered' = Numbered
    BY <2>1 DEF Numbered
  <2> QED BY <2>1, <2>2, NumberingKept DEF Bumping
<1>2. ASSUME NEW t \in Threads, LockCounter(t) \/ CheckFile(t) \/ LockFile(t)
                                  \/ WriteComma(t) \/ DumpHead(t)
                                  \/ CheckList(t) \/ CreateList(t)
      PROVE  Numbering'
  <2>1. /\ \A u \in Threads \ {t} : pc'[u] = pc[u]
        /\ \/ pc[t] = "lock_counter" /\ pc'[t] = "assign_seq"
           \/ /\ pc[t] \notin {"idle", "lock_counter", "assign_seq", "bump_counter"}
              /\ pc'[t] \notin {"idle", "lock_counter", "assign_seq", "bump_counter"}
        /\ UNCHANGED <<rec, returned, raised, counter>>
    BY <1>2, <1>t DEF LockCounter, CheckFile, LockFile, WriteComma, DumpHead,
                      CheckList, CreateList, Goto
  <2>2. Numbered' = Numbered
    BY <2>1 DEF Numbered
  <2> QED BY <2>1, <2>2, NumberingKept DEF Bumping
<1>3. ASSUME NEW t \in Threads, AssignSeq(t)
      PROVE  Numbering'
  <2>1. /\ \A u \in Threads \ {t} : pc'[u] = pc[u] /\ rec'[u] = rec[u]
        /\ pc[t] = "assign_seq" /\ pc'[t] = "bump_counter"
        /\ UNCHANGED <<returned, raised, counter>>
    BY <1>3, <1>t DEF AssignSeq, Goto
  <2>2. rec'[t].seq = counter
    BY <1>3, <1>t DEF AssignSeq, Record
  <2>3. Numbered' = Numbered \cup {rec'[t]}
    BY <2>1 DEF Numbered
  <2>4. \A u \in Threads : ~Bumping(u)
    <3>1. counterLock = t
      BY <2>1 DEF LocksMatchSections
    <3> QED BY <3>1, <2>1 DEF LocksMatchSections, Bumping
  <2>5. \A r \in Numbered : r.seq # counter /\ r.seq \in 0 .. counter
    BY <2>4 DEF Numbering
  <2>6. SeqIdentifiesRecord'
    BY <2>1, <2>2, <2>3, <2>5 DEF Numbering, SeqIdentifiesRecord
  <2>7. Bumping(t)' /\ \A u \in Threads : Bumping(u)' => u = t
    BY <2>1, <2>4 DEF Bumping
  <2> QED BY <1>t, <2>1, <2>2, <2>3, <2>5, <2>6, <2>7 DEF Numbering
<1>4. ASSUME NEW t \in Threads, BumpCounter(t)
      PROVE  Numbering'
  <2>1. /\ \A u \in Threads \ {t} : pc'[u] = pc[u]
        /\ pc[t] = "bump_counter" /\ pc'[t] = "check_file"
        /\ counter' = counter + 1
        /\ UNCHANGED <<rec, returned, raised>>
    BY <1>4, <1>t DEF BumpCounter, Goto
  <2>2. Numbered' = Numbered /\ rec[t] \in Numbered
    BY <2>1 DEF Numbered
  <2>3. rec[t].seq = counter
    BY <2>1 DEF Numbering, Bumping
  <2>4. \A u \in Threads : ~Bumping(u)'
    <3>1. counterLock = t
      BY <2>1 DEF LocksMatchSections
    <3> QED BY <3>1, <2>1 DEF LocksMatchSections, Bumping
  <2>5. \A r \in Numbered : r.seq \in 0 .. counter' /\ r.seq # counter'
    BY <1>t, <2>1 DEF Numbering
  <2>6. SeqIdentifiesRecord'
    <3>1. ASSUME NEW n \in 0 .. counter' - 1
          PROVE  \E r \in Numbered : r.seq = n
      <4>1. CASE n = counter
        BY <4>1, <2>2, <2>3
      <4>2. CASE n # counter
        BY <4>2, <1>t, <2>1 DEF Numbering, SeqIdentifiesRecord
      <4> QED BY <4>1, <4>2
    <3> QED BY <2>2, <3>1 DEF Numbering, SeqIdentifiesRecord
  <2> QED BY <2>2, <2>4, <2>5, <2>6 DEF Numbering
<1>5. ASSUME NEW t \in Threads, DumpTail(t) \/ DumpError(t) \/ WriteRaises(t)
                                  \/ AppendRecord(t)
      PROVE  Numbering'
  <2>1. /\ \A u \in Threads \ {t} : pc'[u] = pc[u]
        /\ pc[t] \notin {"idle", "lock_counter", "assign_seq", "bump_counter"}
        /\ pc'[t] \in {"idle", "dump_error"}
        /\ UNCHANGED <<rec, counter>>
        /\ pc'[t] = "idle" =>
              returned' \cup raised' = returned \cup raised \cup {rec[t]}
        /\ pc'[t] # "idle" => UNCHANGED <<returned, raised>>
    BY <1>5, <1>t DEF DumpTail, DumpError, WriteRaises, AppendRecord,
                      Return, Raise, Goto
  <2>2. Numbered' = Numbered
    BY <2>1 DEF Numbered
  <2> QED BY <2>1, <2>2, NumberingKept DEF Bumping
<1>6. CASE WriteStep \/ UNCHANGED vars
  <2>1. UNCHANGED <<pc, rec, returned, raised, counter>>
    BY <1>6 DEF WriteStep, WriteBracket, CloseFile, UnsetFile, OpenList, WriteListStep,
         GatherType, ListRaises, DumpList, EndList, vars
  <2>2. Numbered' = Numbered
    BY <2>1 DEF Numbered
  <2> QED BY <2>1, <2>2, NumberingKept DEF Bumping
<1> QED BY <1>1, <1>2, <1>3, <1>4, <1>5, <1>6 DEF Next, AddStep

(* Whatever the threads do, no two records get one sequence number and no  *)
(* number is skipped.                                                      *)
THEOREM SeqsIdentifyRecords == Spec => []SeqIdentifiesRecord
<1> DEFINE IInv == TypeOK /\ LocksMatchSections /\ Numbering
<1>1. Init => IInv
  BY TypeInit, LocksInit, NumberingInit
<1>2. IInv /\ [Next]_vars => IInv'
  BY TypeNext, LocksNext, NumberingNext
<1>3. IInv => SeqIdentifiesRecord
  BY DEF Numbering
<1> QED BY <1>1, <1>2, <1>3, PTL DEF Spec

-----------------------------------------------------------------------------
(* The streamed file.  JsonPrefix is preserved because the last token of   *)
(* the file tells which thread may write, and what.                        *)

LastToken == file[Len(file)]

\* Who is in the file section decides how the file ends.
StreamTail ==
    /\ \A t \in Threads : pc[t] # "dump_error"
    /\ \A t \in Threads : pc[t] = "dump" => LastToken.kind \in {"open", "comma"}
    /\ \A t \in Threads : pc[t] = "dump_tail" => LastToken = RecordHead(rec[t])
    /\ (\A t \in Threads : pc[t] \notin {"dump", "dump_tail"}) =>
          IF recordAdded THEN LastToken.kind = "tail" ELSE LastToken = Open

StreamHypotheses ==
    streaming /\ joins /\ writes <= 1 /\ AllSerializable

StreamBody ==
    /\ JsonPrefix(file) /\ wpc # "gather"
    /\ writes = 0 => wpc = "idle" /\ recordingFile = "open" /\ StreamTail
    /\ writes = 1 =>
          /\ LastToken = Close
          /\ wpc # "idle" => \A t \in Threads : pc[t] = "idle"
          /\ wpc = "idle" => recordingFile = "none"
          /\ \A t \in Threads : pc[t] \notin InFileSection \cup {"lock_file"}

StreamState == StreamHypotheses => StreamBody

(* A token that may follow the last one extends a JSON prefix.             *)
LEMMA JsonAppend ==
    ASSUME NEW f \in Seq(Token), JsonPrefix(f),
           NEW x \in Token, MayFollow(f[Len(f)], x)
    PROVE  JsonPrefix(Append(f, x)) /\ Append(f, x)[Len(Append(f, x))] = x
<1> DEFINE g == Append(f, x)
<1>1. Len(f) \in Nat /\ Len(f) # 0
  BY DEF JsonPrefix
<1>2. Len(g) = Len(f) + 1 /\ g[Len(g)] = x /\ \A i \in 1 .. Len(f) : g[i] = f[i]
  BY <1>1
<1>3. ASSUME NEW i \in 1 .. Len(g) - 1
      PROVE  MayFollow(g[i], g[i + 1])
  <2>1. CASE i = Len(f)
    BY <2>1, <1>1, <1>2
  <2>2. CASE i # Len(f)
    <3>1. i \in 1 .. Len(f) - 1 /\ i + 1 \in 1 .. Len(f)
      BY <2>2, <1>1, <1>2
    <3> QED BY <3>1, <1>2 DEF JsonPrefix
  <2> QED BY <2>1, <2>2
<1>4. g # <<>> /\ g[1] = Open
  BY <1>1, <1>2 DEF JsonPrefix
<1> QED BY <1>2, <1>3, <1>4 DEF JsonPrefix

LEMMA StreamInit == Init => StreamState
<1> SUFFICES ASSUME Init, streaming PROVE StreamBody
  BY DEF StreamState, StreamHypotheses
<1>1. file = <<Open>> /\ recordingFile = "open"
  BY DEF Init
<1>2. JsonPrefix(file) /\ LastToken = Open
  BY <1>1 DEF JsonPrefix, LastToken
<1> QED BY <1>1, <1>2 DEF Init, StreamBody, StreamTail

(* A call that has begun stays one: its record keeps all but its number.   *)
LEMMA BegunStays ==
    ASSUME TypeOK, [Next]_vars, NEW r \in Begun
    PROVE  \E q \in Begun' : q.fate = r.fate /\ q.type = r.type /\ q.by = r.by
<1> USE DEF addVars, counterVars, streamVars, memoryVars, writeVars, listVars
<1>t. pc \in [Threads -> Labels] /\ rec \in [Threads -> Record]
  BY DEF TypeOK
<1>1. CASE \E t \in Threads : AssignSeq(t)
  <2>1. PICK t \in Threads : AssignSeq(t)
    BY <1>1
  <2>2. /\ pc' = [pc EXCEPT ![t] = "bump_counter"]
        /\ UNCHANGED <<returned, raised>>
        /\ rec' = [rec EXCEPT ![t] = [rec[t] EXCEPT !.seq = counter]]
    BY <2>1 DEF AssignSeq, Goto
  <2>3. /\ rec'[t].fate = rec[t].fate /\ rec'[t].type = rec[t].type /\ rec'[t].by = rec[t].by
        /\ rec'[t] \in Begun'
    BY <2>2, <1>t DEF Record, Begun
  <2>4. CASE r = rec[t]
    BY <2>3, <2>4
  <2>5. CASE r # rec[t]
    <3>1. r \in Begun'
      BY <2>2, <2>5, <1>t DEF Begun
    <3> QED BY <3>1
  <2> QED BY <2>4, <2>5
<1>2. CASE ~ \E t \in Threads : AssignSeq(t)
  <2>1. ASSUME NEW t \in Threads, StartAdd(t) PROVE r \in Begun'
    <3>1. /\ pc[t] = "idle" /\ UNCHANGED <<returned, raised>>
          /\ \A u \in Threads \ {t} : pc'[u] = pc[u] /\ rec'[u] = rec[u]
      BY <2>1, <1>t DEF StartAdd, Goto
    <3> QED BY <3>1 DEF Begun
  <2>2. ASSUME NEW t \in Threads,
               \/ LockCounter(t) \/ BumpCounter(t) \/ CheckFile(t) \/ LockFile(t)
               \/ WriteComma(t) \/ DumpHead(t) \/ CheckList(t) \/ CreateList(t)
        PROVE  r \in Begun'
    <3>1. /\ pc'[t] # "idle" /\ UNCHANGED <<rec, returned, raised>>
          /\ \A u \in Threads \ {t} : pc'[u] = pc[u]
      BY <2>2, <1>t DEF LockCounter, BumpCounter, CheckFile, LockFile,
                        WriteComma, DumpHead, CheckList, CreateList, Goto
    <3> QED BY <3>1 DEF Begun
  <2>3. ASSUME NEW t \in Threads,
               DumpTail(t) \/ DumpError(t) \/ WriteRaises(t) \/ AppendRecord(t)
        PROVE  r \in Begun'
    <3>1. /\ UNCHANGED rec
          /\ \A u \in Threads \ {t} : pc'[u] = pc[u]
          /\ returned \cup raised \subseteq returned' \cup raised'
          /\ pc'[t] # "idle" \/ rec[t] \in returned' \cup raised'
      BY <2>3, <1>t DEF DumpTail, DumpError, WriteRaises, AppendRecord,
                        Return, Raise, Goto
    <3> QED BY <3>1 DEF Begun
  <2>4. ASSUME WriteStep \/ UNCHANGED vars PROVE r \in Begun'
    <3>1. UNCHANGED <<pc, rec, returned, raised>>
      BY <2>4 DEF WriteStep, WriteBracket, CloseFile, UnsetFile, OpenList, WriteListStep,
         GatherType, ListRaises, DumpList, EndList, vars
    <3> QED BY <3>1 DEF Begun
  <2>5. \/ WriteStep \/ UNCHANGED vars
        \/ \E t \in Threads :
              \/ StartAdd(t)
              \/ LockCounter(t) \/ BumpCounter(t) \/ CheckFile(t) \/ LockFile(t)
              \/ WriteComma(t) \/ DumpHead(t) \/ CheckList(t) \/ CreateList(t)
              \/ DumpTail(t) \/ DumpError(t) \/ WriteRaises(t) \/ AppendRecord(t)
    BY <1>2 DEF Next, AddStep
  <2>6. r \in Begun'
    BY <2>1, <2>2, <2>3, <2>4, <2>5
  <2> QED BY <2>6
<1> QED BY <1>1, <1>2

(* write is counted, and nothing changes how the recorder was made.        *)
LEMMA WritesAreCounted ==
    ASSUME TypeOK, [Next]_vars
    PROVE  /\ (streaming' <=> streaming) /\ (joins' <=> joins)
           /\ writes \in Nat /\ (writes' = writes \/ writes' = writes + 1)
<1> USE DEF addVars, counterVars, streamVars, memoryVars, writeVars, listVars
<1>1. writes' = writes \/ writes' = writes + 1
  BY DEF Next, StartAdd, AddStep, LockCounter, AssignSeq, BumpCounter, CheckFile,
         LockFile, WriteComma, DumpHead, DumpTail, DumpError, WriteRaises,
         CheckList, CreateList, AppendRecord,
         WriteStep, WriteBracket, CloseFile, UnsetFile, OpenList, WriteListStep,
         GatherType, ListRaises, DumpList, EndList, vars
<1>2. streaming' = streaming /\ joins' = joins
  BY DEF Next, vars, setupVars
<1> QED BY <1>1, <1>2 DEF TypeOK

(* A step never makes the hypotheses true again: records keep their fate   *)
(* and writes are counted.                                                 *)
LEMMA HypothesesKept ==
    TypeOK /\ [Next]_vars /\ StreamHypotheses' => StreamHypotheses
<1> SUFFICES ASSUME TypeOK, [Next]_vars, StreamHypotheses' PROVE StreamHypotheses
  OBVIOUS
<1>1. AllSerializable
  <2> SUFFICES ASSUME NEW r \in Begun PROVE r.fate = "ok"
    BY DEF AllSerializable
  <2>1. PICK q \in Begun' : q.fate = r.fate
    BY BegunStays
  <2> QED BY <2>1 DEF StreamHypotheses, AllSerializable
<1> QED BY <1>1, WritesAreCounted DEF StreamHypotheses

LEMMA StreamNext ==
    TypeOK /\ LocksMatchSections /\ StreamState /\ [Next]_vars => StreamState'
<1> SUFFICES ASSUME TypeOK, LocksMatchSections, StreamState, [Next]_vars,
                    StreamHypotheses'
             PROVE  StreamBody'
  BY DEF StreamState
<1>a. StreamHypotheses
  BY HypothesesKept
<1>b. StreamBody
  BY <1>a DEF StreamState
<1>t. /\ pc \in [Threads -> Labels] /\ rec \in [Threads -> Record]
      /\ file \in Seq(Token) /\ writes \in {0, 1} /\ recordAdded \in BOOLEAN
  BY <1>a DEF TypeOK, StreamHypotheses
<1>f. \A t \in Threads : pc[t] # "idle" => rec[t].fate = "ok"
  BY <1>a DEF StreamHypotheses, AllSerializable, Begun
<1>j. JsonPrefix(file)
  BY <1>b DEF StreamBody
<1> USE DEF addVars, counterVars, streamVars, memoryVars, writeVars, listVars
\* Steps outside the file section leave the file alone.
<1>1. ASSUME NEW t \in Threads,
             \/ StartAdd(t) \/ LockCounter(t) \/ AssignSeq(t) \/ BumpCounter(t)
             \/ CheckFile(t) \/ CheckList(t) \/ CreateList(t) \/ AppendRecord(t)
      PROVE  StreamBody'
  <2>1. /\ \A u \in Threads \ {t} : pc'[u] = pc[u] /\ rec'[u] = rec[u]
        /\ pc[t] \notin InFileSection /\ pc'[t] \notin InFileSection
        /\ pc[t] = "idle" => wpc = "idle"
        /\ pc'[t] = "lock_file" => recordingFile # "none" /\ pc[t] = "check_file"
        /\ UNCHANGED <<streamVars, writeVars>>
    BY <1>1, <1>t, <1>a DEF StartAdd, LockCounter, AssignSeq, BumpCounter, CheckFile,
         CheckList, CreateList, AppendRecord, Return, Goto, InFileSection,
         StreamHypotheses
  <2>2. writes = 1 => pc'[t] # "lock_file"
    BY <2>1, <1>b DEF StreamBody
  <2>3. JsonPrefix(file)' /\ LastToken' = LastToken
    BY <2>1, <1>j DEF LastToken
  <2>4. writes = 0 => StreamTail'
    BY <2>1, <2>3, <1>b DEF StreamBody, StreamTail, InFileSection
  <2>5. writes = 1 => /\ wpc' # "idle" => \A u \in Threads : pc'[u] = "idle"
                      /\ \A u \in Threads : pc'[u] \notin InFileSection \cup {"lock_file"}
    BY <1>1, <2>1, <2>2, <1>b, <1>t
       DEF StreamBody, LockCounter, AssignSeq, BumpCounter, CheckFile,
           CheckList, CreateList, AppendRecord
  <2> QED BY <2>1, <2>3, <2>4, <2>5, <1>b DEF StreamBody
\* In the file section, the first write() has not begun.
<1>2. ASSUME NEW t \in Threads, pc[t] \in InFileSection \cup {"lock_file"}
      PROVE  /\ writes = 0 /\ wpc = "idle" /\ recordingFile = "open" /\ StreamTail
             /\ rec[t].fate = "ok" /\ CanWrite
  <2>1. pc[t] # "idle"
    BY <1>2 DEF InFileSection
  <2> QED BY <1>2, <2>1, <1>b, <1>t, <1>f DEF StreamBody, CanWrite
<1>3. ASSUME NEW t \in Threads, LockFile(t)
      PROVE  StreamBody'
  <2>1. /\ \A u \in Threads \ {t} : pc'[u] = pc[u]
        /\ pc[t] = "lock_file" /\ pc'[t] = "comma"
        /\ UNCHANGED <<rec, recordAdded, file, writeVars>>
    BY <1>3, <1>t DEF LockFile, Goto
  <2>2. writes = 0 /\ wpc = "idle" /\ recordingFile = "open" /\ StreamTail
    BY <1>2, <2>1
  <2> QED BY <2>1, <2>2, <1>j DEF StreamBody, StreamTail, LastToken
<1>4. ASSUME NEW t \in Threads, WriteComma(t)
      PROVE  StreamBody'
  <2>1. /\ \A u \in Threads \ {t} : pc'[u] = pc[u]
        /\ pc[t] = "comma" /\ pc'[t] = "dump"
        /\ UNCHANGED <<rec, recordAdded, writeVars>>
        /\ IF recordAdded THEN file' = Append(file, Comma) ELSE file' = file
    BY <1>4, <1>t DEF WriteComma, Goto, Append1
  <2>2. writes = 0 /\ wpc = "idle" /\ recordingFile = "open" /\ StreamTail
    BY <1>2, <2>1 DEF InFileSection
  <2>3. \A u \in Threads \ {t} : pc[u] \notin InFileSection
    BY <2>1 DEF LocksMatchSections, InFileSection
  <2>4. IF recordAdded THEN LastToken.kind = "tail" ELSE LastToken = Open
    BY <2>1, <2>2, <2>3 DEF StreamTail, InFileSection
  <2>5. JsonPrefix(file') /\ file'[Len(file')].kind \in {"open", "comma"}
    <3>1. CASE recordAdded
      <4>1. MayFollow(file[Len(file)], Comma)
        BY <3>1, <2>4 DEF LastToken, MayFollow, Comma
      <4>2. JsonPrefix(Append(file, Comma))
            /\ Append(file, Comma)[Len(Append(file, Comma))] = Comma
        BY <4>1, <1>t, <1>j, JsonAppend, TokenTypes
      <4>3. Comma.kind = "comma"
        BY DEF Comma
      <4> QED BY <4>2, <4>3, <3>1, <2>1
    <3>2. CASE ~recordAdded
      BY <3>2, <2>1, <2>4, <1>j DEF LastToken, Open
    <3> QED BY <3>1, <3>2
  <2>6. StreamTail'
    BY <2>1, <2>3, <2>5 DEF StreamTail, LastToken, InFileSection
  <2> QED BY <2>1, <2>2, <2>5, <2>6 DEF StreamBody
<1>5. ASSUME NEW t \in Threads, DumpHead(t)
      PROVE  StreamBody'
  <2>1. pc[t] = "dump"
    BY <1>5 DEF DumpHead
  <2>2. /\ writes = 0 /\ wpc = "idle" /\ recordingFile = "open" /\ StreamTail
        /\ rec[t].fate = "ok" /\ CanWrite
    BY <1>2, <2>1 DEF InFileSection
  <2>3. /\ \A u \in Threads \ {t} : pc'[u] = pc[u]
        /\ pc'[t] = "dump_tail"
        /\ UNCHANGED <<rec, recordAdded, writeVars>>
        /\ file' = Append(file, RecordHead(rec[t]))
    BY <1>5, <2>2, <1>t DEF DumpHead, Goto, Append1
  <2>4. \A u \in Threads \ {t} : pc[u] \notin InFileSection
    BY <2>1 DEF LocksMatchSections, InFileSection
  <2>5. MayFollow(file[Len(file)], RecordHead(rec[t]))
    BY <2>1, <2>2 DEF StreamTail, LastToken, MayFollow, RecordHead
  <2>6. JsonPrefix(file') /\ file'[Len(file')] = RecordHead(rec[t])
    BY <2>3, <2>5, <1>t, <1>j, JsonAppend, TokenTypes
  <2>7. StreamTail'
    BY <2>3, <2>4, <2>6 DEF StreamTail, LastToken, InFileSection
  <2> QED BY <2>2, <2>3, <2>6, <2>7 DEF StreamBody
<1>6. ASSUME NEW t \in Threads, DumpTail(t)
      PROVE  StreamBody'
  <2>1. pc[t] = "dump_tail"
    BY <1>6 DEF DumpTail
  <2>2. /\ writes = 0 /\ wpc = "idle" /\ recordingFile = "open" /\ StreamTail
        /\ CanWrite
    BY <1>2, <2>1 DEF InFileSection
  <2>3. /\ \A u \in Threads \ {t} : pc'[u] = pc[u]
        /\ pc'[t] = "idle" /\ recordAdded' = TRUE
        /\ UNCHANGED <<rec, writeVars>>
        /\ file' = Append(file, RecordTail(rec[t]))
    BY <1>6, <2>2, <1>t DEF DumpTail, Return, Goto, Append1
  <2>4. \A u \in Threads \ {t} : pc[u] \notin InFileSection
    BY <2>1 DEF LocksMatchSections, InFileSection
  <2>5. MayFollow(file[Len(file)], RecordTail(rec[t]))
    <3>1. file[Len(file)] = RecordHead(rec[t])
      BY <2>1, <2>2 DEF StreamTail, LastToken
    <3>2. MayFollow(RecordHead(rec[t]), RecordTail(rec[t]))
      BY DEF MayFollow, RecordHead, RecordTail
    <3> QED BY <3>1, <3>2
  <2>6. JsonPrefix(file') /\ file'[Len(file')] = RecordTail(rec[t])
    BY <2>3, <2>5, <1>t, <1>j, JsonAppend, TokenTypes
  <2>7. StreamTail'
    BY <2>3, <2>4, <2>6 DEF StreamTail, LastToken, InFileSection, RecordTail
  <2> QED BY <2>2, <2>3, <2>6, <2>7 DEF StreamBody
<1>7. ASSUME NEW t \in Threads, DumpError(t) \/ WriteRaises(t)
      PROVE  StreamBody'
  <2>1. CASE pc[t] = "dump_error"
    BY <2>1, <1>2 DEF InFileSection, StreamTail
  <2>2. CASE pc[t] = "comma" /\ ~CanWrite
    BY <2>2, <1>2 DEF InFileSection
  <2> QED BY <1>7, <2>1, <2>2 DEF DumpError, WriteRaises
<1>8. ASSUME WriteBracket
      PROVE  StreamBody'
  <2>1. /\ recordingFile = "open" /\ wpc = "idle" /\ ~AddRunning
        /\ file' = Append(file, Close) /\ wpc' = "close" /\ writes' = writes + 1
        /\ UNCHANGED <<pc, rec, recordAdded, recordingFile>>
    BY <1>8, <1>a DEF WriteBracket, MayWrite, StreamHypotheses
  <2>2. writes = 0 /\ StreamTail /\ \A t \in Threads : pc[t] = "idle"
    BY <2>1, <1>b, <1>t DEF StreamBody, AddRunning
  <2>3. MayFollow(file[Len(file)], Close)
    BY <2>2 DEF StreamTail, LastToken, MayFollow, Open, Close
  <2>4. JsonPrefix(file') /\ file'[Len(file')] = Close
    BY <2>1, <2>3, <1>t, <1>j, JsonAppend, TokenTypes
  <2> QED BY <2>1, <2>2, <2>4 DEF StreamBody, LastToken, InFileSection
<1>9. ASSUME CloseFile \/ UnsetFile
      PROVE  StreamBody'
  <2>1. /\ wpc # "idle" /\ UNCHANGED <<pc, file, writes>>
        /\ wpc' = "idle" => recordingFile' = "none"
        /\ wpc' # "gather"
    BY <1>9 DEF CloseFile, UnsetFile
  <2> QED BY <2>1, <1>b, <1>t DEF StreamBody, LastToken
<1>10. ASSUME OpenList
       PROVE  StreamBody'
  <2>1. recordingFile = "none" /\ writes' = writes + 1
    BY <1>10 DEF OpenList
  <2>2. writes' <= 1
    BY DEF StreamHypotheses
  <2> QED BY <2>1, <2>2, <1>b, <1>t DEF StreamBody
<1>11. CASE UNCHANGED vars
  BY <1>11, <1>b DEF vars, StreamBody, StreamTail, LastToken
<1>12. ~WriteListStep
  BY <1>b DEF StreamBody, WriteListStep, GatherType, ListRaises, DumpList
<1> QED
  BY <1>1, <1>3, <1>4, <1>5, <1>6, <1>7, <1>8, <1>9, <1>10, <1>11, <1>12
     DEF Next, AddStep, WriteStep

(* Records streamed by any number of threads form a JSON list, if each can *)
(* be serialized and the threads are joined before write().                *)
THEOREM StreamsAreJson == Spec => []StreamIsJson
<1> DEFINE IInv == TypeOK /\ LocksMatchSections /\ StreamState
<1>1. Init => IInv
  BY TypeInit, LocksInit, StreamInit
<1>2. IInv /\ [Next]_vars => IInv'
  BY TypeNext, LocksNext, StreamNext
<1>3. IInv => StreamIsJson
  BY DEF StreamState, StreamHypotheses, StreamBody, StreamIsJson, JsonList,
         LastToken, TypeOK
<1> QED BY <1>1, <1>2, <1>3, PTL DEF Spec

-----------------------------------------------------------------------------
(* The streamed file when records fail.  Nothing is assumed of the records: *)
(* whoever holds the lock knows whose head the file ends with, and so what  *)
(* is appended to a head is its tail or its error.                          *)

Isolated(f) ==
    \A i \in 1 .. Len(f) - 1 :
        f[i].kind = "head" => /\ f[i + 1].kind \in {"tail", "error"}
                              /\ f[i + 1].rec = f[i].rec

InListSection == {"check_list", "create_list", "append"}

HeadIsOwned ==
    /\ \A t \in Threads : pc[t] = "dump_tail" =>
          LastToken = RecordHead(rec[t]) /\ rec[t].fate = "ok"
    /\ \A t \in Threads : pc[t] = "dump_error" => rec[t].fate # "ok"
    /\ \A t \in Threads : pc[t] \notin InListSection
    /\ LastToken.kind = "head" =>
          \E t \in Threads : pc[t] \in {"dump_tail", "dump_error"} /\ LastToken.rec = rec[t]

FileHypotheses == streaming /\ joins /\ writes <= 1

FileBody ==
    /\ file # <<>> /\ Isolated(file) /\ wpc # "gather"
    /\ writes = 0 => wpc = "idle" /\ recordingFile = "open" /\ HeadIsOwned
    /\ writes = 1 =>
          /\ wpc # "idle" => \A t \in Threads : pc[t] = "idle"
          /\ wpc = "idle" => recordingFile = "none"
          /\ \A t \in Threads : pc[t] \notin InFileSection \cup {"lock_file"}
    /\ writes = 0 \/ wpc # "idle" => \A r \in returned : r.fate = "ok" => InFile(r)

FileState == FileHypotheses => FileBody

(* What may follow the last token keeps a file isolated.                   *)
LEMMA IsolatedAppend ==
    ASSUME NEW f \in Seq(Token), f # <<>>, Isolated(f), NEW x \in Token,
           f[Len(f)].kind = "head" => x.kind \in {"tail", "error"} /\ x.rec = f[Len(f)].rec
    PROVE  Isolated(Append(f, x)) /\ Append(f, x) # <<>> /\ Append(f, x)[Len(Append(f, x))] = x
<1> DEFINE g == Append(f, x)
<1>1. Len(f) \in Nat /\ Len(f) # 0
  OBVIOUS
<1>2. Len(g) = Len(f) + 1 /\ g[Len(g)] = x /\ \A i \in 1 .. Len(f) : g[i] = f[i]
  BY <1>1
<1>3. ASSUME NEW i \in 1 .. Len(g) - 1, g[i].kind = "head"
      PROVE  g[i + 1].kind \in {"tail", "error"} /\ g[i + 1].rec = g[i].rec
  <2>1. CASE i = Len(f)
    BY <1>1, <1>2, <1>3, <2>1
  <2>2. CASE i # Len(f)
    <3>1. i \in 1 .. Len(f) - 1 /\ i + 1 \in 1 .. Len(f)
      BY <2>2, <1>1, <1>2
    <3> QED BY <3>1, <1>2, <1>3 DEF Isolated
  <2> QED BY <2>1, <2>2
<1>4. g # <<>>
  BY <1>1, <1>2
<1> QED BY <1>2, <1>3, <1>4 DEF Isolated

(* A record that is in the file stays there while the file grows.          *)
LEMMA InFileGrows ==
    ASSUME file \in Seq(Token), NEW x \in Token, file' = Append(file, x), NEW r, InFile(r)
    PROVE  InFile(r)'
<1>1. PICK i \in 1 .. Len(file) - 1 : file[i] = RecordHead(r) /\ file[i + 1] = RecordTail(r)
  BY DEF InFile
<1>2. Len(file) \in Nat /\ Len(file') = Len(file) + 1
      /\ \A k \in 1 .. Len(file) : file'[k] = file[k]
  OBVIOUS
<1>3. i \in 1 .. Len(file) /\ i + 1 \in 1 .. Len(file) /\ i \in 1 .. Len(file') - 1
  BY <1>2
<1> QED BY <1>1, <1>2, <1>3 DEF InFile

(* A tail that follows its record's head puts the record into the file.    *)
LEMMA TailStores ==
    ASSUME file \in Seq(Token), file # <<>>, NEW r \in Record, LastToken = RecordHead(r),
           file' = Append(file, RecordTail(r))
    PROVE  InFile(r)'
<1>1. Len(file) \in Nat \ {0} /\ Len(file') = Len(file) + 1 /\ RecordTail(r) \in Token
  BY TokenTypes
<1>2. file'[Len(file)] = RecordHead(r) /\ file'[Len(file) + 1] = RecordTail(r)
  BY <1>1 DEF LastToken
<1>3. Len(file) \in 1 .. Len(file') - 1
  BY <1>1
<1> QED BY <1>2, <1>3 DEF InFile

LEMMA FileInit == Init => FileState
<1> SUFFICES ASSUME Init, streaming PROVE FileBody
  BY DEF FileState, FileHypotheses
<1>1. file = <<Open>> /\ recordingFile = "open"
  BY DEF Init
<1>2. Isolated(file) /\ file # <<>> /\ LastToken = Open
  BY <1>1 DEF Isolated, LastToken
<1> QED BY <1>1, <1>2 DEF Init, FileBody, HeadIsOwned, InListSection, InFileSection, Open

(* There was at most one call of write before the step, too.               *)
LEMMA FileHypothesesKept ==
    ASSUME TypeOK, [Next]_vars, FileHypotheses' PROVE FileHypotheses
BY WritesAreCounted DEF FileHypotheses

LEMMA FileNext ==
    ASSUME TypeOK, LocksMatchSections, FileState, [Next]_vars PROVE FileState'
<1> SUFFICES ASSUME FileHypotheses' PROVE FileBody'
  BY DEF FileState
<1>a. FileHypotheses /\ FileBody
  BY FileHypothesesKept DEF FileState
<1>t. /\ pc \in [Threads -> Labels] /\ rec \in [Threads -> Record]
      /\ file \in Seq(Token) /\ writes \in {0, 1} /\ recordAdded \in BOOLEAN
      /\ returned \subseteq Record
  BY <1>a DEF TypeOK, FileHypotheses
<1>b. /\ file # <<>> /\ Isolated(file)
      /\ writes = 0 => wpc = "idle" /\ recordingFile = "open" /\ HeadIsOwned
  BY <1>a DEF FileBody
<1> USE DEF addVars, counterVars, streamVars, memoryVars, writeVars, listVars
\* In the file section, the first write() has not begun.
<1>f. ASSUME NEW t \in Threads, pc[t] \in InFileSection \cup {"lock_file"}
      PROVE  writes = 0 /\ wpc = "idle" /\ recordingFile = "open" /\ HeadIsOwned /\ CanWrite
  <2>1. writes = 0
    BY <1>a, <1>f, <1>t DEF FileBody
  <2> QED BY <1>b, <2>1 DEF CanWrite
<1>o. ASSUME NEW t \in Threads, pc[t] \in InFileSection
      PROVE  \A u \in Threads \ {t} : pc[u] \notin InFileSection
  BY <1>o DEF LocksMatchSections, InFileSection
\* A thread that appends to the file, with what it leaves.
<1>w. ASSUME NEW t \in Threads, pc[t] \in InFileSection, NEW x \in Token,
             file' = Append(file, x), UNCHANGED <<rec, writeVars>>,
             \A u \in Threads \ {t} : pc'[u] = pc[u], pc'[t] \notin InListSection,
             LastToken.kind = "head" => x.kind \in {"tail", "error"} /\ x.rec = LastToken.rec,
             pc'[t] = "dump_tail" => x = RecordHead(rec[t]) /\ rec[t].fate = "ok",
             pc'[t] = "dump_error" => rec[t].fate # "ok",
             x.kind = "head" => pc'[t] \in {"dump_tail", "dump_error"} /\ x.rec = rec[t],
             \A r \in returned' : r.fate = "ok" => r \in returned \/ InFile(r)'
      PROVE  FileBody'
  <2>1. writes = 0 /\ wpc = "idle" /\ recordingFile = "open" /\ HeadIsOwned
    BY <1>f, <1>w
  <2>2. Isolated(file') /\ file' # <<>> /\ LastToken' = x
    <3>1. file[Len(file)].kind = "head" => x.kind \in {"tail", "error"} /\ x.rec = file[Len(file)].rec
      BY <1>w DEF LastToken
    <3> QED BY <1>b, <1>t, <1>w, <3>1, IsolatedAppend DEF LastToken
  <2>3. \A u \in Threads \ {t} : pc'[u] \notin InFileSection
    BY <1>o, <1>w
  <2>4. \A u \in Threads : pc'[u] \notin InListSection
    BY <1>w, <2>1 DEF HeadIsOwned
  <2>5. HeadIsOwned'
    BY <1>w, <2>2, <2>3, <2>4 DEF HeadIsOwned, InFileSection
  <2>6. ASSUME NEW r \in returned', r.fate = "ok" PROVE InFile(r)'
    <3>1. CASE r \in returned
      <4>1. InFile(r)
        BY <1>a, <2>1, <2>6, <3>1 DEF FileBody
      <4> QED BY <1>t, <1>w, <4>1, InFileGrows
    <3> QED BY <1>w, <2>6, <3>1
  <2>7. writes' = 0 /\ wpc' = "idle" /\ recordingFile' = "open"
    BY <1>w, <2>1
  <2> QED BY <2>2, <2>5, <2>6, <2>7 DEF FileBody
\* Steps outside the file section leave the file alone.
<1>1. ASSUME NEW t \in Threads,
             \/ StartAdd(t) \/ LockCounter(t) \/ AssignSeq(t) \/ BumpCounter(t)
             \/ CheckFile(t) \/ CheckList(t) \/ CreateList(t) \/ AppendRecord(t)
      PROVE  FileBody'
  <2>1. /\ \A u \in Threads \ {t} : pc'[u] = pc[u] /\ rec'[u] = rec[u]
        /\ pc[t] \notin InFileSection /\ pc'[t] \notin InFileSection
        /\ pc[t] = "idle" => wpc = "idle"
        /\ pc'[t] = "lock_file" => recordingFile # "none" /\ pc[t] = "check_file"
        /\ pc'[t] \in InListSection => pc[t] \in InListSection \/ recordingFile = "none"
        /\ returned' = returned \/ pc[t] = "append"
        /\ UNCHANGED <<streamVars, writeVars>>
    BY <1>1, <1>t, <1>a DEF StartAdd, LockCounter, AssignSeq, BumpCounter, CheckFile,
         CheckList, CreateList, AppendRecord, Return, Goto, InFileSection, InListSection,
         FileHypotheses
  <2>2. Isolated(file') /\ file' # <<>> /\ LastToken' = LastToken
        /\ \A r : InFile(r)' <=> InFile(r)
    BY <2>1, <1>b DEF LastToken, InFile
  <2>3. CASE writes = 0
    <3>1. wpc = "idle" /\ recordingFile = "open" /\ HeadIsOwned
      BY <1>b, <2>3
    <3>2. pc'[t] \notin InListSection /\ returned' = returned
      BY <2>1, <3>1 DEF HeadIsOwned, InListSection
    <3>3. HeadIsOwned'
      BY <2>1, <2>2, <3>1, <3>2 DEF HeadIsOwned, InFileSection
    <3>4. \A r \in returned' : r.fate = "ok" => InFile(r)'
      BY <1>a, <2>2, <2>3, <3>2 DEF FileBody
    <3> QED BY <2>1, <2>2, <2>3, <3>1, <3>3, <3>4 DEF FileBody
  <2>4. CASE writes = 1
    <3>1. /\ wpc = "idle" => recordingFile = "none"
          /\ wpc # "idle" => \A u \in Threads : pc[u] = "idle"
          /\ \A u \in Threads : pc[u] \notin InFileSection \cup {"lock_file"}
      BY <1>a, <2>4 DEF FileBody
    <3>2. wpc = "idle"
      BY <2>1, <3>1
    <3>3. pc'[t] # "lock_file"
      BY <2>1, <3>1, <3>2
    <3>4. \A u \in Threads : pc'[u] \notin InFileSection \cup {"lock_file"}
      BY <2>1, <3>1, <3>3
    <3> QED BY <2>1, <2>2, <2>4, <3>1, <3>2, <3>4 DEF FileBody
  <2> QED BY <1>t, <2>3, <2>4
<1>3. ASSUME NEW t \in Threads, LockFile(t)
      PROVE  FileBody'
  <2>1. /\ \A u \in Threads \ {t} : pc'[u] = pc[u]
        /\ pc[t] = "lock_file" /\ pc'[t] = "comma"
        /\ UNCHANGED <<rec, returned, file, writeVars>>
    BY <1>3, <1>t DEF LockFile, Goto
  <2>2. writes = 0 /\ wpc = "idle" /\ recordingFile = "open" /\ HeadIsOwned
    BY <1>f, <2>1
  <2>3. HeadIsOwned' /\ \A r : InFile(r)' <=> InFile(r)
    BY <2>1, <2>2 DEF HeadIsOwned, LastToken, InFile, InListSection
  <2> QED BY <1>a, <2>1, <2>2, <2>3 DEF FileBody, Isolated
<1>h. ASSUME NEW t \in Threads, pc[t] \in {"comma", "dump"} PROVE LastToken.kind # "head"
  <2>1. pc[t] \in InFileSection
    BY <1>h DEF InFileSection
  <2>2. HeadIsOwned
    BY <1>f, <2>1
  <2> QED BY <1>h, <1>o, <2>1, <2>2 DEF HeadIsOwned, InFileSection
<1>4. ASSUME NEW t \in Threads, WriteComma(t)
      PROVE  FileBody'
  <2>1. /\ \A u \in Threads \ {t} : pc'[u] = pc[u]
        /\ pc[t] = "comma" /\ pc'[t] = "dump"
        /\ UNCHANGED <<rec, returned, writeVars>>
        /\ IF recordAdded THEN file' = Append(file, Comma) ELSE file' = file
    BY <1>4, <1>t DEF WriteComma, Goto, Append1
  <2>2. LastToken.kind # "head" /\ pc[t] \in InFileSection
    BY <1>h, <2>1 DEF InFileSection
  <2>3. CASE recordAdded
    <3>1. Comma \in Token /\ Comma.kind # "head"
      BY TokenTypes DEF Comma
    <3> QED BY <1>w, <2>1, <2>2, <2>3, <3>1 DEF InListSection
  <2>4. CASE ~recordAdded
    <3>1. writes = 0 /\ wpc = "idle" /\ recordingFile = "open" /\ HeadIsOwned
      BY <1>f, <2>2
    <3>2. file' = file
      BY <2>1, <2>4
    <3>3. HeadIsOwned' /\ \A r : InFile(r)' <=> InFile(r)
      BY <2>1, <2>2, <3>1, <3>2 DEF HeadIsOwned, LastToken, InFile, InListSection
    <3> QED BY <1>a, <2>1, <3>1, <3>2, <3>3 DEF FileBody, Isolated
  <2> QED BY <1>t, <2>3, <2>4
<1>5. ASSUME NEW t \in Threads, DumpHead(t)
      PROVE  FileBody'
  <2>1. pc[t] = "dump" /\ pc[t] \in InFileSection /\ LastToken.kind # "head"
    BY <1>5, <1>h DEF DumpHead, InFileSection
  <2>2. writes = 0 /\ wpc = "idle" /\ recordingFile = "open" /\ HeadIsOwned /\ CanWrite
    BY <1>f, <2>1
  <2>3. CASE rec[t].fate = "to_dict"
    <3>1. /\ \A u \in Threads \ {t} : pc'[u] = pc[u]
          /\ pc'[t] = "dump_error" /\ UNCHANGED <<rec, returned, file, writeVars>>
      BY <1>5, <1>t, <2>3 DEF DumpHead, Goto
    <3>2. HeadIsOwned' /\ \A r : InFile(r)' <=> InFile(r)
      BY <2>1, <2>2, <2>3, <3>1 DEF HeadIsOwned, LastToken, InFile, InListSection
    <3> QED BY <1>a, <2>2, <3>1, <3>2 DEF FileBody, Isolated
  <2>4. CASE rec[t].fate # "to_dict"
    <3>1. /\ \A u \in Threads \ {t} : pc'[u] = pc[u]
          /\ pc'[t] = (IF rec[t].fate = "encode" THEN "dump_error" ELSE "dump_tail")
          /\ UNCHANGED <<rec, returned, writeVars>>
          /\ file' = Append(file, RecordHead(rec[t]))
      BY <1>5, <1>t, <2>2, <2>4 DEF DumpHead, Goto, Append1
    <3>2. rec[t] \in Record /\ rec[t].fate \in AllFates
      BY <1>t DEF Record
    <3>3. RecordHead(rec[t]) \in Token /\ RecordHead(rec[t]).rec = rec[t]
      BY <3>2, TokenTypes DEF RecordHead
    <3>4. pc'[t] \in {"dump_error", "dump_tail"} /\ pc'[t] \notin InListSection
          /\ (pc'[t] = "dump_tail" => rec[t].fate = "ok")
          /\ (pc'[t] = "dump_error" => rec[t].fate # "ok")
      BY <2>4, <3>1, <3>2 DEF AllFates, InListSection
    <3> QED BY <1>w, <2>1, <3>1, <3>3, <3>4
  <2> QED BY <2>3, <2>4
<1>6. ASSUME NEW t \in Threads, DumpTail(t)
      PROVE  FileBody'
  <2>1. pc[t] = "dump_tail" /\ pc[t] \in InFileSection
    BY <1>6 DEF DumpTail, InFileSection
  <2>2. HeadIsOwned /\ CanWrite /\ LastToken = RecordHead(rec[t])
    BY <1>f, <2>1 DEF HeadIsOwned
  <2>3. /\ \A u \in Threads \ {t} : pc'[u] = pc[u]
        /\ pc'[t] = "idle" /\ UNCHANGED <<rec, writeVars>>
        /\ returned' = returned \cup {rec[t]}
        /\ file' = Append(file, RecordTail(rec[t]))
    BY <1>6, <1>t, <2>2 DEF DumpTail, Return, Goto, Append1
  <2>4. rec[t] \in Record
    BY <1>t
  <2>5. \A r \in Record : r = rec[t] => InFile(r)'
    <3>1. ASSUME NEW r \in Record, LastToken = RecordHead(r), file' = Append(file, RecordTail(r))
          PROVE  InFile(r)'
      BY <1>b, <1>t, <3>1, TailStores
    <3> QED BY <2>2, <2>3, <3>1
  <2>6. /\ RecordTail(rec[t]) \in Token /\ RecordTail(rec[t]).kind = "tail"
        /\ RecordTail(rec[t]).rec = rec[t] /\ RecordHead(rec[t]).rec = rec[t]
    BY <2>4, TokenTypes DEF RecordTail, RecordHead
  <2>7. \A r \in returned' : r.fate = "ok" => r \in returned \/ InFile(r)'
    BY <2>3, <2>4, <2>5
  <2> QED BY <1>w, <2>1, <2>2, <2>3, <2>6, <2>7 DEF InListSection
<1>7. ASSUME NEW t \in Threads, DumpError(t) \/ WriteRaises(t)
      PROVE  FileBody'
  <2>1. pc[t] \in InFileSection
    BY <1>7 DEF DumpError, WriteRaises, InFileSection
  <2>2. HeadIsOwned /\ CanWrite
    BY <1>f, <2>1
  <2>3. DumpError(t)
    BY <1>7, <2>2 DEF WriteRaises
  <2>4. /\ \A u \in Threads \ {t} : pc'[u] = pc[u]
        /\ pc[t] = "dump_error" /\ pc'[t] = "idle" /\ UNCHANGED <<rec, writeVars>>
        /\ returned' = returned \cup {rec[t]}
        /\ file' = Append(file, ErrorObject(rec[t]))
    BY <1>t, <2>2, <2>3 DEF DumpError, Return, Goto, Append1
  <2>5. /\ ErrorObject(rec[t]) \in Token /\ ErrorObject(rec[t]).kind = "error"
        /\ ErrorObject(rec[t]).rec = rec[t]
    BY <1>t, TokenTypes DEF ErrorObject
  <2>6. rec[t].fate # "ok"
    BY <2>2, <2>4 DEF HeadIsOwned
  <2>7. LastToken.kind = "head" => LastToken.rec = rec[t]
    BY <1>o, <2>1, <2>2 DEF HeadIsOwned, InFileSection
  <2>8. \A r \in returned' : r.fate = "ok" => r \in returned \/ InFile(r)'
    BY <2>4, <2>6
  <2> QED BY <1>w, <2>1, <2>4, <2>5, <2>7, <2>8 DEF InListSection
<1>8. ASSUME WriteBracket
      PROVE  FileBody'
  <2>1. /\ recordingFile = "open" /\ wpc = "idle" /\ ~AddRunning
        /\ file' = Append(file, Close) /\ wpc' = "close" /\ writes' = writes + 1
        /\ UNCHANGED <<pc, rec, returned, recordingFile>>
    BY <1>8, <1>a DEF WriteBracket, MayWrite, FileHypotheses
  <2>2. writes = 0 /\ HeadIsOwned /\ \A t \in Threads : pc[t] = "idle"
    BY <2>1, <1>a, <1>t DEF FileBody, AddRunning
  <2>3. LastToken.kind # "head" /\ Close \in Token
    BY <2>2, TokenTypes DEF HeadIsOwned
  <2>4. Isolated(file') /\ file' # <<>>
    BY <1>b, <1>t, <2>1, <2>3, IsolatedAppend DEF LastToken
  <2>5. ASSUME NEW r \in returned', r.fate = "ok" PROVE InFile(r)'
    <3>1. InFile(r)
      BY <1>a, <2>1, <2>2, <2>5 DEF FileBody
    <3> QED BY <1>t, <2>1, <2>3, <3>1, InFileGrows
  <2> QED BY <2>1, <2>2, <2>4, <2>5 DEF FileBody, InFileSection
<1>9. ASSUME CloseFile \/ UnsetFile
      PROVE  FileBody'
  <2>1. /\ wpc # "idle" /\ UNCHANGED <<pc, file, writes, returned>>
        /\ wpc' = "idle" => recordingFile' = "none"
        /\ wpc' # "gather"
    BY <1>9 DEF CloseFile, UnsetFile
  <2>2. \A r : InFile(r)' <=> InFile(r)
    BY <2>1 DEF InFile
  <2>3. writes = 1
    BY <1>b, <1>t, <2>1
  <2> QED BY <1>a, <2>1, <2>2, <2>3 DEF FileBody, Isolated
<1>10. ASSUME OpenList
       PROVE  FileBody'
  <2>1. recordingFile = "none" /\ writes' = writes + 1
    BY <1>10 DEF OpenList
  <2>2. writes' <= 1
    BY DEF FileHypotheses
  <2> QED BY <2>1, <2>2, <1>b, <1>t
<1>11. CASE UNCHANGED vars
  <2>1. UNCHANGED <<pc, rec, returned, file, writeVars>>
    BY <1>11 DEF vars
  <2>2. \A r : InFile(r)' <=> InFile(r)
    BY <2>1 DEF InFile
  <2>3. HeadIsOwned' <=> HeadIsOwned
    BY <2>1 DEF HeadIsOwned, LastToken
  <2> QED BY <1>a, <2>1, <2>2, <2>3 DEF FileBody, Isolated
<1>12. ~WriteListStep
  BY <1>a DEF FileBody, WriteListStep, GatherType, ListRaises, DumpList
<1> QED
  BY <1>1, <1>3, <1>4, <1>5, <1>6, <1>7, <1>8, <1>9, <1>10, <1>11, <1>12
     DEF Next, AddStep, WriteStep

FileInv == TypeOK /\ LocksMatchSections /\ FileState

LEMMA FileAlways == Spec => []FileInv
<1>1. Init => FileInv
  BY TypeInit, LocksInit, FileInit DEF FileInv
<1>2. FileInv /\ [Next]_vars => FileInv'
  BY TypeNext, LocksNext, FileNext DEF FileInv
<1> QED BY <1>1, <1>2, PTL DEF Spec

(* What a record that fails leaves in the stream is followed by its own     *)
(* error object and by nothing of another thread's: add_record holds the    *)
(* lock of the file until its handler has written.                          *)
THEOREM FailuresAreIsolated == Spec => []ErrorsAreIsolated
<1>1. FileInv => ErrorsAreIsolated
  BY DEF FileInv, FileState, FileHypotheses, FileBody, Isolated, ErrorsAreIsolated
<1> QED BY <1>1, FileAlways, PTL

(* When the first write() of a streaming recorder ends, every record whose  *)
(* add_record returned is whole in the file.                                *)
LEMMA FirstWriteIsWhole == Spec => [][WriteEnds => StreamIsWhole]_vars
<1>1. ASSUME FileInv, FileInv', [Next]_vars, WriteEnds, streaming, joins, writes' = 1
      PROVE  \A r \in returned : r.fate = "ok" => InFile(r)'
  <2>1. streaming' = streaming /\ joins' = joins
    BY <1>1 DEF Next, vars, setupVars
  <2>2. FileHypotheses'
    BY <1>1, <2>1 DEF FileHypotheses
  <2>3. TypeOK
    BY <1>1 DEF FileInv
  <2>4. FileHypotheses /\ FileBody /\ writes \in Nat
    BY <1>1, <2>2, <2>3, FileHypothesesKept DEF FileInv, FileState, TypeOK
  <2>5. wpc \notin {"idle", "gather"}
    BY <1>1, <2>4 DEF WriteEnds, FileBody
  <2>6. UnsetFile
    BY <1>1, <2>5 DEF WriteEnds, Next, StartAdd, AddStep, LockCounter, AssignSeq, BumpCounter,
         CheckFile, LockFile, WriteComma, DumpHead, DumpTail, DumpError, WriteRaises,
         CheckList, CreateList, AppendRecord, WriteStep, WriteBracket, CloseFile, UnsetFile,
         OpenList, WriteListStep, GatherType, ListRaises, DumpList, vars, writeVars, MayWrite
  <2>7. file' = file
    BY <2>6 DEF UnsetFile, streamVars
  <2>8. \A r : InFile(r)' <=> InFile(r)
    BY <2>7 DEF InFile
  <2> QED BY <2>4, <2>5, <2>8 DEF FileBody
<1>2. FileInv /\ FileInv' /\ [Next]_vars =>
        [WriteEnds => StreamIsWhole]_vars
  BY <1>1 DEF StreamIsWhole
<1> QED BY <1>2, FileAlways, PTL DEF Spec

-----------------------------------------------------------------------------
(* The lists in memory.  They are made and filled without a lock: what      *)
(* keeps a record in its list is that no other thread adds records of its   *)
(* type, and so none finds the type unlisted and makes the list again.      *)

\* So far t alone has begun to add records of type y.
OnlyBy(y, t) == \A q \in Begun : q.type = y => q.by = t

ListsState ==
    /\ \A y \in Types : \A i \in DOMAIN recordsByType[y] : recordsByType[y][i].type = y
    /\ ~streaming =>
          /\ recordingFile = "none" /\ wpc \in {"idle", "gather"}
          /\ \A t \in Threads : pc[t] \notin InFileSection \cup {"lock_file"}
    /\ \A t \in Threads : pc[t] = "append" => rec[t].type \in listed
    /\ \A t \in Threads, y \in Types :
          pc[t] = "create_list" /\ rec[t].type = y /\ OnlyBy(y, t) => y \notin listed

StoredState ==
    (streaming => joins /\ writes <= 1) =>
        \A r \in returned : r.fate = "ok" /\ OnlyBy(r.type, r.by) =>
            (streaming /\ InFile(r)) \/ r \in Stored

LEMMA ListsInit == Init => ListsState /\ StoredState
BY DEF Init, ListsState, StoredState, InFileSection

(* Who is not alone with a type stays so.                                  *)
LEMMA OnlyByBefore ==
    ASSUME TypeOK, [Next]_vars, NEW y, NEW t, OnlyBy(y, t)' PROVE OnlyBy(y, t)
<1> SUFFICES ASSUME NEW r \in Begun, r.type = y PROVE r.by = t
  BY DEF OnlyBy
<1>1. PICK q \in Begun' : q.type = r.type /\ q.by = r.by
  BY BegunStays
<1> QED BY <1>1 DEF OnlyBy

\* A record is stored when it is in the list of its type.
StoredUnder(r, y) == y \in listed /\ \E i \in DOMAIN recordsByType[y] : recordsByType[y][i] = r

LEMMA StoredInLists ==
    ASSUME NEW r PROVE r \in Stored <=> \E y \in listed : StoredUnder(r, y)
BY DEF Stored, ToSet, StoredUnder

LEMMA ListsNext ==
    ASSUME TypeOK, ListsState, [Next]_vars PROVE ListsState'
<1> USE DEF addVars, counterVars, streamVars, memoryVars, writeVars, listVars
<1>t. /\ pc \in [Threads -> Labels] /\ rec \in [Threads -> Record]
      /\ listed \subseteq Types /\ recordsByType \in [Types -> Seq(Record)]
      /\ \A t \in Threads : rec[t].type \in Types /\ rec[t].by = t
  BY DEF TypeOK, Record
<1>s. streaming' <=> streaming
  BY WritesAreCounted
<1>b. \A y \in Types, t \in Threads : OnlyBy(y, t)' => OnlyBy(y, t)
  BY OnlyByBefore
<1>1. (\A y \in Types : \A i \in DOMAIN recordsByType[y] : recordsByType[y][i].type = y)'
  <2>1. CASE \E t \in Threads : CreateList(t)
    <3>1. PICK t \in Threads : CreateList(t)
      BY <2>1
    <3> QED BY <3>1, <1>t DEF CreateList, ListsState
  <2>2. CASE \E t \in Threads : AppendRecord(t)
    <3>1. PICK t \in Threads : AppendRecord(t)
      BY <2>2
    <3>2. recordsByType' = [recordsByType EXCEPT ![rec[t].type] = Append(recordsByType[rec[t].type], rec[t])]
      BY <3>1 DEF AppendRecord
    <3>3. ASSUME NEW y \in Types, NEW i \in DOMAIN recordsByType'[y]
          PROVE  recordsByType'[y][i].type = y
      <4>1. CASE y = rec[t].type
        <5>1. recordsByType'[y] = Append(recordsByType[y], rec[t]) /\ recordsByType[y] \in Seq(Record)
          BY <1>t, <3>2, <4>1
        <5>2. i \in 1 .. Len(recordsByType[y]) + 1 /\ Len(recordsByType[y]) \in Nat
          BY <5>1
        <5>3. CASE i = Len(recordsByType[y]) + 1
          BY <4>1, <5>1, <5>3
        <5>4. CASE i # Len(recordsByType[y]) + 1
          <6>1. i \in DOMAIN recordsByType[y] /\ recordsByType'[y][i] = recordsByType[y][i]
            BY <5>1, <5>2, <5>4
          <6> QED BY <6>1 DEF ListsState
        <5> QED BY <5>3, <5>4
      <4>2. CASE y # rec[t].type
        <5>1. recordsByType'[y] = recordsByType[y]
          BY <1>t, <3>2, <4>2
        <5> QED BY <3>3, <5>1 DEF ListsState
      <4> QED BY <4>1, <4>2
    <3> QED BY <3>3
  <2>3. CASE ~ \E t \in Threads : CreateList(t) \/ AppendRecord(t)
    <3>1. recordsByType' = recordsByType
      BY <2>3 DEF Next, StartAdd, AddStep, LockCounter, AssignSeq, BumpCounter, CheckFile,
           LockFile, WriteComma, DumpHead, DumpTail, DumpError, WriteRaises, CheckList,
           WriteStep, WriteBracket, CloseFile, UnsetFile, OpenList, WriteListStep,
         GatherType, ListRaises, DumpList, EndList, vars
    <3> QED BY <3>1 DEF ListsState
  <2> QED BY <2>1, <2>2, <2>3
<1>2. ASSUME ~streaming
      PROVE  /\ recordingFile' = "none" /\ wpc' \in {"idle", "gather"}
             /\ \A t \in Threads : pc'[t] \notin InFileSection \cup {"lock_file"}
  <2>1. /\ recordingFile = "none" /\ wpc \in {"idle", "gather"}
        /\ \A t \in Threads : pc[t] \notin InFileSection \cup {"lock_file"}
    BY <1>2 DEF ListsState
  <2>2. ASSUME NEW t \in Threads,
               \/ StartAdd(t) \/ LockCounter(t) \/ AssignSeq(t) \/ BumpCounter(t) \/ CheckFile(t)
               \/ CheckList(t) \/ CreateList(t) \/ AppendRecord(t)
        PROVE  /\ UNCHANGED <<recordingFile, wpc>>
               /\ \A u \in Threads : pc'[u] \notin InFileSection \cup {"lock_file"}
    <3>1. /\ \A u \in Threads \ {t} : pc'[u] = pc[u]
          /\ pc'[t] \notin InFileSection \cup {"lock_file"}
          /\ UNCHANGED <<recordingFile, wpc>>
      BY <1>t, <2>1, <2>2 DEF StartAdd, LockCounter, AssignSeq, BumpCounter, CheckFile,
           CheckList, CreateList, AppendRecord, Return, Goto, InFileSection
    <3> QED BY <2>1, <3>1
  <2>3. ~ \E t \in Threads : \/ LockFile(t) \/ WriteComma(t) \/ DumpHead(t)
                             \/ DumpTail(t) \/ DumpError(t) \/ WriteRaises(t)
    BY <2>1 DEF LockFile, WriteComma, DumpHead, DumpTail, DumpError, WriteRaises, InFileSection
  <2>4. ~(WriteBracket \/ CloseFile \/ UnsetFile)
    BY <2>1 DEF WriteBracket, CloseFile, UnsetFile
  <2>5. ASSUME OpenList \/ WriteListStep \/ UNCHANGED vars
        PROVE  UNCHANGED <<recordingFile, pc>> /\ wpc' \in {"gather", "idle", wpc}
    BY <2>5 DEF OpenList, WriteListStep, GatherType, ListRaises, DumpList, EndList, vars
  <2>6. \/ OpenList \/ WriteListStep \/ UNCHANGED vars
        \/ \E t \in Threads :
             \/ StartAdd(t) \/ LockCounter(t) \/ AssignSeq(t) \/ BumpCounter(t) \/ CheckFile(t)
             \/ CheckList(t) \/ CreateList(t) \/ AppendRecord(t)
    BY <2>3, <2>4 DEF Next, AddStep, WriteStep
  <2>7. CASE OpenList \/ WriteListStep \/ UNCHANGED vars
    BY <2>1, <2>5, <2>7
  <2>8. CASE \E t \in Threads :
             \/ StartAdd(t) \/ LockCounter(t) \/ AssignSeq(t) \/ BumpCounter(t) \/ CheckFile(t)
             \/ CheckList(t) \/ CreateList(t) \/ AppendRecord(t)
    BY <2>1, <2>2, <2>8
  <2> QED BY <2>6, <2>7, <2>8
\* Which steps bring a thread to the lists, and what a step does to the lists.
<1>3. ASSUME NEW t \in Threads, pc'[t] \in {"append", "create_list"}
      PROVE  /\ rec'[t] = rec[t] /\ pc[t] # "idle"
             /\ pc'[t] = "append" => \/ pc[t] = "append"
                                     \/ rec[t].type \in listed'
             /\ pc'[t] = "create_list" => \/ pc[t] = "create_list"
                                          \/ rec[t].type \notin listed /\ listed' = listed
  <2>1. ASSUME NEW u \in Threads, StartAdd(u) \/ AddStep(u), u # t
        PROVE  pc'[t] = pc[t] /\ rec'[t] = rec[t]
    BY <1>t, <2>1 DEF StartAdd, AddStep, LockCounter, AssignSeq, BumpCounter, CheckFile,
         LockFile, WriteComma, DumpHead, DumpTail, DumpError, WriteRaises,
         CheckList, CreateList, AppendRecord, Return, Raise, Goto
  <2>2. ASSUME StartAdd(t) \/ AddStep(t)
        PROVE  CheckList(t) \/ CreateList(t)
    BY <1>t, <1>3, <2>2 DEF StartAdd, AddStep, LockCounter, AssignSeq, BumpCounter, CheckFile,
         LockFile, WriteComma, DumpHead, DumpTail, DumpError, WriteRaises,
         AppendRecord, Return, Raise, Goto
  <2>3. CASE CheckList(t)
    BY <1>t, <2>3 DEF CheckList, Goto
  <2>4. CASE CreateList(t)
    BY <1>t, <2>4 DEF CreateList, Goto
  <2>5. ASSUME WriteStep \/ UNCHANGED vars PROVE pc'[t] = pc[t] /\ rec'[t] = rec[t]
    BY <2>5 DEF WriteStep, WriteBracket, CloseFile, UnsetFile, OpenList, WriteListStep,
         GatherType, ListRaises, DumpList, EndList, vars
  <2>6. CASE pc'[t] = pc[t] /\ rec'[t] = rec[t]
    BY <1>3, <2>6
  <2> QED BY <2>1, <2>2, <2>3, <2>4, <2>5, <2>6 DEF Next
<1>4. \/ listed' = listed
      \/ \E u \in Threads : pc[u] = "create_list" /\ listed' = listed \cup {rec[u].type}
                            /\ pc'[u] = "append" /\ rec'[u] = rec[u]
  <2>1. CASE \E u \in Threads : CreateList(u)
    BY <1>t, <2>1 DEF CreateList, Goto
  <2>2. CASE ~ \E u \in Threads : CreateList(u)
    BY <2>2 DEF Next, StartAdd, AddStep, LockCounter, AssignSeq, BumpCounter, CheckFile,
         LockFile, WriteComma, DumpHead, DumpTail, DumpError, WriteRaises, CheckList,
         AppendRecord, WriteStep, WriteBracket, CloseFile, UnsetFile, OpenList, WriteListStep,
         GatherType, ListRaises, DumpList, EndList, vars
  <2> QED BY <2>1, <2>2
<1>5. (\A t \in Threads : pc[t] = "append" => rec[t].type \in listed)'
  BY <1>3, <1>4 DEF ListsState
<1>6. ASSUME NEW t \in Threads, NEW y \in Types,
             pc'[t] = "create_list", rec'[t].type = y, OnlyBy(y, t)'
      PROVE  y \notin listed'
  <2>1. OnlyBy(y, t) /\ rec'[t] = rec[t]
    BY <1>3, <1>6, <1>b
  <2>2. y \notin listed
    BY <1>3, <1>6, <2>1 DEF ListsState
  <2>3. ASSUME NEW u \in Threads, pc[u] = "create_list", rec[u].type = y, pc'[u] = "append"
        PROVE  FALSE
    <3>1. rec[u] \in Begun
      BY <2>3 DEF Begun
    <3>2. u = t
      BY <1>t, <2>1, <2>3, <3>1 DEF OnlyBy
    <3> QED BY <1>6, <2>3, <3>2
  <2> QED BY <1>4, <2>2, <2>3
<1> QED BY <1>1, <1>2, <1>5, <1>6, <1>s DEF ListsState

(* While at most one write() has been called, a step of a streaming         *)
(* recorder leaves every returned record in the file, or the file alone.    *)
LEMMA StreamedStep ==
    ASSUME FileInv, FileInv', [Next]_vars, FileHypotheses'
    PROVE  \/ \A r \in returned' : r.fate = "ok" => InFile(r)'
           \/ /\ file' = file
              /\ \A t \in Threads : ~(DumpTail(t) \/ DumpError(t))
<1> USE DEF addVars, counterVars, streamVars, memoryVars, writeVars, listVars
<1>1. /\ FileBody /\ FileBody' /\ FileHypotheses
      /\ writes \in Nat /\ (writes' = writes \/ writes' = writes + 1) /\ writes' <= 1
  BY WritesAreCounted, FileHypothesesKept DEF FileInv, FileState, FileHypotheses
<1>2. CASE writes' = 0
  BY <1>1, <1>2 DEF FileBody
<1>3. CASE writes = 0 /\ writes' = 1
  <2>1. wpc = "idle" /\ recordingFile = "open"
    BY <1>1, <1>3 DEF FileBody
  <2>2. WriteBracket
    BY <1>3, <2>1 DEF Next, StartAdd, AddStep, LockCounter, AssignSeq, BumpCounter, CheckFile,
         LockFile, WriteComma, DumpHead, DumpTail, DumpError, WriteRaises, CheckList,
         CreateList, AppendRecord, WriteStep, CloseFile, UnsetFile, OpenList, WriteListStep,
         GatherType, ListRaises, DumpList, EndList, vars
  <2>3. wpc' # "idle"
    BY <2>2 DEF WriteBracket
  <2> QED BY <1>1, <2>3 DEF FileBody
<1>4. CASE writes = 1 /\ writes' = 1
  <2>1. \A t \in Threads : pc[t] \notin InFileSection
    BY <1>1, <1>4 DEF FileBody
  <2>2. \A t \in Threads : ~(WriteComma(t) \/ DumpHead(t) \/ DumpTail(t) \/ DumpError(t))
    BY <2>1 DEF WriteComma, DumpHead, DumpTail, DumpError, InFileSection
  <2>3. ~(WriteBracket \/ OpenList \/ DumpList)
    BY <1>1, <1>4 DEF WriteBracket, OpenList, DumpList, FileBody
  <2>4. file' = file
    BY <2>2, <2>3 DEF Next, StartAdd, AddStep, LockCounter, AssignSeq, BumpCounter, CheckFile,
         LockFile, WriteRaises, CheckList, CreateList, AppendRecord, WriteStep,
         CloseFile, UnsetFile, WriteListStep, GatherType, ListRaises, vars
  <2> QED BY <2>2, <2>4
<1> QED BY <1>1, <1>2, <1>3, <1>4

(* A step that makes no list and appends to none.                          *)
LEMMA ListsUnchanged ==
    ASSUME [Next]_vars, \A t \in Threads : ~(CreateList(t) \/ AppendRecord(t))
    PROVE  /\ listed' = listed /\ recordsByType' = recordsByType
           /\ \/ returned' = returned
              \/ \E t \in Threads : /\ DumpTail(t) \/ DumpError(t)
                                    /\ pc[t] \in InFileSection
BY DEF Next, StartAdd, AddStep, LockCounter, AssignSeq, BumpCounter, CheckFile, LockFile,
     WriteComma, DumpHead, DumpTail, DumpError, WriteRaises, CheckList, Raise,
     WriteStep, WriteBracket, CloseFile, UnsetFile, OpenList, WriteListStep,
         GatherType, ListRaises, DumpList, EndList, vars, InFileSection,
     addVars, counterVars, streamVars, memoryVars, writeVars, listVars

LEMMA StoredNext ==
    ASSUME FileInv, FileInv', ListsState, StoredState, [Next]_vars PROVE StoredState'
<1> SUFFICES ASSUME (streaming => joins /\ writes <= 1)',
                    NEW r \in returned', r.fate = "ok", OnlyBy(r.type, r.by)'
             PROVE  (streaming' /\ InFile(r)') \/ r \in Stored'
  BY DEF StoredState
<1> USE DEF addVars, counterVars, streamVars, memoryVars, writeVars, listVars
<1>t. /\ TypeOK /\ pc \in [Threads -> Labels] /\ rec \in [Threads -> Record]
      /\ listed \subseteq Types /\ recordsByType \in [Types -> Seq(Record)]
      /\ returned' \subseteq Record
      /\ \A t \in Threads : rec[t].type \in Types /\ rec[t].by = t
  BY DEF FileInv, TypeOK, Record
<1>r. r \in Record /\ r.by \in Threads /\ r.type \in Types
  BY <1>t DEF Record
<1>w. /\ (streaming' <=> streaming) /\ (joins' <=> joins)
      /\ writes \in Nat /\ (writes' = writes \/ writes' = writes + 1)
  BY <1>t, WritesAreCounted
<1>h. (streaming => joins /\ writes <= 1) /\ (streaming => FileHypotheses')
  BY <1>w DEF FileHypotheses
<1>o. OnlyBy(r.type, r.by)
  BY <1>t, OnlyByBefore
<1>1. r \in returned => (streaming /\ InFile(r)) \/ r \in Stored
  BY <1>h, <1>o DEF StoredState
\* What is in the file, and what was just put there.
<1>2. CASE streaming /\ ~(file' = file /\ \A t \in Threads : ~(DumpTail(t) \/ DumpError(t)))
  BY <1>2, <1>h, <1>w, StreamedStep
<1>3. CASE streaming => file' = file /\ \A t \in Threads : ~(DumpTail(t) \/ DumpError(t))
  <2>1. streaming /\ InFile(r) => InFile(r)'
    BY <1>3 DEF InFile
  <2>2. ASSUME NEW t \in Threads, DumpTail(t) \/ DumpError(t) PROVE FALSE
    <3>1. pc[t] \in InFileSection
      BY <2>2 DEF DumpTail, DumpError, InFileSection
    <3> QED BY <1>3, <2>2, <3>1 DEF ListsState
  <2>3. CASE \E t \in Threads : CreateList(t)
    <3>1. PICK t \in Threads : CreateList(t)
      BY <2>3
    <3>2. /\ listed' = listed \cup {rec[t].type} /\ pc[t] = "create_list"
          /\ \A y \in Types \ {rec[t].type} : recordsByType'[y] = recordsByType[y]
          /\ returned' = returned
      BY <1>t, <3>1 DEF CreateList
    <3>3. CASE r \in Stored
      <4>1. PICK y \in listed : StoredUnder(r, y)
        BY <3>3, StoredInLists
      <4>2. r.type = y
        BY <1>t, <4>1 DEF ListsState, StoredUnder
      <4>3. rec[t] \in Begun
        BY <3>2 DEF Begun
      <4>4. rec[t].type # y
        BY <1>t, <1>o, <3>2, <4>2, <4>3, <4>1 DEF ListsState, OnlyBy
      <4>5. StoredUnder(r, y)' /\ y \in listed'
        BY <1>t, <3>2, <4>1, <4>4 DEF StoredUnder
      <4>6. r \in Stored'
        BY <4>5 DEF Stored, ToSet, StoredUnder
      <4> QED BY <4>6
    <3> QED BY <1>1, <1>w, <2>1, <3>2, <3>3
  <2>4. CASE \E t \in Threads : AppendRecord(t)
    <3>1. PICK t \in Threads : AppendRecord(t)
      BY <2>4
    <3>2. /\ listed' = listed /\ pc[t] = "append" /\ returned' = returned \cup {rec[t]}
          /\ recordsByType' = [recordsByType EXCEPT ![rec[t].type] =
                                  Append(recordsByType[rec[t].type], rec[t])]
      BY <3>1 DEF AppendRecord, Return
    <3>3. ASSUME NEW y \in listed, StoredUnder(r, y) PROVE StoredUnder(r, y)'
      <4>1. PICK i \in DOMAIN recordsByType[y] : recordsByType[y][i] = r
        BY <3>3 DEF StoredUnder
      <4>2. i \in DOMAIN recordsByType'[y] /\ recordsByType'[y][i] = r
        <5>1. recordsByType[y] \in Seq(Record) /\ y \in Types
          BY <1>t
        <5>2. CASE y = rec[t].type
          <6>1. recordsByType'[y] = Append(recordsByType[y], rec[t])
            BY <1>t, <3>2, <5>1, <5>2
          <6> QED BY <4>1, <5>1, <6>1
        <5>3. CASE y # rec[t].type
          BY <1>t, <3>2, <4>1, <5>1, <5>3
        <5> QED BY <5>2, <5>3
      <4> QED BY <3>2, <4>2 DEF StoredUnder
    <3>4. r = rec[t] => StoredUnder(r, r.type)' /\ r.type \in listed
      <4>1. CASE r = rec[t]
        <5>1. r.type \in listed
          BY <3>2, <4>1 DEF ListsState
        <5>2. recordsByType'[r.type] = Append(recordsByType[r.type], r)
              /\ recordsByType[r.type] \in Seq(Record)
          BY <1>t, <3>2, <4>1
        <5>3. recordsByType'[r.type][Len(recordsByType[r.type]) + 1] = r
              /\ Len(recordsByType[r.type]) + 1 \in DOMAIN recordsByType'[r.type]
          BY <1>r, <5>2
        <5> QED BY <3>2, <5>1, <5>3 DEF StoredUnder
      <4> QED BY <4>1
    <3>5. (\E y \in listed : StoredUnder(r, y)') => r \in Stored'
      BY <3>2 DEF Stored, ToSet, StoredUnder
    <3>6. r \in Stored => r \in Stored'
      BY <3>3, <3>5, StoredInLists
    <3>7. r = rec[t] => r \in Stored'
      BY <3>4, <3>5
    <3> QED BY <1>1, <1>w, <2>1, <3>2, <3>6, <3>7
  <2>5. CASE ~ \E t \in Threads : CreateList(t) \/ AppendRecord(t)
    <3>1. listed' = listed /\ recordsByType' = recordsByType /\ returned' = returned
      BY <2>2, <2>5, ListsUnchanged
    <3>2. Stored' = Stored
      BY <3>1 DEF Stored
    <3> QED BY <1>1, <1>w, <2>1, <3>1, <3>2
  <2> QED BY <2>3, <2>4, <2>5
<1> QED BY <1>2, <1>3

(* The record of a call that returned is where write() finds it: whole in   *)
(* the stream, or in the list of its type if no other thread adds records   *)
(* of that type.  Whatever the threads do meanwhile, also while the first   *)
(* write() closes the stream, and whatever other records fail.              *)
THEOREM ReturnedRecordsAreStored == Spec => []ReturnedIsStored
<1> DEFINE Inv == FileInv /\ ListsState /\ StoredState
<1>1. Init => Inv
  BY TypeInit, LocksInit, FileInit, ListsInit DEF FileInv
<1>2. Inv /\ [Next]_vars => Inv'
  <2> SUFFICES ASSUME Inv, [Next]_vars PROVE Inv'
    OBVIOUS
  <2>1. FileInv' /\ TypeOK
    BY TypeNext, LocksNext, FileNext DEF FileInv
  <2>2. ListsState'
    BY <2>1, ListsNext
  <2>3. StoredState'
    BY <2>1, StoredNext
  <2> QED BY <2>1, <2>2, <2>3
<1>3. Inv => ReturnedIsStored
  BY DEF StoredState, ReturnedIsStored, OnlyBy, AloneWithType
<1> QED BY <1>1, <1>2, <1>3, PTL DEF Spec

-----------------------------------------------------------------------------
(* A write() of lists.  What it has read of a list cannot be taken back, and *)
(* what had been added when it was called stays in its list until then.     *)

\* The records of what write() dumps are whole in the file.
LEMMA DumpedHas ==
    ASSUME NEW s \in Seq(Record), NEW k \in 1 .. Len(s)
    PROVE  /\ 3 * k - 1 \in 1 .. Len(ListTokens(s)) - 1
           /\ ListTokens(s)[3 * k - 1] = RecordHead(s[k])
           /\ ListTokens(s)[3 * k - 1 + 1] = RecordTail(s[k])
<1> DEFINE n == IF s = <<>> THEN 2 ELSE 3 * Len(s) + 1
<1>1. Len(s) \in Nat /\ k \in Nat /\ 1 <= k /\ k <= Len(s) /\ s # <<>>
  OBVIOUS
<1>2. n = 3 * Len(s) + 1
  BY <1>1
<1>3. Len(ListTokens(s)) = 3 * Len(s) + 1
  BY <1>1, <1>2 DEF ListTokens
<1>4. \A i \in 1 .. 3 * Len(s) + 1 : i # 1 /\ i # 3 * Len(s) + 1 =>
         /\ i % 3 = 2 => ListTokens(s)[i] = RecordHead(s[((i - 2) \div 3) + 1])
         /\ i % 3 = 0 => ListTokens(s)[i] = RecordTail(s[((i - 2) \div 3) + 1])
  BY <1>1 DEF ListTokens
<1>5. /\ (3 * k - 1) % 3 = 2 /\ (((3 * k - 1) - 2) \div 3) + 1 = k
      /\ (3 * k) % 3 = 0 /\ (((3 * k) - 2) \div 3) + 1 = k
  BY <1>1
<1>6. /\ 3 * k - 1 \in 1 .. 3 * Len(s) + 1 /\ 3 * k - 1 # 1 /\ 3 * k - 1 # 3 * Len(s) + 1
      /\ 3 * k \in 1 .. 3 * Len(s) + 1 /\ 3 * k # 1 /\ 3 * k # 3 * Len(s) + 1
      /\ 3 * k - 1 + 1 = 3 * k
  BY <1>1
<1>7. 3 * k - 1 \in 1 .. Len(ListTokens(s)) - 1
  BY <1>1, <1>3
<1>8. ListTokens(s)[3 * k - 1] = RecordHead(s[k])
  BY <1>4, <1>5, <1>6
<1>9. ListTokens(s)[3 * k] = RecordTail(s[k])
  BY <1>4, <1>5, <1>6
<1> QED BY <1>6, <1>7, <1>8, <1>9

GatherState ==
    /\ \A y \in Types : \A i \in DOMAIN recordsByType[y] : recordsByType[y][i] \in returned
    /\ joins /\ wpc # "idle" => \A t \in Threads : pc[t] = "idle"
    /\ ~streaming /\ wpc = "gather" =>
          /\ file = <<>> /\ due \subseteq returned /\ gathered \subseteq returned
          /\ joins => listed = known
          /\ \A r \in due : r.fate = "ok" /\ OnlyBy(r.type, r.by) =>
                r.type \in unread \/ r \in gathered

LEMMA GatherInit == Init => GatherState
BY DEF Init, GatherState

\* A record that had been added, by the only thread with its type, is in its list.
LEMMA DueIsListed ==
    ASSUME TypeOK, ListsState, StoredState, ~streaming,
           NEW r \in returned, r.fate = "ok", OnlyBy(r.type, r.by)
    PROVE  r.type \in listed /\ r \in ToSet(recordsByType[r.type])
<1>1. r \in Stored
  BY DEF StoredState
<1>2. PICK y \in listed : StoredUnder(r, y)
  BY <1>1, StoredInLists
<1>3. y \in Types /\ r.type = y
  BY <1>2 DEF TypeOK, ListsState, StoredUnder
<1> QED BY <1>2, <1>3 DEF StoredUnder, ToSet

\* What a step of a thread leaves of what write() has read.
LEMMA GatherByAdding ==
    ASSUME TypeOK, ListsState, GatherState, [Next]_vars,
           NEW t \in Threads, StartAdd(t) \/ AddStep(t)
    PROVE  GatherState'
<1> USE DEF addVars, counterVars, streamVars, memoryVars, writeVars, listVars
<1>t. /\ pc \in [Threads -> Labels] /\ rec \in [Threads -> Record]
      /\ recordsByType \in [Types -> Seq(Record)] /\ rec[t].type \in Types
  BY DEF TypeOK, Record
<1>s. (streaming' <=> streaming) /\ (joins' <=> joins)
  BY WritesAreCounted
<1>1. UNCHANGED <<wpc, known, unread, gathered, due>>
  BY DEF StartAdd, AddStep, LockCounter, AssignSeq, BumpCounter, CheckFile, LockFile, WriteComma,
     DumpHead, DumpTail, DumpError, WriteRaises, CheckList, CreateList, AppendRecord
<1>2. returned \subseteq returned'
  BY DEF StartAdd, AddStep, LockCounter, AssignSeq, BumpCounter, CheckFile, LockFile, WriteComma,
     DumpHead, DumpTail, DumpError, WriteRaises, CheckList, CreateList, AppendRecord,
     Return, Raise
<1>3. ASSUME joins, wpc # "idle" PROVE FALSE
  <2>1. pc[t] = "idle"
    BY <1>3 DEF GatherState
  <2> QED BY <1>3, <2>1
      DEF StartAdd, AddStep, LockCounter, AssignSeq, BumpCounter, CheckFile, LockFile, WriteComma,
          DumpHead, DumpTail, DumpError, WriteRaises, CheckList, CreateList, AppendRecord
<1>4. ASSUME NEW y \in Types, NEW i \in DOMAIN recordsByType'[y]
      PROVE  recordsByType'[y][i] \in returned'
  <2>1. CASE recordsByType' = recordsByType
    BY <1>2, <1>4, <2>1 DEF GatherState
  <2>2. CASE CreateList(t)
    <3>1. recordsByType'[y] = recordsByType[y] \/ recordsByType'[y] = <<>>
      BY <1>t, <2>2 DEF CreateList
    <3> QED BY <1>2, <1>4, <3>1 DEF GatherState
  <2>3. CASE AppendRecord(t)
    <3>1. /\ rec[t] \in returned'
          /\ \/ recordsByType'[y] = recordsByType[y]
             \/ recordsByType'[y] = Append(recordsByType[y], rec[t])
      BY <1>t, <2>3 DEF AppendRecord, Return
    <3>2. CASE recordsByType'[y] = recordsByType[y]
      BY <1>2, <1>4, <3>2 DEF GatherState
    <3>3. CASE recordsByType'[y] = Append(recordsByType[y], rec[t])
      <4>1. recordsByType[y] \in Seq(Record)
        BY <1>t
      <4>2. \/ i \in DOMAIN recordsByType[y] /\ recordsByType'[y][i] = recordsByType[y][i]
            \/ recordsByType'[y][i] = rec[t]
        BY <1>4, <3>3, <4>1
      <4> QED BY <1>2, <3>1, <4>2 DEF GatherState
    <3> QED BY <3>1, <3>2, <3>3
  <2> QED BY <2>1, <2>2, <2>3
      DEF StartAdd, AddStep, LockCounter, AssignSeq, BumpCounter, CheckFile, LockFile, WriteComma,
          DumpHead, DumpTail, DumpError, WriteRaises, CheckList
<1>5. ASSUME ~streaming PROVE file' = file
  <2>1. pc[t] \notin InFileSection \cup {"lock_file"}
    BY <1>5 DEF ListsState
  <2> QED BY <2>1
      DEF StartAdd, AddStep, LockCounter, AssignSeq, BumpCounter, CheckFile, LockFile, WriteComma,
          DumpHead, DumpTail, DumpError, WriteRaises, CheckList, CreateList, AppendRecord,
          InFileSection
<1>6. ASSUME ~streaming, wpc = "gather"
      PROVE  /\ file' = <<>> /\ due' \subseteq returned' /\ gathered' \subseteq returned'
             /\ ~joins
             /\ \A r \in due' : r.fate = "ok" /\ OnlyBy(r.type, r.by)' =>
                   r.type \in unread' \/ r \in gathered'
  <2>1. \A r \in due : r.fate = "ok" /\ OnlyBy(r.type, r.by) => r.type \in unread \/ r \in gathered
    BY <1>6 DEF GatherState
  <2>2. \A r \in due : OnlyBy(r.type, r.by)' => OnlyBy(r.type, r.by)
    BY OnlyByBefore
  <2>3. file = <<>> /\ due \subseteq returned /\ gathered \subseteq returned
    BY <1>6 DEF GatherState
  <2> QED BY <1>1, <1>2, <1>3, <1>5, <1>6, <2>1, <2>2, <2>3
<1> QED BY <1>s, <1>1, <1>3, <1>4, <1>6 DEF GatherState

LEMMA GatherNext ==
    ASSUME TypeOK, ListsState, StoredState, GatherState, [Next]_vars PROVE GatherState'
<1> USE DEF addVars, counterVars, streamVars, memoryVars, writeVars, listVars
<1>s. (streaming' <=> streaming) /\ (joins' <=> joins)
  BY WritesAreCounted
<1>g. /\ \A y \in Types : \A i \in DOMAIN recordsByType[y] : recordsByType[y][i] \in returned
      /\ joins /\ wpc # "idle" => \A t \in Threads : pc[t] = "idle"
  BY DEF GatherState
<1>1. ASSUME NEW t \in Threads, StartAdd(t) \/ AddStep(t) PROVE GatherState'
  BY <1>1, GatherByAdding
<1>2. CASE WriteBracket
  <2>1. /\ wpc' = "close" /\ UNCHANGED <<recordsByType, returned, pc>>
        /\ joins => \A t \in Threads : pc[t] = "idle"
    BY <1>2 DEF WriteBracket, MayWrite, AddRunning
  <2> QED BY <1>s, <1>g, <2>1 DEF GatherState
<1>3. CASE CloseFile \/ UnsetFile
  <2>1. /\ wpc \notin {"idle", "gather"} /\ wpc' # "gather"
        /\ UNCHANGED <<recordsByType, returned, pc>>
    BY <1>3 DEF CloseFile, UnsetFile
  <2> QED BY <1>s, <1>g, <2>1 DEF GatherState
<1>4. CASE OpenList
  <2>1. /\ wpc' = "gather" /\ UNCHANGED <<recordsByType, returned, pc, listed, rec, raised>>
        /\ joins => \A t \in Threads : pc[t] = "idle"
        /\ file' = <<>> /\ due' = returned /\ gathered' = {} /\ known' = listed /\ unread' = listed
    BY <1>4 DEF OpenList, MayWrite, AddRunning
  <2>2. ASSUME ~streaming, NEW r \in returned, r.fate = "ok", OnlyBy(r.type, r.by)'
        PROVE  r.type \in unread'
    <3>1. OnlyBy(r.type, r.by)
      BY <2>2, OnlyByBefore
    <3> QED BY <2>1, <2>2, <3>1, DueIsListed
  <2> QED BY <1>s, <1>g, <2>1, <2>2 DEF GatherState
<1>5. CASE GatherType
  <2>1. PICK y \in unread : /\ gathered' = gathered \cup ToSet(recordsByType[y])
                            /\ unread' = unread \ {y}
    BY <1>5 DEF GatherType
  <2>2. /\ wpc = "gather" /\ wpc' = "gather"
        /\ UNCHANGED <<recordsByType, returned, pc, listed, known, due, file>>
    BY <1>5 DEF GatherType
  <2>3. ToSet(recordsByType[y]) \subseteq returned
    BY <1>g DEF TypeOK, ToSet
  <2>4. ASSUME ~streaming, NEW r \in due, r.fate = "ok", OnlyBy(r.type, r.by)'
        PROVE  r.type \in unread' \/ r \in gathered'
    <3>1. OnlyBy(r.type, r.by)
      BY <2>4, OnlyByBefore
    <3>2. r.type \in unread \/ r \in gathered
      BY <2>2, <2>4, <3>1 DEF GatherState
    <3>3. r \in returned
      BY <2>2, <2>4 DEF GatherState
    <3>4. r \in ToSet(recordsByType[r.type])
      BY <2>4, <3>1, <3>3, DueIsListed
    <3> QED BY <2>1, <3>2, <3>4
  <2>5. ~streaming => /\ file = <<>> /\ due \subseteq returned /\ gathered \subseteq returned
                      /\ joins => listed = known
    BY <2>2 DEF GatherState
  <2> QED BY <1>s, <1>g, <2>1, <2>2, <2>3, <2>4, <2>5 DEF GatherState
<1>6. CASE ListRaises \/ DumpList
  <2>1. wpc' = "idle" /\ UNCHANGED <<recordsByType, returned>>
    BY <1>6 DEF ListRaises, DumpList, EndList
  <2> QED BY <1>g, <2>1 DEF GatherState
<1>7. CASE UNCHANGED vars
  <2>1. UNCHANGED <<wpc, recordsByType, returned, pc, listed, known, due, file, unread, gathered>>
    BY <1>7 DEF vars
  <2>2. \A r : OnlyBy(r.type, r.by)' => OnlyBy(r.type, r.by)
    BY OnlyByBefore
  <2> QED BY <1>s, <2>1, <2>2 DEF GatherState
<1> QED BY <1>1, <1>2, <1>3, <1>4, <1>5, <1>6, <1>7 DEF Next, WriteStep, WriteListStep

\* The step that ends a write() of lists.
LEMMA ListEnds ==
    ASSUME TypeOK, ListsState, GatherState, [Next]_vars,
           WriteEnds, ~streaming, AllSerializable
    PROVE  /\ joins => file' # <<>>
           /\ file' # <<>> => \A r \in due : AloneWithType(r) => InFile(r)'
<1> USE DEF addVars, counterVars, streamVars, memoryVars, writeVars, listVars
<1>1. wpc = "gather"
  BY DEF WriteEnds, ListsState
<1>2. /\ file = <<>> /\ due \subseteq returned /\ gathered \subseteq returned
      /\ joins => listed = known
      /\ \A r \in due : r.fate = "ok" /\ OnlyBy(r.type, r.by) =>
            r.type \in unread \/ r \in gathered
  BY <1>1 DEF GatherState
<1>3. \A r \in returned : r.fate = "ok"
  BY DEF AllSerializable, Begun
<1>4. ListRaises \/ DumpList
  BY <1>1 DEF WriteEnds, Next, StartAdd, AddStep, LockCounter, AssignSeq, BumpCounter, CheckFile,
     LockFile, WriteComma, DumpHead, DumpTail, DumpError, WriteRaises, CheckList, CreateList,
     AppendRecord, WriteStep, WriteListStep, WriteBracket, CloseFile, UnsetFile, OpenList,
     GatherType, MayWrite, vars
<1>5. CASE ListRaises
  <2>1. file' = <<>>
    BY <1>2, <1>5 DEF ListRaises
  <2>2. ASSUME joins PROVE FALSE
    <3>1. PICK y \in unread : \E r \in ToSet(recordsByType[y]) : r.fate = "to_dict"
      BY <1>2, <1>5, <2>2 DEF ListRaises
    <3>2. y \in Types
      BY DEF TypeOK
    <3>3. \A i \in DOMAIN recordsByType[y] : recordsByType[y][i].fate = "ok"
      BY <1>3, <3>2 DEF GatherState
    <3> QED BY <3>1, <3>3 DEF ToSet
  <2> QED BY <2>1, <2>2
<1>6. CASE DumpList
  <2>1. PICK s \in SortedRecords : unread = {} /\ file' \in Dumped(s)
    BY <1>6 DEF DumpList
  <2>2. s \in Seq(Record) /\ Len(s) \in Nat /\ DOMAIN s = 1 .. Len(s)
    BY <2>1, SortedType
  <2>3. ToSet(s) = gathered
    BY <2>1 DEF SortedRecords, SomeOrder
  <2>4. \A i \in DOMAIN s : s[i].fate = "ok"
    BY <1>2, <1>3, <2>3 DEF ToSet
  <2>5. file' = ListTokens(s)
    <3>1. {i \in DOMAIN s : s[i].fate = "encode"} = {}
      BY <2>4
    <3> QED BY <2>1, <3>1 DEF Dumped
  <2>6. file' # <<>>
    <3>1. 1 \in DOMAIN ListTokens(s)
      BY <2>2 DEF ListTokens
    <3> QED BY <2>5, <3>1
  <2>7. ASSUME NEW r \in due, AloneWithType(r) PROVE InFile(r)'
    <3>1. r \in gathered
      BY <1>2, <1>3, <2>1, <2>7 DEF AloneWithType, OnlyBy
    <3>2. PICK k \in 1 .. Len(s) : s[k] = r
      BY <2>2, <2>3, <3>1 DEF ToSet
    <3>3. PICK i \in Int : i = 3 * k - 1
      BY <2>2
    <3>4. /\ i \in 1 .. Len(file') - 1
          /\ file'[i] = RecordHead(r) /\ file'[i + 1] = RecordTail(r)
      BY <2>2, <2>5, <3>2, <3>3, DumpedHas
    <3> QED BY <3>4 DEF InFile, RecordHead, RecordTail
  <2> QED BY <2>6, <2>7
<1> QED BY <1>4, <1>5, <1>6

\* A write() of lists that leaves anything in the file leaves each record that had been
\* added when it was called, if no other thread adds records of its type, whatever
\* threads add, and to whatever lists, while it reads them; and if it waits for the
\* threads it leaves something.
LEMMA ListWriteIsWhole == Spec => [][WriteEnds => ListIsWhole]_vars
<1> DEFINE Inv == FileInv /\ ListsState /\ StoredState /\ GatherState
<1>1. Init => Inv
  BY TypeInit, LocksInit, FileInit, ListsInit, GatherInit DEF FileInv
<1>2. Inv /\ [Next]_vars => Inv'
  <2> SUFFICES ASSUME Inv, [Next]_vars PROVE Inv'
    OBVIOUS
  <2>1. FileInv' /\ TypeOK
    BY TypeNext, LocksNext, FileNext DEF FileInv
  <2>2. ListsState'
    BY <2>1, ListsNext
  <2>3. StoredState'
    BY <2>1, StoredNext
  <2>4. GatherState'
    BY <2>1, GatherNext
  <2> QED BY <2>1, <2>2, <2>3, <2>4
<1>3. Inv /\ [Next]_vars =>
        [WriteEnds => ListIsWhole]_vars
  BY ListEnds DEF FileInv, ListIsWhole
<1> HIDE DEF Inv
<1> QED BY <1>1, <1>2, <1>3, PTL DEF Spec

\* The first write of a stream, and any write of lists, leaves in the file, when it ends,
\* what had been added (as WriteIsComplete says, and under its conditions).
THEOREM WritesAreComplete == Spec => WriteIsComplete
<1>1. [WriteEnds => StreamIsWhole]_vars /\ [WriteEnds => ListIsWhole]_vars =>
        [WriteEnds => StreamIsWhole /\ ListIsWhole]_vars
  OBVIOUS
<1> QED BY <1>1, FirstWriteIsWhole, ListWriteIsWhole, PTL DEF WriteIsComplete
=============================================================================
