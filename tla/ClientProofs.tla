---------------------------- MODULE ClientProofs ----------------------------
(***************************************************************************)
(* Proofs about the clients of jinja and of the file system: about         *)
(* TagIterator and BlockIterator, for any texts and any names of tags and  *)
(* blocks; about MacroCalls, for any macros, texts and depth of calls; and *)
(* about SystemClient, for any threads, trees of files and calls.          *)
(***************************************************************************)
EXTENDS BlockIterator, MacroCalls, SystemClient, SequenceTheorems, FiniteSetTheorems,
        WellFoundedInduction, TLAPS

-----------------------------------------------------------------------------
(* Least elements and searches                                             *)

\* A set of natural numbers that is not empty has a least element.
LEMMA LeastIsLeast ==
    ASSUME NEW S \in SUBSET Nat, S # {} PROVE IsLeast(Least(S), S)
  <1>1. \E x \in S : \A y \in S : <<y, x>> \notin OpToRel(<, Nat)
    BY NatLessThanWellFounded, WFMin, Zenon
  <1>2. PICK x \in S : \A y \in S : <<y, x>> \notin OpToRel(<, Nat)
    BY <1>1
  <1>3. \A y \in S : ~(y < x)
    BY <1>2 DEF OpToRel
  <1>4. \E z \in S : IsLeast(z, S)
    BY <1>3 DEF IsLeast
  <1> QED BY <1>4 DEF Least, IsLeast

\* There is one.
LEMMA LeastIsUnique ==
    ASSUME NEW S \in SUBSET Nat, NEW x, IsLeast(x, S) PROVE Least(S) = x
  <1>1. S # {} /\ x \in S BY DEF IsLeast
  <1>2. IsLeast(Least(S), S) BY <1>1, LeastIsLeast
  <1>3. x <= Least(S) /\ Least(S) <= x /\ x \in Nat /\ Least(S) \in Nat
    BY <1>1, <1>2 DEF IsLeast
  <1> QED BY <1>3

LEMMA TextIsSeq == ASSUME text \in Texts PROVE text \in Seq(STRING) /\ Len(text) \in Nat
  BY TextsAssumption

\* A match at i ends after i, inside the text.
LEMMA MatchEnds ==
    ASSUME text \in Texts, NEW p \in DOMAIN Patterns, NEW i \in 1 .. Len(text),
           MatchesAt(p, i)
    PROVE  MatchEnd(p, i) \in i + 1 .. Len(text) + 1
  <1>1. Len(text) \in Nat BY TextIsSeq
  <1>2. CASE p = "string"
    <2>1. Closers(i) \in SUBSET Nat /\ Closers(i) # {}
      BY <1>1, <1>2 DEF MatchesAt, Closers
    <2>2. Least(Closers(i)) \in Closers(i)
      BY <2>1, LeastIsLeast DEF IsLeast
    <2> QED BY <1>1, <1>2, <2>2 DEF MatchEnd, Closers
  <1>3. CASE p = "raw"
    <2>0. EndRaws(i) \subseteq i + 2 .. Len(text) - 1
      BY DEF EndRaws
    <2>1. EndRaws(i) \in SUBSET Nat /\ EndRaws(i) # {}
      BY <1>1, <1>3, <2>0 DEF MatchesAt
    <2>2. Least(EndRaws(i)) \in EndRaws(i)
      BY <2>1, LeastIsLeast DEF IsLeast
    <2>3. Least(EndRaws(i)) \in i + 2 .. Len(text) - 1
      BY <2>2 DEF EndRaws
    <2>4. MatchEnd(p, i) = Least(EndRaws(i)) + 2
      BY <1>3 DEF MatchEnd
    <2> QED BY <1>1, <2>3, <2>4
  <1>4. CASE p # "string" /\ p # "raw"
    BY <1>1, <1>4 DEF MatchEnd
  <1> QED BY <1>2, <1>3, <1>4

\* Matched(p, i, m): m is what a search for p from i may find.
Matched(i, m) == m.start \in i .. Len(text) /\ m.end \in m.start + 1 .. Len(text) + 1

\* What a search finds.
LEMMA SearchFinds ==
    ASSUME text \in Texts, NEW p \in DOMAIN Patterns, NEW i \in Positions,
           NextOf(p, i) # {}
    PROVE  /\ Least(NextOf(p, i)) \in NextOf(p, i)
           /\ Search(p, i) \in Matches
           /\ Matched(i, Search(p, i))
           /\ text[Least(NextOf(p, i))] \in Patterns[p]
  <1>1. Len(text) \in Nat BY TextIsSeq
  <1>2. NextOf(p, i) \in SUBSET Nat BY <1>1 DEF NextOf, Positions
  <1> DEFINE j == Least(NextOf(p, i))
  <1>3. j \in NextOf(p, i) BY <1>2, LeastIsLeast DEF IsLeast
  <1>4. j \in i .. Len(text) /\ j \in 1 .. Len(text) /\ MatchesAt(p, j)
    BY <1>1, <1>3 DEF NextOf, Positions
  <1>5. MatchEnd(p, j) \in j + 1 .. Len(text) + 1
    BY <1>4, MatchEnds
  <1> HIDE DEF j
  <1>6. Search(p, i) = [start |-> IF p = "commentEnd" THEN i ELSE j, end |-> MatchEnd(p, j)]
    BY DEF Search, j
  <1>7. Search(p, i) \in Matches /\ Matched(i, Search(p, i))
    BY <1>1, <1>4, <1>5, <1>6 DEF Matches, Matched, Positions
  <1>8. text[j] \in Patterns[p] BY <1>4 DEF MatchesAt
  <1> QED BY <1>3, <1>7, <1>8 DEF j

\* A search finds nothing, or a match from its position on.
LEMMA SearchTypes ==
    ASSUME text \in Texts, NEW p \in DOMAIN Patterns, NEW i \in Positions
    PROVE  /\ Search(p, i) \in Matches
           /\ Search(p, i) # NoMatch => Matched(i, Search(p, i))
           /\ Search(p, i) = NoMatch <=> NextOf(p, i) = {}
  <1>1. CASE NextOf(p, i) = {}
    BY <1>1 DEF Search, NoMatch, Matches
  <1>2. CASE NextOf(p, i) # {}
    <2>1. Search(p, i) \in Matches /\ Matched(i, Search(p, i))
      BY <1>2, SearchFinds
    <2>2. Search(p, i).start # 0
      BY <2>1, TextIsSeq DEF Matched, Positions
    <2> QED BY <1>2, <2>1, <2>2 DEF NoMatch
  <1> QED BY <1>1, <1>2

\* A search that found nothing before i, or a match that starts at or after i,
\* finds the same from i.
LEMMA LaterSearch ==
    ASSUME text \in Texts, NEW p \in DOMAIN Patterns,
           NEW f \in Positions, NEW i \in Positions, f <= i,
           Search(p, f) = NoMatch \/ Search(p, f).start >= i
    PROVE  Search(p, i) = Search(p, f)
  <1>1. Len(text) \in Nat BY TextIsSeq
  <1>2. NextOf(p, i) \subseteq NextOf(p, f) /\ NextOf(p, f) \in SUBSET Nat
    BY <1>1 DEF NextOf, Positions
  <1>3. CASE NextOf(p, f) = {}
    BY <1>2, <1>3 DEF Search
  <1>4. CASE NextOf(p, f) # {} /\ p = "commentEnd"
    <2>1. Search(p, f).start = f /\ Search(p, f) # NoMatch
      BY <1>4, SearchTypes DEF Search
    <2> QED BY <2>1, <1>1 DEF Positions
  <1>5. CASE NextOf(p, f) # {} /\ p # "commentEnd"
    <2> DEFINE j == Least(NextOf(p, f))
    <2>1. IsLeast(j, NextOf(p, f)) BY <1>2, <1>5, LeastIsLeast
    <2>2. j >= i
      BY <1>5, SearchTypes DEF Search
    <2>3. IsLeast(j, NextOf(p, i))
      BY <1>1, <2>1, <2>2 DEF IsLeast, NextOf, Positions
    <2>4. Least(NextOf(p, i)) = j
      BY <1>2, <2>3, LeastIsUnique
    <2> QED BY <1>5, <2>3, <2>4 DEF Search, IsLeast
  <1> QED BY <1>3, <1>4, <1>5

-----------------------------------------------------------------------------
(* The invariant                                                           *)

\* All that can be found in the text.
Searches == [p \in DOMAIN Patterns |-> [i \in Positions |-> Search(p, i)]]

\* Each entry is what a search from its position finds.
CacheInv ==
    \A p \in DOMAIN Patterns :
        cache[p] # NeverSearched =>
            /\ cache[p].from \in Positions
            /\ cache[p].match = Searches[p][cache[p].from]

\* While a tag is in hand, it starts at a token.
TagInHand == pc \in {"close", "closeString", "raw"} => opened # 0

LexInv == LexTypeOK /\ CacheInv /\ TagInHand

LEMMA LexFacts ==
    ASSUME LexInv
    PROVE  /\ text \in Texts /\ text \in Seq(STRING) /\ Len(text) \in Nat
           /\ pos \in Positions /\ pos \in Nat /\ pos >= 1
           /\ opened \in 0 .. Len(text)
           /\ tags \in Seq([name : STRING, start : Nat, end : Nat])
  <1>1. text \in Texts /\ pos \in Positions /\ opened \in 0 .. Len(text)
        /\ tags \in Seq([name : STRING, start : Nat, end : Nat])
    BY DEF LexInv, LexTypeOK
  <1>2. text \in Seq(STRING) /\ Len(text) \in Nat BY <1>1, TextIsSeq
  <1> QED BY <1>1, <1>2 DEF Positions

\* While the entries are right, a cached search finds what a fresh one would.
LEMMA CacheAnswers ==
    ASSUME LexInv, NEW p \in DOMAIN Patterns
    PROVE  /\ Cached(p) => cache[p].match = Search(p, pos)
           /\ SearchFor(p) = Search(p, pos)
  <1>1. ASSUME Cached(p) PROVE cache[p].match = Search(p, pos)
    <2>1. /\ cache[p] # NeverSearched /\ cache[p].from <= pos
          /\ cache[p].match = NoMatch \/ cache[p].match.start >= pos
      BY <1>1 DEF Cached
    <2>2. text \in Texts /\ pos \in Positions /\ CacheInv
      BY DEF LexInv, LexTypeOK
    <2>3. cache[p].from \in Positions /\ cache[p].match = Searches[p][cache[p].from]
      BY <2>1, <2>2 DEF CacheInv
    <2>4. cache[p].match = Search(p, cache[p].from)
      BY <2>3 DEF Searches
    <2> QED BY <2>1, <2>2, <2>3, <2>4, LaterSearch
  <1> QED BY <1>1 DEF SearchFor

\* What is found is searched for, from pos on.
LEMMA FoundMatches ==
    ASSUME LexInv, NEW place, NEW p, Finds(place, p), place \in DOMAIN Wanted
    PROVE  /\ p \in DOMAIN Patterns /\ p \in Wanted[place]
           /\ SearchFor(p) \in Matches
           /\ SearchFor(p).start \in pos .. Len(text)
           /\ SearchFor(p).end \in pos + 1 .. Len(text) + 1
  <1>1. p \in Wanted[place] /\ SearchFor(p) # NoMatch
    BY DEF Finds, Found
  <1>2. Wanted[place] \subseteq DOMAIN Patterns
    BY DEF Wanted, Patterns
  <1>3. p \in DOMAIN Patterns BY <1>1, <1>2
  <1>4. SearchFor(p) = Search(p, pos) BY <1>3, CacheAnswers
  <1>5. SearchFor(p) \in Matches /\ Matched(pos, SearchFor(p))
    BY <1>1, <1>3, <1>4, SearchTypes DEF LexInv, LexTypeOK
  <1>6. /\ SearchFor(p).start \in pos .. Len(text) /\ SearchFor(p).start \in Nat
        /\ SearchFor(p).end \in SearchFor(p).start + 1 .. Len(text) + 1
    BY <1>5 DEF Matched, Matches
  <1> QED BY <1>1, <1>3, <1>5, <1>6, LexFacts

\* The first token of a tag is a name.
LEMMA BlockStarts ==
    ASSUME LexInv, Finds("tags", "block")
    PROVE  SearchFor("block").start \in 1 .. Len(text)
  <1>1. "tags" \in DOMAIN Wanted BY DEF Wanted
  <1>2. SearchFor("block").start \in pos .. Len(text) BY <1>1, FoundMatches
  <1> QED BY <1>2, LexFacts

\* What a search finds depends on the text only.
LEMMA SearchIsFixed ==
    ASSUME UNCHANGED text, NEW p, NEW i PROVE Search(p, i)' = Search(p, i)
  <1>1. \A j : EndRaws(j)' = EndRaws(j) BY DEF EndRaws
  <1>2. \A j : Closers(j)' = Closers(j) BY DEF Closers
  <1>3. \A j : MatchesAt(p, j)' <=> MatchesAt(p, j)
    BY <1>1, <1>2 DEF MatchesAt
  <1>4. NextOf(p, i)' = NextOf(p, i) BY <1>3 DEF NextOf
  <1>5. \A j : Least(EndRaws(j))' = Least(EndRaws(j))
    BY <1>1 DEF Least, IsLeast
  <1>6. \A j : Least(Closers(j))' = Least(Closers(j))
    BY <1>2 DEF Least, IsLeast
  <1>7. Least(NextOf(p, i))' = Least(NextOf(p, i))
    BY <1>4 DEF Least, IsLeast
  <1>8. \A j : MatchEnd(p, j)' = MatchEnd(p, j)
    BY <1>5, <1>6 DEF MatchEnd
  <1>9. MatchEnd(p, Least(NextOf(p, i)))' = MatchEnd(p, Least(NextOf(p, i)))
    BY <1>7, <1>8
  <1> QED BY <1>4, <1>7, <1>9 DEF Search

LEMMA SearchesAreFixed ==
    ASSUME UNCHANGED text PROVE Searches' = Searches /\ Positions' = Positions
  <1>1. Positions' = Positions BY DEF Positions
  <1>2. \A p, i : Search(p, i)' = Search(p, i) BY SearchIsFixed
  <1> QED BY <1>1, <1>2 DEF Searches

\* Searching keeps the entries right, and their types.
LEMMA SearchesKeepCache ==
    ASSUME LexInv, Searched, UNCHANGED text
    PROVE  /\ CacheInv'
           /\ cache' \in [DOMAIN Patterns -> [from : Nat, match : Matches]]
  <1> SUFFICES ASSUME NEW p \in DOMAIN Patterns
               PROVE  /\ cache'[p] # NeverSearched =>
                            /\ cache'[p].from \in Positions
                            /\ cache'[p].match = Searches[p][cache'[p].from]
                      /\ cache'[p] \in [from : Nat, match : Matches]
    <2>1. cache' = [q \in DOMAIN Patterns |-> cache'[q]] BY DEF Searched, CacheAfter
    <2>2. Searches' = Searches /\ Positions' = Positions BY SearchesAreFixed
    <2> QED BY <2>1, <2>2 DEF CacheInv
  <1>2. \/ cache'[p] = cache[p]
        \/ cache'[p] = [from |-> pos, match |-> Search(p, pos)]
    BY DEF Searched, CacheAfter
  <1>3. CASE cache'[p] = cache[p]
    BY <1>3 DEF LexInv, LexTypeOK, CacheInv
  <1>4. CASE cache'[p] = [from |-> pos, match |-> Search(p, pos)]
    <2>1. pos \in Positions /\ pos \in Nat
      BY LexFacts
    <2>2. Search(p, pos) \in Matches
      BY <2>1, SearchTypes, LexFacts
    <2> QED BY <1>4, <2>1, <2>2 DEF Searches
  <1> QED BY <1>2, <1>3, <1>4

\* A step that searches and then only moves keeps the invariant.
LEMMA MovesKeepInv ==
    ASSUME LexInv, Searched,
           NEW to \in Positions, NEW next \in DOMAIN Wanted \cup {"end", "eof error"},
           Advance(to, next),
           opened' \in 0 .. Len(text), TagInHand',
           tags' \in Seq([name : STRING, start : Nat, end : Nat])
    PROVE  LexInv'
  <1>1. text' = text BY DEF Advance
  <1>2. CacheInv' /\ cache' \in [DOMAIN Patterns -> [from : Nat, match : Matches]]
    BY <1>1, SearchesKeepCache
  <1>3. text' \in Texts /\ pos' \in Positions' /\ pc' \in DOMAIN Wanted \cup {"end", "eof error"}
    BY <1>1 DEF Advance, LexInv, LexTypeOK, Positions
  <1>4. LexTypeOK'
    BY <1>1, <1>2, <1>3 DEF LexTypeOK
  <1> QED BY <1>2, <1>4 DEF LexInv

LEMMA InitLexInv == Init => LexInv
  <1> SUFFICES ASSUME Init PROVE LexInv
    OBVIOUS
  <1>1. Len(text) \in Nat BY TextIsSeq DEF Init
  <1>2. NeverSearched \in [from : Nat, match : Matches]
    BY DEF NeverSearched, NoMatch, Matches
  <1>3. LexTypeOK BY <1>1, <1>2 DEF Init, LexTypeOK, Positions, Wanted
  <1>4. CacheInv /\ TagInHand BY DEF Init, CacheInv, TagInHand
  <1> QED BY <1>3, <1>4 DEF LexInv

-----------------------------------------------------------------------------
(* Each step keeps the invariant                                           *)

\* The tag in hand is added.
LEMMA YieldKeepsInv ==
    ASSUME LexInv, Searched, NEW end \in Positions, opened # 0, Yield(end)
    PROVE  LexInv'
  <1>1. /\ Len(text) \in Nat /\ text \in Seq(STRING) /\ opened \in 0 .. Len(text)
        /\ tags \in Seq([name : STRING, start : Nat, end : Nat])
    BY LexFacts
  <1>2. text[opened] \in STRING /\ opened \in Nat BY <1>1
  <1>3. end \in Nat BY <1>1 DEF Positions
  <1>4. Tag(text[opened], opened, end) \in [name : STRING, start : Nat, end : Nat]
    BY <1>2, <1>3 DEF Tag
  <1>5. tags' \in Seq([name : STRING, start : Nat, end : Nat])
    BY <1>1, <1>4 DEF Yield
  <1>6. opened' \in 0 .. Len(text) /\ Advance(end, "tags") BY <1>1 DEF Yield
  <1>7. "tags" \in DOMAIN Wanted /\ TagInHand'
    BY <1>6 DEF Wanted, Advance, TagInHand
  <1> QED BY <1>5, <1>6, <1>7, MovesKeepInv

\* A step of find_tags, or of a handler, that leaves the tag in hand alone.
LEMMA PlainMoves ==
    ASSUME LexInv, Searched, UNCHANGED <<opened, tags>>,
           NEW to \in Positions, NEW next \in DOMAIN Wanted \cup {"end", "eof error"},
           Advance(to, next),
           next \in {"close", "closeString", "raw"} => pc \in {"close", "closeString", "raw"}
    PROVE  LexInv'
  <1>1. opened' \in 0 .. Len(text) /\ tags' \in Seq([name : STRING, start : Nat, end : Nat])
    BY LexFacts
  <1>2. TagInHand' BY DEF Advance, TagInHand, LexInv
  <1> QED BY <1>1, <1>2, MovesKeepInv

LEMMA NextLexInv == LexInv /\ [LexNext]_lexVars => LexInv'
  <1> SUFFICES ASSUME LexInv, [LexNext]_lexVars PROVE LexInv'
    OBVIOUS
  <1>0. DOMAIN Wanted = {"tags", "comment", "expr", "exprString", "close", "closeString", "raw"}
    BY DEF Wanted
  <1>1. /\ pos \in Positions /\ pos \in Nat /\ pos >= 1 /\ Len(text) \in Nat
        /\ opened \in 0 .. Len(text)
        /\ tags \in Seq([name : STRING, start : Nat, end : Nat])
    BY LexFacts
  <1>2. ASSUME NEW place \in DOMAIN Wanted, NEW p, Finds(place, p)
        PROVE  /\ Searched /\ pc = place
               /\ SearchFor(p).start \in 1 .. Len(text) /\ SearchFor(p).start \in Positions
               /\ SearchFor(p).end \in 2 .. Len(text) + 1
               /\ SearchFor(p).end \in Positions /\ SearchFor(p).end - 1 \in Positions
    <2>1. Searched /\ pc = place BY <1>2 DEF Finds
    <2>2. /\ SearchFor(p).start \in pos .. Len(text)
          /\ SearchFor(p).end \in pos + 1 .. Len(text) + 1
      BY <1>2, FoundMatches
    <2> QED BY <1>1, <2>1, <2>2 DEF Positions
  <1>3. CASE NoMoreTags
    BY <1>0, <1>1, <1>3, PlainMoves DEF NoMoreTags
  <1>4. CASE Missing
    BY <1>0, <1>1, <1>4, PlainMoves DEF Missing
  <1>5. CASE CommentStart
    <2>1. Finds("tags", "comment") BY <1>5 DEF CommentStart
    <2> QED BY <1>0, <1>2, <1>5, <2>1, PlainMoves DEF CommentStart
  <1>6. CASE CommentEnd
    <2>1. Finds("comment", "commentEnd") BY <1>6 DEF CommentEnd
    <2> QED BY <1>0, <1>2, <1>6, <2>1, PlainMoves DEF CommentEnd
  <1>7. CASE ExprStart
    <2>1. Finds("tags", "expr") BY <1>7 DEF ExprStart
    <2> QED BY <1>0, <1>2, <1>7, <2>1, PlainMoves DEF ExprStart
  <1>8. CASE ExprEnd
    <2>1. Finds("expr", "exprEnd") BY <1>8 DEF ExprEnd
    <2> QED BY <1>0, <1>2, <1>8, <2>1, PlainMoves DEF ExprEnd
  <1>9. CASE ExprQuote
    <2>1. Finds("expr", "quote") BY <1>9 DEF ExprQuote
    <2> QED BY <1>0, <1>1, <1>2, <1>9, <2>1, PlainMoves DEF ExprQuote
  <1>10. CASE ExprString
    <2>1. Finds("exprString", "string") BY <1>10 DEF ExprString
    <2> QED BY <1>0, <1>2, <1>10, <2>1, PlainMoves DEF ExprString
  <1>11. CASE TagStart
    <2>1. Finds("tags", "block") BY <1>11 DEF TagStart
    <2>2. /\ Searched /\ SearchFor("block").end \in Positions
          /\ SearchFor("block").start \in 1 .. Len(text)
      BY <1>0, <1>2, <2>1
    <2>3. /\ opened' = SearchFor("block").start /\ tags' = tags
          /\ Advance(SearchFor("block").end, "close")
      BY <1>11 DEF TagStart
    <2>4. opened' \in 0 .. Len(text) /\ TagInHand'
      BY <1>1, <2>2, <2>3 DEF TagInHand
    <2> QED BY <1>0, <1>1, <2>2, <2>3, <2>4, MovesKeepInv
  <1>12. CASE RawStart
    <2>1. Finds("tags", "block") BY <1>12 DEF RawStart
    <2>2. /\ Searched /\ SearchFor("block").start \in Positions
          /\ SearchFor("block").start \in 1 .. Len(text)
      BY <1>0, <1>2, <2>1
    <2>3. /\ opened' = SearchFor("block").start /\ tags' = tags
          /\ Advance(SearchFor("block").start, "raw")
      BY <1>12 DEF RawStart
    <2>4. opened' \in 0 .. Len(text) /\ TagInHand'
      BY <1>1, <2>2, <2>3 DEF TagInHand
    <2> QED BY <1>0, <1>1, <2>2, <2>3, <2>4, MovesKeepInv
  <1>13. CASE RawEnd
    <2>1. Finds("raw", "raw") BY <1>13 DEF RawEnd
    <2>2. opened # 0 BY <2>1 DEF Finds, LexInv, TagInHand
    <2> QED BY <1>0, <1>2, <1>13, <2>1, <2>2, YieldKeepsInv DEF RawEnd
  <1>14. CASE TagClose
    <2>1. Finds("close", "close") BY <1>14 DEF TagClose
    <2>2. opened # 0 BY <2>1 DEF Finds, LexInv, TagInHand
    <2> QED BY <1>0, <1>2, <1>14, <2>1, <2>2, YieldKeepsInv DEF TagClose
  <1>15. CASE CloseQuote
    <2>1. Finds("close", "quote") BY <1>15 DEF CloseQuote
    <2> QED BY <1>0, <1>2, <1>15, <2>1, PlainMoves DEF CloseQuote
  <1>16. CASE CloseString
    <2>1. Finds("closeString", "string") BY <1>16 DEF CloseString
    <2> QED BY <1>0, <1>2, <1>16, <2>1, PlainMoves DEF CloseString
  <1>17. CASE UNCHANGED lexVars
    <2>1. Searches' = Searches /\ Positions' = Positions
      BY <1>17, SearchesAreFixed DEF lexVars
    <2> QED BY <1>17, <2>1 DEF lexVars, LexInv, LexTypeOK, CacheInv, TagInHand
  <1> QED
    BY <1>3, <1>4, <1>5, <1>6, <1>7, <1>8, <1>9, <1>10, <1>11, <1>12, <1>13, <1>14, <1>15,
       <1>16, <1>17 DEF LexNext

-----------------------------------------------------------------------------
\* Type correctness of the tag search, for any texts and names.
THEOREM TypeCorrect == LexSpec => []LexTypeOK
  <1>1. LexInv => LexTypeOK BY DEF LexInv
  <1> QED BY <1>1, InitLexInv, NextLexInv, PTL DEF LexSpec

\* The invariant CacheIsTransparent: a cached search finds what a fresh one
\* would, for any texts, whatever was advanced past or rewound to.
THEOREM CacheTransparent == LexSpec => []CacheIsTransparent
  <1>1. LexInv => CacheIsTransparent BY CacheAnswers DEF CacheIsTransparent
  <1> QED BY <1>1, InitLexInv, NextLexInv, PTL DEF LexSpec

-----------------------------------------------------------------------------
(* The order of the tags                                                   *)

\* The tags found are in order and behind pos; the tag in hand is after them.
TagsInOrder ==
    /\ \A i \in DOMAIN tags :
          1 <= tags[i].start /\ tags[i].start < tags[i].end /\ tags[i].end <= pos
    /\ \A i, j \in DOMAIN tags : i < j => tags[i].end <= tags[j].start
    /\ pc \in {"close", "closeString", "raw"} =>
          opened <= pos /\ \A i \in DOMAIN tags : tags[i].end <= opened

\* A tag has a name and two positions.
LEMMA TagPositions ==
    ASSUME tags \in Seq([name : STRING, start : Nat, end : Nat])
    PROVE  \A i \in DOMAIN tags :
              tags[i].name \in STRING /\ tags[i].start \in Nat /\ tags[i].end \in Nat
  <1>1. \A i \in DOMAIN tags : tags[i] \in [name : STRING, start : Nat, end : Nat]
    BY ElementOfSeq, LenProperties
  <1> QED BY <1>1

\* The position moves on, and a tag that is taken in hand starts behind it.
LEMMA MovesKeepOrder ==
    ASSUME LexInv, TagsInOrder, UNCHANGED tags, pos' \in Nat, pos <= pos',
           \/ UNCHANGED opened /\ pc \in {"close", "closeString", "raw"}
           \/ opened' \in pos .. pos'
           \/ pc' \notin {"close", "closeString", "raw"}
    PROVE  TagsInOrder'
  <1>1. /\ pos \in Nat /\ opened \in Nat
        /\ tags \in Seq([name : STRING, start : Nat, end : Nat])
    BY LexFacts
  <1>2. \A i \in DOMAIN tags : tags[i].start \in Nat /\ tags[i].end \in Nat
    BY <1>1, TagPositions
  <1>3. \A i \in DOMAIN tags :
          1 <= tags[i].start /\ tags[i].start < tags[i].end /\ tags[i].end <= pos'
    BY <1>1, <1>2 DEF TagsInOrder
  <1>4. \A i, j \in DOMAIN tags : i < j => tags[i].end <= tags[j].start
    BY DEF TagsInOrder
  <1>5. pc' \in {"close", "closeString", "raw"} =>
          opened' <= pos' /\ \A i \in DOMAIN tags : tags[i].end <= opened'
    BY <1>1, <1>2 DEF TagsInOrder
  <1> QED BY <1>3, <1>4, <1>5 DEF TagsInOrder

\* A tag that is yielded comes after the others, and before pos.
LEMMA YieldKeepsOrder ==
    ASSUME LexInv, TagsInOrder, NEW end \in Nat, pos < end, Yield(end),
           pc \in {"close", "closeString", "raw"}
    PROVE  TagsInOrder' /\ \E x : tags' = Append(tags, x)
  <1>1. /\ pos \in Nat /\ opened \in Nat /\ opened # 0
        /\ tags \in Seq([name : STRING, start : Nat, end : Nat])
    BY LexFacts DEF LexInv, TagInHand
  <1>2. PICK x : x = Tag(text[opened], opened, end) OBVIOUS
  <1>3. x.start = opened /\ x.end = end BY <1>2 DEF Tag
  <1>4. tags' = Append(tags, x) /\ pos' = end /\ pc' = "tags"
    BY <1>2 DEF Yield, Advance
  <1>5. Len(tags) \in Nat /\ DOMAIN tags = 1 .. Len(tags) BY <1>1
  <1>6. /\ DOMAIN tags' = 1 .. Len(tags) + 1
        /\ \A i \in 1 .. Len(tags) : tags'[i] = tags[i]
        /\ tags'[Len(tags) + 1] = x
    BY <1>1, <1>4
  <1>7. \A i \in 1 .. Len(tags) :
          /\ tags[i].start \in Nat /\ tags[i].end \in Nat
          /\ 1 <= tags[i].start /\ tags[i].start < tags[i].end /\ tags[i].end <= opened
    BY <1>1, <1>5, TagPositions DEF TagsInOrder
  <1>8. opened <= pos BY DEF TagsInOrder
  <1>9. \A i, j \in 1 .. Len(tags) : i < j => tags[i].end <= tags[j].start
    BY <1>5 DEF TagsInOrder
  <1>10. \A i \in DOMAIN tags' :
            1 <= tags'[i].start /\ tags'[i].start < tags'[i].end /\ tags'[i].end <= pos'
    BY <1>1, <1>3, <1>4, <1>5, <1>6, <1>7, <1>8
  <1>11. ASSUME NEW i \in DOMAIN tags', NEW j \in DOMAIN tags', i < j
         PROVE  tags'[i].end <= tags'[j].start
    <2>1. i \in 1 .. Len(tags) /\ tags'[i] = tags[i] BY <1>5, <1>6, <1>11
    <2>2. CASE j \in 1 .. Len(tags)
      BY <1>6, <1>9, <1>11, <2>1, <2>2
    <2>3. CASE j = Len(tags) + 1
      BY <1>3, <1>6, <1>7, <2>1, <2>3
    <2> QED BY <1>5, <1>6, <2>2, <2>3
  <1> QED BY <1>4, <1>10, <1>11 DEF TagsInOrder

\* What is found is searched from pos on; none of the positions is passed.
LEMMA NextKeepsOrder ==
    ASSUME LexInv, TagsInOrder, LexNext
    PROVE  /\ TagsInOrder' /\ text' = text
           /\ tags' = tags \/ \E x : tags' = Append(tags, x)
  <1>0. DOMAIN Wanted = {"tags", "comment", "expr", "exprString", "close", "closeString", "raw"}
    BY DEF Wanted
  <1>1. /\ pos \in Positions /\ pos \in Nat /\ pos >= 1 /\ Len(text) \in Nat
        /\ opened \in 0 .. Len(text)
    BY LexFacts
  <1>2. ASSUME NEW place \in DOMAIN Wanted, NEW p, Finds(place, p)
        PROVE  /\ pc = place
               /\ SearchFor(p).start \in Nat /\ pos <= SearchFor(p).start
               /\ SearchFor(p).end \in Nat /\ pos < SearchFor(p).end
    BY <1>1, <1>2, FoundMatches DEF Finds
  <1>3. CASE /\ pos' = pos /\ opened' = opened /\ tags' = tags /\ text' = text
             /\ pc' \in {"end", "eof error"}
    <2>0. pos' = pos BY <1>3
    <2>1. pos' \in Nat /\ pos <= pos' BY <1>1, <2>0
    <2>2. pc' = "end" \/ pc' = "eof error" BY <1>3
    <2>3. pc' \notin {"close", "closeString", "raw"} BY <2>2
    <2> QED BY <1>3, <2>1, <2>3, MovesKeepOrder
  <1>4. ASSUME NEW place \in DOMAIN Wanted, NEW p, Finds(place, p),
               NEW next, UNCHANGED <<opened, tags>>,
               \/ Advance(SearchFor(p).end, next) \/ Advance(pos, next)
               \/ Advance(SearchFor(p).end - 1, next),
               place \notin {"close", "closeString", "raw"} =>
                  next \notin {"close", "closeString", "raw"}
        PROVE  TagsInOrder' /\ text' = text
    <2>1. pos' \in Nat /\ pos <= pos' /\ text' = text /\ pc' = next
      BY <1>1, <1>2, <1>4 DEF Advance
    <2> QED BY <1>2, <1>4, <2>1, MovesKeepOrder
  <1>5. CASE NoMoreTags \/ Missing
    BY <1>3, <1>5 DEF NoMoreTags, Missing, Advance
  <1>6. CASE CommentStart
    <2>1. /\ Finds("tags", "comment") /\ Advance(SearchFor("comment").end, "comment")
          /\ UNCHANGED <<opened, tags>>
      BY <1>6 DEF CommentStart
    <2>2. "tags" \in DOMAIN Wanted
      BY <1>0
    <2> QED BY <1>4, <2>1, <2>2
  <1>7. CASE CommentEnd
    <2>1. /\ Finds("comment", "commentEnd") /\ Advance(SearchFor("commentEnd").end, "tags")
          /\ UNCHANGED <<opened, tags>>
      BY <1>7 DEF CommentEnd
    <2>2. "comment" \in DOMAIN Wanted
      BY <1>0
    <2> QED BY <1>4, <2>1, <2>2
  <1>8. CASE ExprStart
    <2>1. /\ Finds("tags", "expr") /\ Advance(SearchFor("expr").end, "expr")
          /\ UNCHANGED <<opened, tags>>
      BY <1>8 DEF ExprStart
    <2>2. "tags" \in DOMAIN Wanted
      BY <1>0
    <2> QED BY <1>4, <2>1, <2>2
  <1>9. CASE ExprEnd BY <1>0, <1>4, <1>9 DEF ExprEnd
  <1>10. CASE ExprQuote BY <1>0, <1>4, <1>10 DEF ExprQuote
  <1>11. CASE ExprString
    <2>1. Finds("exprString", "string") /\ Advance(SearchFor("string").end, "expr")
          /\ UNCHANGED <<opened, tags>>
      BY <1>11 DEF ExprString
    <2>2. "exprString" \in DOMAIN Wanted BY <1>0
    <2>3. "exprString" \notin {"close", "closeString", "raw"}
          /\ "expr" \notin {"close", "closeString", "raw"}
      OBVIOUS
    <2> QED BY <1>4, <2>1, <2>2, <2>3
  <1>12. CASE TagStart \/ RawStart
    <2>1. Finds("tags", "block") BY <1>12 DEF TagStart, RawStart
    <2>2. /\ opened' = SearchFor("block").start /\ tags' = tags /\ text' = text
          /\ pos' = SearchFor("block").end \/ pos' = SearchFor("block").start
      BY <1>12 DEF TagStart, RawStart, Advance
    <2>3. SearchFor("block").start < SearchFor("block").end
      <3>1. SearchFor("block") # NoMatch /\ "block" \in DOMAIN Patterns
        BY <2>1 DEF Finds, Found, Patterns
      <3>2. SearchFor("block") = Search("block", pos) BY <3>1, CacheAnswers
      <3>3. Matched(pos, SearchFor("block"))
        BY <1>1, <3>1, <3>2, SearchTypes DEF LexInv, LexTypeOK
      <3> QED BY <1>1, <3>3 DEF Matched
    <2>4. /\ SearchFor("block").start \in Nat /\ pos <= SearchFor("block").start
          /\ SearchFor("block").end \in Nat
      BY <1>0, <1>2, <2>1
    <2>5. pos' \in Nat /\ pos <= pos' /\ opened' \in pos .. pos'
      BY <1>1, <2>2, <2>3, <2>4
    <2> QED BY <2>2, <2>5, MovesKeepOrder
  <1>13. CASE RawEnd
    <2>1. Finds("raw", "raw") BY <1>13 DEF RawEnd
    <2> QED BY <1>0, <1>2, <1>13, <2>1, YieldKeepsOrder DEF RawEnd, Yield, Advance
  <1>14. CASE TagClose
    <2>1. Finds("close", "close") BY <1>14 DEF TagClose
    <2> QED BY <1>0, <1>2, <1>14, <2>1, YieldKeepsOrder DEF TagClose, Yield, Advance
  <1>15. CASE CloseQuote BY <1>0, <1>4, <1>15 DEF CloseQuote
  <1>16. CASE CloseString BY <1>0, <1>4, <1>16 DEF CloseString
  <1>17. LexNext => tags' = tags \/ \E x : tags' = Append(tags, x)
    BY DEF LexNext, NoMoreTags, Missing, CommentStart, CommentEnd, ExprStart, ExprEnd, ExprQuote,
           ExprString, TagStart, RawStart, RawEnd, TagClose, CloseQuote, CloseString, Yield
  <1> QED
    BY <1>5, <1>6, <1>7, <1>8, <1>9, <1>10, <1>11, <1>12, <1>13, <1>14, <1>15, <1>16, <1>17
    DEF LexNext

-----------------------------------------------------------------------------
(* Blocks and the data between them                                        *)

BlockNames == STRING \cup {"data"}
Block == [type : BlockNames, from : Nat, to : Nat]

BlockTypes ==
    /\ collect \in BOOLEAN
    /\ handled \in 0 .. Len(tags) /\ current \in 0 .. handled
    /\ last \in Nat
    /\ blocks \in Seq(Block)

\* last_position is no further than the tags handled, nor than the open block;
\* the text is accepted when every tag was handled and no block is open.
Progress ==
    /\ last = 1 \/ \E k \in 1 .. handled : last <= tags[k].end
    /\ current # 0 => last <= tags[current].start
    /\ outcome = "done" => handled = Len(tags) /\ current = 0

EndsAt(bs) == IF bs = <<>> THEN 1 ELSE bs[Len(bs)].to

\* The parts bs are a text from its start, without gaps.
Tiles(bs) ==
    \A i \in DOMAIN bs :
        bs[i].from < bs[i].to /\ bs[i].from = IF i = 1 THEN 1 ELSE bs[i - 1].to

\* If data is collected, the blocks are the text up to last_position, where the
\* open block starts, and in the end the whole text.
TileInv ==
    collect =>
        /\ Tiles(blocks)
        /\ outcome = "running" =>
              last = EndsAt(blocks) /\ (current # 0 => last = tags[current].start)
        /\ outcome = "done" => EndsAt(blocks) = Len(text) + 1

ParseInv == LexInv /\ TagsInOrder /\ BlockTypes /\ Progress /\ TileInv

\* What the steps of find_blocks use of the types and of the order of the tags.
LEMMA ParseFacts ==
    ASSUME ParseInv
    PROVE  /\ Len(text) \in Nat /\ Len(tags) \in Nat /\ DOMAIN tags = 1 .. Len(tags)
           /\ handled \in Nat /\ handled <= Len(tags)
           /\ current \in Nat /\ current <= handled /\ last \in Nat
           /\ \A i \in 1 .. Len(tags) :
                 /\ tags[i].name \in STRING /\ tags[i].start \in Nat /\ tags[i].end \in Nat
                 /\ 1 <= tags[i].start /\ tags[i].start < tags[i].end
                 /\ tags[i].end <= Len(text) + 1
           /\ \A i, j \in 1 .. Len(tags) : i < j => tags[i].end <= tags[j].start
  <1>1. /\ Len(text) \in Nat /\ pos \in Nat /\ pos <= Len(text) + 1
        /\ tags \in Seq([name : STRING, start : Nat, end : Nat])
    BY LexFacts DEF ParseInv, Positions
  <1>2. DOMAIN tags = 1 .. Len(tags) /\ Len(tags) \in Nat BY <1>1
  <1>3. handled \in Nat /\ handled <= Len(tags) /\ current \in Nat /\ current <= handled
        /\ last \in Nat
    BY <1>2 DEF ParseInv, BlockTypes
  <1>4. \A i \in 1 .. Len(tags) :
           tags[i].name \in STRING /\ tags[i].start \in Nat /\ tags[i].end \in Nat
    BY <1>1, <1>2, TagPositions
  <1>5. \A i \in 1 .. Len(tags) :
           1 <= tags[i].start /\ tags[i].start < tags[i].end /\ tags[i].end <= pos
    BY <1>2 DEF ParseInv, TagsInOrder
  <1>6. \A i \in 1 .. Len(tags) : tags[i].end <= Len(text) + 1
    BY <1>1, <1>4, <1>5
  <1>7. \A i, j \in 1 .. Len(tags) : i < j => tags[i].end <= tags[j].start
    BY <1>2 DEF ParseInv, TagsInOrder
  <1> QED BY <1>1, <1>2, <1>3, <1>4, <1>5, <1>6, <1>7

\* last_position is not behind the tags to come, nor behind the end.
LEMMA LastIsBefore ==
    ASSUME ParseInv
    PROVE  /\ \A i \in handled + 1 .. Len(tags) : last <= tags[i].start
           /\ last <= Len(text) + 1
  <1>1. CASE last = 1
    BY <1>1, ParseFacts
  <1>2. ASSUME NEW k \in 1 .. handled, last <= tags[k].end
        PROVE  /\ \A i \in handled + 1 .. Len(tags) : last <= tags[i].start
               /\ last <= Len(text) + 1
    <2>1. k \in 1 .. Len(tags) /\ tags[k].end \in Nat /\ tags[k].end <= Len(text) + 1
      BY ParseFacts
    <2>2. ASSUME NEW i \in handled + 1 .. Len(tags) PROVE last <= tags[i].start
      <3>1. i \in 1 .. Len(tags) /\ k < i BY ParseFacts
      <3>2. tags[k].end <= tags[i].start /\ tags[i].start \in Nat
        BY <2>1, <3>1, ParseFacts
      <3> QED BY <1>2, <2>1, <3>2, ParseFacts
    <2>3. last <= Len(text) + 1 BY <1>2, <2>1, ParseFacts
    <2> QED BY <2>2, <2>3
  <1> QED BY <1>1, <1>2 DEF ParseInv, Progress

\* A part from where the others end on.
LEMMA AppendTiles ==
    ASSUME NEW bs \in Seq(Block), Tiles(bs),
           NEW type \in BlockNames, NEW to \in Nat, EndsAt(bs) < to
    PROVE  LET new == Append(bs, Part(type, EndsAt(bs), to))
           IN  Tiles(new) /\ EndsAt(new) = to
  <1>1. PICK part : part = Part(type, EndsAt(bs), to) OBVIOUS
  <1>2. part.from = EndsAt(bs) /\ part.to = to BY <1>1 DEF Part
  <1>3. PICK new : new = Append(bs, part) OBVIOUS
  <1>4. /\ Len(bs) \in Nat /\ DOMAIN bs = 1 .. Len(bs)
        /\ Len(new) = Len(bs) + 1 /\ DOMAIN new = 1 .. Len(bs) + 1 /\ new # <<>>
        /\ new[Len(bs) + 1] = part
        /\ \A i \in 1 .. Len(bs) : new[i] = bs[i]
    BY <1>3
  <1>5. EndsAt(new) = to BY <1>2, <1>4 DEF EndsAt
  <1>6. ASSUME NEW i \in DOMAIN new
        PROVE  new[i].from < new[i].to /\ new[i].from = IF i = 1 THEN 1 ELSE new[i - 1].to
    <2>1. CASE i \in 1 .. Len(bs)
      <3>1. bs[i].from < bs[i].to /\ bs[i].from = IF i = 1 THEN 1 ELSE bs[i - 1].to
        BY <1>4, <2>1 DEF Tiles
      <3>2. i # 1 => i - 1 \in 1 .. Len(bs) BY <1>4, <2>1
      <3> QED BY <1>4, <2>1, <3>1, <3>2
    <2>2. CASE i = Len(bs) + 1
      <3>1. new[i] = part BY <1>4, <2>2
      <3>2. CASE Len(bs) = 0
        <4>1. EndsAt(bs) = 1 BY <3>2, EmptySeq DEF EndsAt
        <4> QED BY <1>2, <2>2, <3>1, <3>2, <4>1
      <3>3. CASE Len(bs) # 0
        <4>1. EndsAt(bs) = bs[Len(bs)].to BY <3>3, EmptySeq DEF EndsAt
        <4>2. i # 1 /\ i - 1 = Len(bs) /\ new[i - 1] = bs[Len(bs)]
          BY <1>4, <2>2, <3>3
        <4> QED BY <1>2, <3>1, <4>1, <4>2
      <3> QED BY <3>2, <3>3
    <2> QED BY <1>4, <2>1, <2>2
  <1>7. Tiles(new) BY <1>6 DEF Tiles
  <1> QED BY <1>1, <1>3, <1>5, <1>7

\* The data between last_position and a later position.
LEMMA RawDataTiles ==
    ASSUME ParseInv, outcome = "running", NEW to \in Nat, last <= to
    PROVE  /\ WithRawData(to) \in Seq(Block)
           /\ collect => Tiles(WithRawData(to)) /\ EndsAt(WithRawData(to)) = to
  <1>1. blocks \in Seq(Block) /\ last \in Nat BY DEF ParseInv, BlockTypes
  <1>2. collect => Tiles(blocks) /\ last = EndsAt(blocks) BY DEF ParseInv, TileInv
  <1>3. CASE collect /\ last < to
    <2>1. WithRawData(to) = Append(blocks, Part("data", last, to))
      BY <1>3 DEF WithRawData
    <2>2. "data" \in BlockNames BY DEF BlockNames
    <2>3. Part("data", last, to) \in Block BY <1>1, <2>2 DEF Part, Block
    <2>4. Append(blocks, Part("data", last, to)) \in Seq(Block) BY <1>1, <2>3
    <2>5. Tiles(blocks) /\ last = EndsAt(blocks) /\ EndsAt(blocks) < to
      BY <1>2, <1>3
    <2>6. LET new == Append(blocks, Part("data", EndsAt(blocks), to))
          IN  Tiles(new) /\ EndsAt(new) = to
      BY <1>1, <2>2, <2>5, AppendTiles
    <2> QED BY <2>1, <2>4, <2>5, <2>6
  <1>4. CASE ~(collect /\ last < to)
    <2>1. WithRawData(to) = blocks BY <1>4 DEF WithRawData
    <2>2. collect => last = to BY <1>1, <1>4
    <2> QED BY <1>1, <1>2, <2>1, <2>2
  <1> QED BY <1>3, <1>4

-----------------------------------------------------------------------------
(* Each step keeps the invariant                                           *)

\* A step of find_blocks leaves the tags alone.
LEMMA TurnsKeepTags ==
    ASSUME ParseInv, UNCHANGED lexVars PROVE LexInv' /\ TagsInOrder'
  <1>1. LexInv' BY NextLexInv DEF ParseInv
  <1> QED BY <1>1 DEF ParseInv, TagsInOrder, lexVars

\* At the start nothing is handled.
LEMMA InitParseInv == BlockInit => ParseInv
  <1> SUFFICES ASSUME BlockInit PROVE ParseInv
    OBVIOUS
  <1>1. LexInv BY InitLexInv DEF BlockInit
  <1>2. TagsInOrder BY DEF BlockInit, Init, TagsInOrder
  <1>3. BlockTypes BY DEF BlockInit, Init, BlockTypes
  <1>4. Progress /\ TileInv
    BY DEF BlockInit, Progress, TileInv, Tiles, EndsAt
  <1> QED BY <1>1, <1>2, <1>3, <1>4 DEF ParseInv

\* find_tags may add a tag to those that are to be handled.
LEMMA PullKeepsParse ==
    ASSUME ParseInv, Pull
    PROVE  /\ ParseInv' /\ Len(tags) <= Len(tags')
           /\ \A i \in 1 .. Len(tags) : tags'[i] = tags[i]
  <1>1. LexInv' BY NextLexInv DEF Pull, ParseInv
  <1>2. TagsInOrder' /\ text' = text /\ (tags' = tags \/ \E x : tags' = Append(tags, x))
    BY NextKeepsOrder DEF Pull, ParseInv
  <1>3. tags \in Seq([name : STRING, start : Nat, end : Nat]) BY LexFacts DEF ParseInv
  <1>4. Len(tags) \in Nat /\ tags' \in Seq([name : STRING, start : Nat, end : Nat])
    <2>1. LexTypeOK' BY <1>1 DEF LexInv
    <2>2. tags' \in Seq([name : STRING, start : Nat, end : Nat]) BY <2>1 DEF LexTypeOK
    <2> QED BY <1>3, <2>2
  <1>5. Len(tags') \in Nat BY <1>4
  <1>6. Len(tags) <= Len(tags') /\ \A i \in 1 .. Len(tags) : tags'[i] = tags[i]
    <2>1. ASSUME NEW x, tags' = Append(tags, x)
          PROVE  Len(tags') = Len(tags) + 1 /\ \A i \in 1 .. Len(tags) : tags'[i] = tags[i]
      BY <1>3, <2>1
    <2> QED BY <1>2, <1>4, <2>1
  <1>7. UNCHANGED blockVars /\ outcome = "running" BY DEF Pull
  <1>8. BlockTypes' BY <1>4, <1>5, <1>6, <1>7 DEF ParseInv, BlockTypes, blockVars
  <1>9. \A k \in 1 .. handled : tags'[k] = tags[k]
    BY <1>6, ParseFacts
  <1>10. current # 0 => current \in 1 .. handled BY ParseFacts
  <1>11. Progress' BY <1>7, <1>9, <1>10 DEF ParseInv, Progress, blockVars
  <1>12. TileInv' BY <1>2, <1>7, <1>9, <1>10 DEF ParseInv, TileInv, Tiles, EndsAt, blockVars
  <1> QED BY <1>1, <1>2, <1>6, <1>8, <1>11, <1>12 DEF ParseInv

\* After an error the blocks stay as they are.
LEMMA RaisesKeepParse ==
    ASSUME ParseInv, NEW error, error \notin {"running", "done"},
           UNCHANGED <<lexVars, collect>>, RaiseError(error)
    PROVE  ParseInv'
  <1>1. /\ UNCHANGED <<handled, current, stack, last, blocks, warned>>
        /\ UNCHANGED <<text, tags, collect>>
        /\ outcome' # "running" /\ outcome' # "done"
    BY DEF RaiseError, lexVars
  <1>2. LexInv' /\ TagsInOrder' BY TurnsKeepTags
  <1>3. BlockTypes' BY <1>1 DEF ParseInv, BlockTypes
  <1>4. Progress' BY <1>1 DEF ParseInv, Progress
  <1>5. TileInv' BY <1>1 DEF ParseInv, TileInv, Tiles
  <1> QED BY <1>2, <1>3, <1>4, <1>5 DEF ParseInv

\* The tag in turn is behind those handled.
LEMMA TurnFacts ==
    ASSUME ParseInv, Turn
    PROVE  /\ handled + 1 \in 1 .. Len(tags) /\ tag = tags[handled + 1]
           /\ tag.name \in STRING /\ tag.start \in Nat /\ tag.end \in Nat
           /\ tag.start < tag.end /\ last <= tag.start
           /\ outcome = "running" /\ UNCHANGED <<text, tags, collect>>
           /\ LexInv' /\ TagsInOrder'
  <1>1. handled + 1 \in 1 .. Len(tags) /\ handled + 1 \in handled + 1 .. Len(tags)
    BY ParseFacts DEF Turn
  <1>2. UNCHANGED <<lexVars, collect>> /\ outcome = "running" BY DEF Turn
  <1> QED BY <1>1, <1>2, ParseFacts, LastIsBefore, TurnsKeepTags DEF tag, lexVars

\* The start of a block, and the data before it.
LEMMA StartKeepsParse == ASSUME ParseInv, StartBlock PROVE ParseInv'
  <1>0. Turn /\ Handled /\ current = 0 BY DEF StartBlock
  <1>1. /\ handled' = handled + 1 /\ current' = handled + 1 /\ outcome' = "running"
        /\ last' = IF collect THEN tag.start ELSE last
        /\ blocks' = WithRawData(tag.start) /\ UNCHANGED <<text, tags, collect>>
        /\ tags'[handled + 1] = tag
    BY <1>0, TurnFacts DEF StartBlock, Handled
  <1>2. /\ handled \in Nat /\ handled + 1 \in 1 .. Len(tags) /\ last \in Nat
        /\ tag.start \in Nat /\ tag.end \in Nat /\ tag.start < tag.end /\ last <= tag.start
    BY <1>0, TurnFacts, ParseFacts
  <1>3. blocks' \in Seq(Block) /\ (collect => Tiles(blocks') /\ EndsAt(blocks') = tag.start)
    BY <1>0, <1>1, <1>2, TurnFacts, RawDataTiles
  <1>4. BlockTypes' BY <1>1, <1>2, <1>3 DEF ParseInv, BlockTypes
  <1>5. Progress'
    <2>1. handled' \in 1 .. handled' /\ last' <= tags'[handled'].end
      BY <1>1, <1>2
    <2>2. last' <= tags'[current'].start BY <1>1, <1>2
    <2> QED BY <1>1, <2>1, <2>2 DEF Progress
  <1>6. TileInv' BY <1>1, <1>3 DEF TileInv, Tiles
  <1> QED BY <1>0, <1>4, <1>5, <1>6, TurnFacts DEF ParseInv

\* The end of the open block.
LEMMA EndKeepsParse == ASSUME ParseInv, EndBlock PROVE ParseInv'
  <1>0. Turn /\ Handled /\ current # 0 BY DEF EndBlock, EndsCurrent
  <1>1. PICK part : part = Part(tags[current].name, tags[current].start, tag.end) OBVIOUS
  <1>2. /\ handled' = handled + 1 /\ current' = 0 /\ outcome' = "running"
        /\ last' = tag.end /\ blocks' = Append(blocks, part)
        /\ UNCHANGED <<text, tags, collect>> /\ tags'[handled + 1] = tag
    BY <1>0, <1>1, TurnFacts DEF EndBlock, Handled
  <1>3. /\ handled \in Nat /\ handled + 1 \in 1 .. Len(tags)
        /\ tag.start \in Nat /\ tag.end \in Nat /\ tag.start < tag.end
        /\ tags[handled + 1] = tag
    BY <1>0, TurnFacts, ParseFacts
  <1>4. /\ current \in 1 .. Len(tags) /\ current < handled + 1
        /\ tags[current].name \in STRING /\ tags[current].start \in Nat
        /\ tags[current].end \in Nat /\ tags[current].start < tags[current].end
    BY <1>0, ParseFacts
  <1>5. tags[current].end <= tag.start
    BY <1>3, <1>4, ParseFacts
  <1>6. tags[current].start < tag.end BY <1>3, <1>4, <1>5
  <1>7. part \in Block BY <1>1, <1>3, <1>4 DEF Part, Block, BlockNames
  <1>8. blocks \in Seq(Block) BY DEF ParseInv, BlockTypes
  <1>9. BlockTypes' BY <1>2, <1>3, <1>7, <1>8 DEF ParseInv, BlockTypes
  <1>10. Progress'
    <2>1. handled' \in 1 .. handled' /\ last' <= tags'[handled'].end
      BY <1>2, <1>3
    <2> QED BY <1>2, <2>1 DEF Progress
  <1>11. TileInv'
    <2>1. SUFFICES ASSUME collect PROVE Tiles(blocks') /\ last' = EndsAt(blocks')
      BY <1>2 DEF TileInv, Tiles
    <2>2. Tiles(blocks) /\ tags[current].start = EndsAt(blocks)
      BY <1>0, <2>1, TurnFacts DEF ParseInv, TileInv
    <2>3. LET new == Append(blocks, Part(tags[current].name, EndsAt(blocks), tag.end))
          IN  Tiles(new) /\ EndsAt(new) = tag.end
      BY <1>3, <1>4, <1>6, <1>8, <2>2, AppendTiles DEF BlockNames
    <2> QED BY <1>1, <1>2, <2>2, <2>3
  <1> QED BY <1>0, <1>9, <1>10, <1>11, TurnFacts DEF ParseInv

\* A tag that starts and ends nothing.
LEMMA OtherKeepsParse == ASSUME ParseInv, OtherTag PROVE ParseInv'
  <1>0. Turn /\ Handled BY DEF OtherTag
  <1>1. /\ handled' = handled + 1 /\ outcome' = "running"
        /\ UNCHANGED <<current, last, blocks, text, tags, collect>>
    BY <1>0, TurnFacts DEF OtherTag, Handled
  <1>2. handled \in Nat /\ handled + 1 \in 1 .. Len(tags) /\ outcome = "running"
    BY <1>0, TurnFacts, ParseFacts
  <1>3. BlockTypes' BY <1>1, <1>2 DEF ParseInv, BlockTypes
  <1>4. Progress' BY <1>1, <1>2 DEF ParseInv, Progress
  <1>5. TileInv' BY <1>1, <1>2 DEF ParseInv, TileInv, Tiles
  <1> QED BY <1>0, <1>3, <1>4, <1>5, TurnFacts DEF ParseInv

\* The end of the text, and the data before it.
LEMMA FinishKeepsParse == ASSUME ParseInv, Finish PROVE ParseInv'
  <1>1. /\ blocks' = WithRawData(Len(text) + 1) /\ outcome' = "done" /\ outcome = "running"
        /\ handled = Len(tags) /\ current = 0
        /\ UNCHANGED <<handled, current, stack, last, warned, lexVars, collect>>
    BY DEF Finish, AtEnd
  <1>2. UNCHANGED <<text, tags>> BY <1>1 DEF lexVars
  <1>3. LexInv' /\ TagsInOrder' BY <1>1, TurnsKeepTags
  <1>4. /\ blocks' \in Seq(Block)
        /\ collect => Tiles(blocks') /\ EndsAt(blocks') = Len(text) + 1
    BY <1>1, LastIsBefore, ParseFacts, RawDataTiles
  <1>5. BlockTypes' BY <1>1, <1>2, <1>4 DEF ParseInv, BlockTypes
  <1>6. Progress' BY <1>1, <1>2 DEF ParseInv, Progress
  <1>7. TileInv' BY <1>1, <1>2, <1>4 DEF TileInv, Tiles
  <1> QED BY <1>3, <1>5, <1>6, <1>7 DEF ParseInv

\* Every step of lexer and blocks keeps the invariant.
LEMMA NextParseInv == ParseInv /\ [BlockNext]_allVars => ParseInv'
  <1> SUFFICES ASSUME ParseInv, [BlockNext]_allVars PROVE ParseInv'
    OBVIOUS
  <1>1. CASE Pull BY <1>1, PullKeepsParse
  <1>2. CASE RaiseControlFlow BY <1>2, RaisesKeepParse DEF RaiseControlFlow, Turn
  <1>3. CASE RaiseNotAtTop BY <1>3, RaisesKeepParse DEF RaiseNotAtTop, Turn
  <1>4. CASE RaiseNested BY <1>4, RaisesKeepParse DEF RaiseNested, Turn
  <1>5. CASE StartBlock BY <1>5, StartKeepsParse
  <1>6. CASE EndBlock BY <1>6, EndKeepsParse
  <1>7. CASE OtherTag BY <1>7, OtherKeepsParse
  <1>8. CASE RaiseNotClosed BY <1>8, RaisesKeepParse DEF RaiseNotClosed, AtEnd
  <1>9. CASE Finish BY <1>9, FinishKeepsParse
  <1>10. CASE LexError BY <1>10, RaisesKeepParse DEF LexError
  <1>11. CASE UNCHANGED allVars
    <2>1. UNCHANGED lexVars /\ UNCHANGED blockVars BY <1>11 DEF allVars
    <2>2. LexInv' /\ TagsInOrder' BY <2>1, TurnsKeepTags
    <2>3. UNCHANGED <<text, tags>> /\ UNCHANGED <<collect, handled, current, last, blocks, outcome>>
      BY <2>1 DEF lexVars, blockVars
    <2>4. BlockTypes' BY <2>3 DEF ParseInv, BlockTypes
    <2>5. Progress' BY <2>3 DEF ParseInv, Progress
    <2>6. TileInv' BY <2>3 DEF ParseInv, TileInv, Tiles
    <2> QED BY <2>2, <2>4, <2>5, <2>6 DEF ParseInv
  <1> QED
    BY <1>1, <1>2, <1>3, <1>4, <1>5, <1>6, <1>7, <1>8, <1>9, <1>10, <1>11 DEF BlockNext

\* The invariant BlocksTileText: with collect_raw_data the blocks and the data
\* between them are the text, without gaps, overlaps or empty parts, for any
\* texts, names of tags and names of blocks.
THEOREM TextIsTiled == BlockSpec => []BlocksTileText
  <1>1. ParseInv => BlocksTileText
    <2> SUFFICES ASSUME ParseInv, outcome = "done", collect PROVE BlocksTileText
      BY DEF BlocksTileText
    <2>1. Tiles(blocks) /\ EndsAt(blocks) = Len(text) + 1 BY DEF ParseInv, TileInv
    <2>2. blocks \in Seq(Block) BY DEF ParseInv, BlockTypes
    <2>3. \A b \in ToSet(blocks) : b.from < b.to BY <2>1 DEF Tiles, ToSet
    <2>4. text # <<>> => blocks # <<>>
      <3>1. text \in Seq(STRING) BY LexFacts DEF ParseInv
      <3>2. text # <<>> => Len(text) # 0 BY <3>1, EmptySeq
      <3> QED BY <2>1, <3>1, <3>2 DEF EndsAt
    <2>5. blocks # <<>> => Last(blocks).to = Len(text) + 1
      BY <2>1 DEF EndsAt, Last
    <2> QED BY <2>1, <2>3, <2>4, <2>5 DEF Tiles, BlocksTileText
  <1> QED BY <1>1, InitParseInv, NextParseInv, PTL DEF BlockSpec

-----------------------------------------------------------------------------
(* Blocks and the tags they are made of                                    *)

\* Tag j is the first after tag i that ends a block of its name.
FirstEnd(i, j) ==
    /\ i < j /\ tags[j].name = EndTag[tags[i].name]
    /\ \A k \in i + 1 .. j - 1 : tags[k].name # EndTag[tags[i].name]

\* The allowed tags among the first n with their ends.
Pairs(n) ==
    {p \in (1 .. n) \X (1 .. n) : tags[p[1]].name \in Allowed /\ FirstEnd(p[1], p[2])}

BlockOf(p) == Part(tags[p[1]].name, tags[p[1]].start, tags[p[2]].end)
TagBlocks(bs) == {b \in ToSet(bs) : b.type # "data"}

\* Of the first n tags, those that are in no block, nor in the open one.
Outside(n) ==
    {k \in 1 .. n : /\ current = 0 \/ k < current
                    /\ \A p \in Pairs(n) : ~(p[1] <= k /\ k <= p[2])}

\* The open block is that of an allowed tag whose end is to come; the end of
\* every other allowed tag was handled, and makes a block; the tags in no block
\* were warned of.
PairInv ==
    /\ current # 0 =>
          /\ tags[current].name \in Allowed
          /\ \A j \in current + 1 .. handled : tags[j].name # EndTag[tags[current].name]
    /\ \A i \in 1 .. handled :
          tags[i].name \in Allowed /\ i # current => \E j \in 1 .. handled : FirstEnd(i, j)
    /\ TagBlocks(blocks) = {BlockOf(p) : p \in Pairs(handled)}
    /\ warned = {tags[k] : k \in Outside(handled)}

\* The parts bs are in order and end at a position, or before.
InOrder(bs, to) ==
    /\ \A i \in DOMAIN bs : bs[i].to <= to
    /\ \A i, j \in DOMAIN bs : i < j => bs[i].to <= bs[j].from

OrderInv == \E to \in Nat : InOrder(blocks, to) /\ (outcome = "running" => to = last)

\* A tag has one first end.
LEMMA FirstEndIsUnique ==
    ASSUME NEW i \in Nat, NEW j \in Nat, NEW k \in Nat, FirstEnd(i, j), FirstEnd(i, k)
    PROVE  j = k
  <1>1. ASSUME NEW l \in Nat, NEW m \in Nat, FirstEnd(i, l), FirstEnd(i, m) PROVE ~(l < m)
    <2>1. SUFFICES ASSUME l < m PROVE FALSE
      OBVIOUS
    <2>2. l \in i + 1 .. m - 1 BY <1>1, <2>1 DEF FirstEnd
    <2> QED BY <1>1, <2>2 DEF FirstEnd
  <1>2. ~(j < k) /\ ~(k < j) BY <1>1
  <1> QED BY <1>2

\* A tag and its end are in order.
LEMMA PairFacts ==
    ASSUME NEW n \in Nat, NEW p \in Pairs(n)
    PROVE  /\ p[1] \in 1 .. n /\ p[2] \in 1 .. n /\ p[1] < p[2] /\ p = <<p[1], p[2]>>
           /\ tags[p[1]].name \in Allowed /\ FirstEnd(p[1], p[2])
  BY DEF Pairs, FirstEnd

\* The next tag pairs only with the tag of the open block.
LEMMA NextPairs ==
    ASSUME ParseInv, PairInv, handled < Len(tags)
    PROVE  /\ Pairs(handled) \subseteq Pairs(handled + 1)
           /\ \A p \in Pairs(handled + 1) \ Pairs(handled) :
                 p = <<current, handled + 1>> /\ current # 0
                 /\ tags[handled + 1].name = EndTag[tags[current].name]
  <1>1. handled \in Nat /\ handled + 1 \in Nat BY ParseFacts
  <1>2. Pairs(handled) \subseteq Pairs(handled + 1)
    BY <1>1 DEF Pairs
  <1>3. ASSUME NEW p \in Pairs(handled + 1), p \notin Pairs(handled)
        PROVE  p = <<current, handled + 1>> /\ current # 0
               /\ tags[handled + 1].name = EndTag[tags[current].name]
    <2>1. /\ p[1] \in 1 .. handled + 1 /\ p[2] \in 1 .. handled + 1 /\ p[1] < p[2]
          /\ p = <<p[1], p[2]>> /\ tags[p[1]].name \in Allowed /\ FirstEnd(p[1], p[2])
      BY <1>1, PairFacts
    <2>2. p[2] = handled + 1
      <3>1. p[2] \in 1 .. handled => p \in Pairs(handled)
        BY <1>1, <2>1 DEF Pairs
      <3> QED BY <1>1, <1>3, <2>1, <3>1
    <2>3. p[1] \in 1 .. handled BY <1>1, <2>1, <2>2
    <2>4. p[1] = current
      <3>1. SUFFICES ASSUME p[1] # current PROVE FALSE
        OBVIOUS
      <3>2. PICK j \in 1 .. handled : FirstEnd(p[1], j)
        BY <2>1, <2>3, <3>1 DEF PairInv
      <3>3. j = p[2] BY <1>1, <2>1, <2>3, <3>2, FirstEndIsUnique
      <3> QED BY <1>1, <2>2, <3>3
    <2> QED BY <2>1, <2>2, <2>3, <2>4 DEF FirstEnd
  <1> QED BY <1>2, <1>3

\* Pairs and their blocks depend on the tags counted only.
LEMMA PairsAreFixed ==
    ASSUME NEW n \in Nat, \A i \in 1 .. n : tags'[i] = tags[i]
    PROVE  /\ Pairs(n)' = Pairs(n)
           /\ \A p \in Pairs(n) : BlockOf(p)' = BlockOf(p)
           /\ {BlockOf(p) : p \in Pairs(n)}' = {BlockOf(p) : p \in Pairs(n)}
           /\ \A i, j \in 1 .. n : FirstEnd(i, j)' <=> FirstEnd(i, j)
  <1>1. ASSUME NEW i \in 1 .. n, NEW j \in 1 .. n PROVE FirstEnd(i, j)' <=> FirstEnd(i, j)
    <2>1. \A k \in i + 1 .. j - 1 : k \in 1 .. n OBVIOUS
    <2>2. \A k \in i + 1 .. j - 1 : tags'[k] = tags[k] BY <2>1
    <2>3. tags'[i] = tags[i] /\ tags'[j] = tags[j] OBVIOUS
    <2> QED BY <2>2, <2>3 DEF FirstEnd
  <1>2. Pairs(n)' = Pairs(n)
    <2>1. \A p \in (1 .. n) \X (1 .. n) :
            /\ tags'[p[1]] = tags[p[1]]
            /\ FirstEnd(p[1], p[2])' <=> FirstEnd(p[1], p[2])
      BY <1>1
    <2> QED BY <2>1 DEF Pairs
  <1>3. \A p \in Pairs(n) : BlockOf(p)' = BlockOf(p)
    <2>1. \A p \in Pairs(n) : p[1] \in 1 .. n /\ p[2] \in 1 .. n BY PairFacts
    <2> QED BY <2>1 DEF BlockOf, Part
  <1> QED BY <1>1, <1>2, <1>3

\* One more part is one more block unless it is data.
LEMMA TagBlocksOfAppend ==
    ASSUME NEW bs \in Seq(Block), NEW b \in Block
    PROVE  TagBlocks(Append(bs, b)) = TagBlocks(bs) \cup (IF b.type = "data" THEN {} ELSE {b})
  <1>1. ToSet(Append(bs, b)) = ToSet(bs) \cup {b} BY AppendProperties DEF ToSet
  <1> QED BY <1>1 DEF TagBlocks

\* A part that starts where the others have ended.
LEMMA AppendInOrder ==
    ASSUME NEW bs \in Seq(Block), NEW b \in Block, NEW from \in Nat, NEW to \in Nat,
           InOrder(bs, from), from <= b.from, b.to <= to, from <= to
    PROVE  InOrder(Append(bs, b), to)
  <1>1. PICK new : new = Append(bs, b) OBVIOUS
  <1>2. /\ Len(bs) \in Nat /\ DOMAIN bs = 1 .. Len(bs) /\ DOMAIN new = 1 .. Len(bs) + 1
        /\ new[Len(bs) + 1] = b /\ \A i \in 1 .. Len(bs) : new[i] = bs[i]
    BY <1>1
  <1>3. /\ b.from \in Nat /\ b.to \in Nat
        /\ \A i \in 1 .. Len(bs) : bs[i].to \in Nat /\ bs[i].to <= from
    <2>1. \A i \in 1 .. Len(bs) : bs[i] \in Block BY <1>2, ElementOfSeq
    <2> QED BY <1>2, <2>1 DEF Block, InOrder
  <1>4. \A i \in DOMAIN new : new[i].to <= to BY <1>2, <1>3
  <1>5. ASSUME NEW i \in DOMAIN new, NEW j \in DOMAIN new, i < j
        PROVE  new[i].to <= new[j].from
    <2>1. i \in 1 .. Len(bs) BY <1>2, <1>5
    <2>2. CASE j \in 1 .. Len(bs) BY <1>2, <1>5, <2>1, <2>2 DEF InOrder
    <2>3. CASE j = Len(bs) + 1 BY <1>2, <1>3, <2>1, <2>3
    <2> QED BY <1>2, <2>2, <2>3
  <1> QED BY <1>1, <1>4, <1>5 DEF InOrder

\* Data adds no block, and is between what is before and what comes.
LEMMA RawDataBetween ==
    ASSUME ParseInv, OrderInv, outcome = "running", NEW to \in Nat, last <= to
    PROVE  TagBlocks(WithRawData(to)) = TagBlocks(blocks) /\ InOrder(WithRawData(to), to)
           /\ (~collect => InOrder(WithRawData(to), last))
  <1>1. blocks \in Seq(Block) /\ last \in Nat BY DEF ParseInv, BlockTypes
  <1>2. InOrder(blocks, last) BY DEF OrderInv
  <1>3. CASE collect /\ last < to
    <2>1. PICK b : b = Part("data", last, to) OBVIOUS
    <2>2. b \in Block /\ b.type = "data" /\ b.from = last /\ b.to = to
      BY <1>1, <2>1 DEF Part, Block, BlockNames
    <2>3. WithRawData(to) = Append(blocks, b) BY <1>3, <2>1 DEF WithRawData
    <2>4. TagBlocks(WithRawData(to)) = TagBlocks(blocks)
      BY <1>1, <2>2, <2>3, TagBlocksOfAppend
    <2>5. last <= b.from /\ b.to <= to BY <1>1, <2>2
    <2> QED BY <1>1, <1>2, <1>3, <2>2, <2>3, <2>4, <2>5, AppendInOrder
  <1>4. CASE ~(collect /\ last < to)
    <2>1. WithRawData(to) = blocks BY <1>4 DEF WithRawData
    <2>2. \A i \in DOMAIN blocks : blocks[i].to \in Nat
      <3>1. \A i \in DOMAIN blocks : blocks[i] \in Block BY <1>1, ElementOfSeq, LenProperties
      <3> QED BY <3>1 DEF Block
    <2>3. InOrder(blocks, to) BY <1>1, <1>2, <2>2 DEF InOrder
    <2> QED BY <1>2, <2>1, <2>3
  <1> QED BY <1>3, <1>4

-----------------------------------------------------------------------------
(* Each step keeps the pairs                                               *)

PairedInv == ParseInv /\ PairInv /\ OrderInv

\* Steps that handle no tag and make no block of one.
LEMMA PairsStay ==
    ASSUME PairedInv, UNCHANGED <<handled, current, warned>>,
           \A i \in 1 .. handled : tags'[i] = tags[i],
           TagBlocks(blocks)' = TagBlocks(blocks)
    PROVE  PairInv'
  <1>1. handled \in Nat /\ current \in 0 .. handled BY ParseFacts DEF PairedInv
  <1>2. PICK n \in Nat : n = handled BY <1>1
  <1>3. handled = n /\ handled' = n /\ current' = current /\ warned' = warned BY <1>2
  <1>4. \A i \in 1 .. n : tags'[i] = tags[i] BY <1>3
  <1>5. /\ Pairs(n)' = Pairs(n)
        /\ {BlockOf(p) : p \in Pairs(n)}' = {BlockOf(p) : p \in Pairs(n)}
        /\ \A i, j \in 1 .. n : FirstEnd(i, j)' <=> FirstEnd(i, j)
    BY <1>4, PairsAreFixed
  <1>6. Outside(n)' = Outside(n) BY <1>3, <1>5 DEF Outside
  <1>7. PairInv BY DEF PairedInv
  <1>8. current # 0 =>
          /\ tags'[current].name \in Allowed
          /\ \A j \in current + 1 .. n : tags'[j].name # EndTag[tags'[current].name]
    <2>1. SUFFICES ASSUME current # 0
                   PROVE  /\ tags'[current].name \in Allowed
                          /\ \A j \in current + 1 .. n :
                                tags'[j].name # EndTag[tags'[current].name]
      OBVIOUS
    <2>2. current \in 1 .. n /\ tags'[current] = tags[current] BY <1>1, <1>3, <1>4, <2>1
    <2>3. \A j \in current + 1 .. n : tags'[j] = tags[j] BY <1>4, <2>2
    <2> QED BY <1>3, <1>7, <2>1, <2>2, <2>3 DEF PairInv
  <1>9. \A i \in 1 .. n :
          tags'[i].name \in Allowed /\ i # current => \E j \in 1 .. n : FirstEnd(i, j)'
    BY <1>3, <1>4, <1>5, <1>7 DEF PairInv
  <1>10. TagBlocks(blocks)' = {BlockOf(p) : p \in Pairs(n)}' BY <1>3, <1>5, <1>7 DEF PairInv
  <1>11. warned' = {tags'[k] : k \in Outside(n)'}
    <2>1. warned = {tags[k] : k \in Outside(n)} BY <1>3, <1>7 DEF PairInv
    <2>2. Outside(n) \subseteq 1 .. n BY DEF Outside
    <2> QED BY <1>3, <1>4, <1>6, <2>1, <2>2
  <1> QED BY <1>3, <1>8, <1>9, <1>10, <1>11 DEF PairInv

\* An error.
LEMMA RaisesKeepPairs ==
    ASSUME PairedInv, NEW error, error \notin {"running", "done"},
           UNCHANGED <<lexVars, collect>>, RaiseError(error)
    PROVE  PairedInv'
  <1>1. /\ UNCHANGED <<handled, current, stack, last, blocks, warned>>
        /\ UNCHANGED <<text, tags, collect>>
        /\ outcome' # "running"
    BY DEF RaiseError, lexVars
  <1>2. ParseInv' BY RaisesKeepParse DEF PairedInv
  <1>3. TagBlocks(blocks)' = TagBlocks(blocks) BY <1>1 DEF TagBlocks, ToSet
  <1>4. PairInv' BY <1>1, <1>3, PairsStay
  <1>5. OrderInv' BY <1>1 DEF PairedInv, OrderInv, InOrder
  <1> QED BY <1>2, <1>4, <1>5 DEF PairedInv

\* A tag that is yielded, and to be handled.
LEMMA PullKeepsPairs == ASSUME PairedInv, Pull PROVE PairedInv'
  <1>1. ParseInv' /\ \A i \in 1 .. Len(tags) : tags'[i] = tags[i]
    BY PullKeepsParse DEF PairedInv
  <1>2. \A i \in 1 .. handled : tags'[i] = tags[i]
    BY <1>1, ParseFacts DEF PairedInv
  <1>3. UNCHANGED <<collect, handled, current, last, blocks, warned, outcome>>
    BY DEF Pull, blockVars
  <1>4. TagBlocks(blocks)' = TagBlocks(blocks) BY <1>3 DEF TagBlocks, ToSet
  <1>5. PairInv' BY <1>2, <1>3, <1>4, PairsStay
  <1>6. OrderInv' BY <1>3 DEF PairedInv, OrderInv, InOrder
  <1> QED BY <1>1, <1>5, <1>6 DEF PairedInv

\* The end of the text.
LEMMA FinishKeepsPairs == ASSUME PairedInv, Finish PROVE PairedInv'
  <1>1. /\ blocks' = WithRawData(Len(text) + 1) /\ outcome' = "done" /\ outcome = "running"
        /\ UNCHANGED <<handled, current, warned>> /\ UNCHANGED tags
    BY DEF Finish, AtEnd, lexVars
  <1>2. ParseInv' BY FinishKeepsParse DEF PairedInv
  <1>3. /\ TagBlocks(WithRawData(Len(text) + 1)) = TagBlocks(blocks)
        /\ InOrder(WithRawData(Len(text) + 1), Len(text) + 1) /\ Len(text) + 1 \in Nat
    BY <1>1, RawDataBetween, LastIsBefore, ParseFacts DEF PairedInv
  <1>4. TagBlocks(blocks)' = TagBlocks(blocks)
    BY <1>1, <1>3 DEF TagBlocks, ToSet
  <1>5. PairInv' BY <1>1, <1>4, PairsStay
  <1>6. OrderInv' BY <1>1, <1>3 DEF OrderInv, InOrder
  <1> QED BY <1>2, <1>5, <1>6 DEF PairedInv

\* At the start there are no pairs.
LEMMA InitPairedInv == BlockInit => PairedInv
  <1> SUFFICES ASSUME BlockInit PROVE PairedInv
    OBVIOUS
  <1>1. ParseInv BY InitParseInv
  <1>2. handled = 0 /\ current = 0 /\ last = 1 /\ blocks = <<>> /\ warned = {}
    BY DEF BlockInit
  <1>3. Pairs(0) = {} /\ Outside(0) = {} BY DEF Pairs, Outside
  <1>4. TagBlocks(<<>>) = {} BY DEF TagBlocks, ToSet
  <1>5. PairInv BY <1>2, <1>3, <1>4 DEF PairInv
  <1>6. OrderInv BY <1>2 DEF OrderInv, InOrder
  <1> QED BY <1>1, <1>5, <1>6 DEF PairedInv

\* One more tag is handled.
LEMMA TurnPairs ==
    ASSUME PairedInv, Turn, NEW n, n = handled, NEW m, m = handled + 1, handled' = m
    PROVE  /\ n \in Nat /\ m = n + 1 /\ m \in 1 .. Len(tags)
           /\ \A i, j \in 1 .. m : FirstEnd(i, j)' <=> FirstEnd(i, j)
           /\ Pairs(m)' = Pairs(m)
           /\ {BlockOf(p) : p \in Pairs(m)}' = {BlockOf(p) : p \in Pairs(m)}
           /\ Pairs(n) \subseteq Pairs(m)
           /\ \A p \in Pairs(m) \ Pairs(n) :
                 p = <<current, m>> /\ current # 0 /\ tag.name = EndTag[tags[current].name]
  <1>1. /\ handled + 1 \in 1 .. Len(tags) /\ tag = tags[handled + 1] /\ tags' = tags
        /\ handled \in Nat /\ Len(tags) \in Nat
    BY TurnFacts, ParseFacts DEF PairedInv
  <1>2. n \in Nat /\ m = n + 1 /\ m \in 1 .. Len(tags) /\ m \in Nat /\ handled < Len(tags)
    BY <1>1
  <1>3. \A i \in 1 .. m : tags'[i] = tags[i] BY <1>1
  <1>4. /\ \A i, j \in 1 .. m : FirstEnd(i, j)' <=> FirstEnd(i, j)
        /\ Pairs(m)' = Pairs(m)
        /\ {BlockOf(p) : p \in Pairs(m)}' = {BlockOf(p) : p \in Pairs(m)}
    BY <1>2, <1>3, PairsAreFixed
  <1>5. /\ Pairs(handled) \subseteq Pairs(handled + 1)
        /\ \A p \in Pairs(handled + 1) \ Pairs(handled) :
              p = <<current, handled + 1>> /\ current # 0
              /\ tags[handled + 1].name = EndTag[tags[current].name]
    BY <1>2, NextPairs DEF PairedInv
  <1> QED BY <1>1, <1>2, <1>4, <1>5

\* The start of a block is open.
LEMMA StartKeepsPairs == ASSUME PairedInv, StartBlock PROVE PairedInv'
  <1>1. /\ Turn /\ handled' = handled + 1 /\ current = 0 /\ current' = handled + 1
        /\ outcome' = "running" /\ tag.name \in Allowed /\ blocks' = WithRawData(tag.start)
        /\ last' = (IF collect THEN tag.start ELSE last) /\ warned' = warned
        /\ tags' = tags /\ outcome = "running"
        /\ tag = tags[handled + 1] /\ tag.start \in Nat /\ last <= tag.start
    BY TurnFacts DEF StartBlock, Handled, PairedInv
  <1>2. ParseInv' BY StartKeepsParse DEF PairedInv
  <1>3. PICK n, m : n = handled /\ m = handled + 1 OBVIOUS
  <1>4. /\ n \in Nat /\ m = n + 1 /\ m \in 1 .. Len(tags)
        /\ \A i, j \in 1 .. m : FirstEnd(i, j)' <=> FirstEnd(i, j)
        /\ Pairs(m)' = Pairs(m)
        /\ {BlockOf(p) : p \in Pairs(m)}' = {BlockOf(p) : p \in Pairs(m)}
        /\ Pairs(n) \subseteq Pairs(m)
        /\ \A p \in Pairs(m) \ Pairs(n) : current # 0
    BY <1>1, <1>3, TurnPairs
  <1>5. Pairs(m) = Pairs(n) BY <1>1, <1>4
  <1>6. Outside(m)' = Outside(n)
    <2>1. Outside(n) = {k \in 1 .. n : \A p \in Pairs(n) : ~(p[1] <= k /\ k <= p[2])}
      BY <1>1 DEF Outside
    <2>2. Outside(m)' = {k \in 1 .. m : /\ m = 0 \/ k < m
                                        /\ \A p \in Pairs(n) : ~(p[1] <= k /\ k <= p[2])}
      BY <1>1, <1>3, <1>4, <1>5 DEF Outside
    <2>3. \A k : k \in 1 .. m /\ (m = 0 \/ k < m) <=> k \in 1 .. n BY <1>4
    <2> QED BY <2>1, <2>2, <2>3
  <1>7. PairInv BY DEF PairedInv
  <1>8. TagBlocks(blocks') = TagBlocks(blocks) /\ InOrder(blocks', tag.start)
        /\ (~collect => InOrder(blocks', last))
    BY <1>1, RawDataBetween DEF PairedInv
  <1>9. current' # 0 =>
          /\ tags'[current'].name \in Allowed
          /\ \A j \in current' + 1 .. handled' : tags'[j].name # EndTag[tags'[current'].name]
    BY <1>1, <1>3, <1>4
  <1>10. ASSUME NEW i \in 1 .. m, tags[i].name \in Allowed, i # m
         PROVE  \E j \in 1 .. m : FirstEnd(i, j)'
    <2>1. i \in 1 .. n /\ i # current BY <1>1, <1>4, <1>10
    <2>2. PICK j \in 1 .. n : FirstEnd(i, j) BY <1>3, <1>7, <1>10, <2>1 DEF PairInv
    <2>3. j \in 1 .. m BY <1>4, <2>2
    <2> QED BY <1>4, <1>10, <2>2, <2>3
  <1>11. TagBlocks(blocks)' = {BlockOf(p) : p \in Pairs(m)}'
    <2>1. TagBlocks(blocks) = {BlockOf(p) : p \in Pairs(n)} BY <1>3, <1>7 DEF PairInv
    <2>2. TagBlocks(blocks)' = TagBlocks(blocks') BY DEF TagBlocks, ToSet
    <2> QED BY <1>4, <1>5, <1>8, <2>1, <2>2
  <1>12. warned' = {tags'[k] : k \in Outside(m)'}
    BY <1>1, <1>3, <1>6, <1>7 DEF PairInv
  <1>13. PairInv' BY <1>1, <1>3, <1>9, <1>10, <1>11, <1>12 DEF PairInv
  <1>14. OrderInv'
    <2>1. InOrder(blocks', last') BY <1>1, <1>8
    <2>2. last' \in Nat BY <1>2 DEF ParseInv, BlockTypes
    <2> QED BY <2>1, <2>2 DEF OrderInv, InOrder
  <1> QED BY <1>2, <1>13, <1>14 DEF PairedInv

\* A tag that is inside of the open block, or in none and warned of.
LEMMA OtherKeepsPairs == ASSUME PairedInv, OtherTag PROVE PairedInv'
  <1>1. /\ Turn /\ handled' = handled + 1 /\ tag.name \notin Allowed /\ ~EndsCurrent
        /\ warned' = (IF current = 0 THEN warned \cup {tag} ELSE warned)
        /\ tags' = tags /\ current' = current /\ last' = last /\ blocks' = blocks
        /\ outcome' = outcome /\ tag = tags[handled + 1]
    BY TurnFacts DEF OtherTag, Handled, PairedInv
  <1>2. ParseInv' BY OtherKeepsParse DEF PairedInv
  <1>3. PICK n, m : n = handled /\ m = handled + 1 OBVIOUS
  <1>4. /\ n \in Nat /\ m = n + 1 /\ m \in 1 .. Len(tags)
        /\ \A i, j \in 1 .. m : FirstEnd(i, j)' <=> FirstEnd(i, j)
        /\ Pairs(m)' = Pairs(m)
        /\ {BlockOf(p) : p \in Pairs(m)}' = {BlockOf(p) : p \in Pairs(m)}
        /\ Pairs(n) \subseteq Pairs(m)
        /\ \A p \in Pairs(m) \ Pairs(n) :
              current # 0 /\ tag.name = EndTag[tags[current].name]
    BY <1>1, <1>3, TurnPairs
  <1>5. Pairs(m) = Pairs(n) BY <1>1, <1>4 DEF EndsCurrent
  <1>6. current \in 0 .. n BY <1>3, ParseFacts DEF PairedInv
  <1>7. PairInv BY DEF PairedInv
  <1>8. Outside(m)' = Outside(n) \cup (IF current = 0 THEN {m} ELSE {})
    <2>1. Outside(m)' = {k \in 1 .. m : /\ current = 0 \/ k < current
                                        /\ \A p \in Pairs(n) : ~(p[1] <= k /\ k <= p[2])}
      BY <1>1, <1>4, <1>5 DEF Outside
    <2>2. \A p \in Pairs(n) : ~(m <= p[2]) BY <1>4, PairFacts
    <2>3. \A k : k \in 1 .. m <=> k \in 1 .. n \/ k = m BY <1>4
    <2>4. current # 0 => ~(m < current) BY <1>4, <1>6
    <2> QED BY <2>1, <2>2, <2>3, <2>4 DEF Outside
  <1>9. current' # 0 =>
          /\ tags'[current'].name \in Allowed
          /\ \A j \in current' + 1 .. handled' : tags'[j].name # EndTag[tags'[current'].name]
    <2>1. SUFFICES ASSUME current # 0, NEW j \in current + 1 .. m
                   PROVE  tags[current].name \in Allowed
                          /\ tags[j].name # EndTag[tags[current].name]
      BY <1>1, <1>3, <1>4, <1>6, <1>7 DEF PairInv
    <2>2. CASE j = m BY <1>1, <1>3, <1>7, <2>1, <2>2 DEF PairInv, EndsCurrent
    <2>3. CASE j # m
      <3>1. j \in current + 1 .. n BY <1>4, <1>6, <2>1, <2>3
      <3> QED BY <1>3, <1>7, <2>1, <3>1 DEF PairInv
    <2> QED BY <2>2, <2>3
  <1>10. ASSUME NEW i \in 1 .. m, tags[i].name \in Allowed, i # current
         PROVE  \E j \in 1 .. m : FirstEnd(i, j)'
    <2>1. i \in 1 .. n BY <1>1, <1>3, <1>4, <1>10
    <2>2. PICK j \in 1 .. n : FirstEnd(i, j) BY <1>3, <1>7, <1>10, <2>1 DEF PairInv
    <2>3. j \in 1 .. m BY <1>4, <2>2
    <2> QED BY <1>4, <1>10, <2>2, <2>3
  <1>11. TagBlocks(blocks)' = {BlockOf(p) : p \in Pairs(m)}'
    <2>1. TagBlocks(blocks) = {BlockOf(p) : p \in Pairs(n)} BY <1>3, <1>7 DEF PairInv
    <2>2. TagBlocks(blocks)' = TagBlocks(blocks) BY <1>1 DEF TagBlocks, ToSet
    <2> QED BY <1>4, <1>5, <2>1, <2>2
  <1>12. warned' = {tags'[k] : k \in Outside(m)'}
    <2>1. warned = {tags[k] : k \in Outside(n)} BY <1>3, <1>7 DEF PairInv
    <2> QED BY <1>1, <1>3, <1>8, <2>1
  <1>13. PairInv' BY <1>1, <1>3, <1>9, <1>10, <1>11, <1>12 DEF PairInv
  <1>14. OrderInv' BY <1>1 DEF PairedInv, OrderInv, InOrder
  <1> QED BY <1>2, <1>13, <1>14 DEF PairedInv

\* The end of the open block makes a pair, and a block of it.
LEMMA EndKeepsPairs == ASSUME PairedInv, EndBlock PROVE PairedInv'
  <1>1. PICK part : part = Part(tags[current].name, tags[current].start, tag.end) OBVIOUS
  <1>2. /\ Turn /\ handled' = handled + 1 /\ tag.name \notin Allowed
        /\ current # 0 /\ tag.name = EndTag[tags[current].name]
        /\ blocks' = Append(blocks, part) /\ last' = tag.end
        /\ current' = 0 /\ warned' = warned /\ tags' = tags
        /\ tag = tags[handled + 1] /\ outcome = "running"
        /\ tag.start \in Nat /\ tag.end \in Nat /\ tag.start < tag.end /\ last <= tag.start
    BY <1>1, TurnFacts DEF EndBlock, EndsCurrent, Handled, PairedInv
  <1>3. ParseInv' BY EndKeepsParse DEF PairedInv
  <1>4. PICK n, m : n = handled /\ m = handled + 1 OBVIOUS
  <1>5. /\ n \in Nat /\ m = n + 1 /\ m \in 1 .. Len(tags)
        /\ \A i, j \in 1 .. m : FirstEnd(i, j)' <=> FirstEnd(i, j)
        /\ Pairs(m)' = Pairs(m)
        /\ {BlockOf(p) : p \in Pairs(m)}' = {BlockOf(p) : p \in Pairs(m)}
        /\ Pairs(n) \subseteq Pairs(m)
        /\ \A p \in Pairs(m) \ Pairs(n) : p = <<current, m>>
    BY <1>2, <1>4, TurnPairs
  <1>6. current \in 1 .. n BY <1>2, <1>4, ParseFacts DEF PairedInv
  <1>7. PairInv BY DEF PairedInv
  <1>8. /\ tags[current].name \in Allowed
        /\ \A j \in current + 1 .. n : tags[j].name # EndTag[tags[current].name]
    BY <1>2, <1>4, <1>7 DEF PairInv
  <1>9. FirstEnd(current, m)
    BY <1>2, <1>4, <1>5, <1>6, <1>8 DEF FirstEnd
  <1>10. Pairs(m) = Pairs(n) \cup {<<current, m>>}
    <2>1. <<current, m>> \in Pairs(m) BY <1>5, <1>6, <1>8, <1>9 DEF Pairs
    <2> QED BY <1>5, <2>1
  <1>11. Outside(m)' = Outside(n)
    <2>1. Outside(m)' = {k \in 1 .. m : \A p \in Pairs(m) : ~(p[1] <= k /\ k <= p[2])}
      BY <1>2, <1>5 DEF Outside
    <2>2. \A k \in 1 .. m : (\A p \in Pairs(m) : ~(p[1] <= k /\ k <= p[2]))
            <=> /\ k < current
                /\ \A p \in Pairs(n) : ~(p[1] <= k /\ k <= p[2])
      <3>1. ASSUME NEW k \in 1 .. m
            PROVE  (\A p \in Pairs(m) : ~(p[1] <= k /\ k <= p[2]))
                     <=> /\ ~(current <= k /\ k <= m)
                         /\ \A p \in Pairs(n) : ~(p[1] <= k /\ k <= p[2])
        <4>1. <<current, m>>[1] = current /\ <<current, m>>[2] = m OBVIOUS
        <4> HIDE DEF Pairs
        <4> QED BY <1>10, <4>1, Zenon
      <3>2. \A k \in 1 .. m : ~(current <= k /\ k <= m) <=> k < current
        BY <1>5, <1>6
      <3> QED BY <3>1, <3>2
    <2>3. \A k : k \in 1 .. m /\ k < current <=> k \in 1 .. n /\ k < current
      BY <1>5, <1>6
    <2> QED BY <1>2, <2>1, <2>2, <2>3 DEF Outside
  <1>12. \A i \in 1 .. m :
           tags'[i].name \in Allowed /\ i # 0 => \E j \in 1 .. m : FirstEnd(i, j)'
    <2>1. SUFFICES ASSUME NEW i \in 1 .. m, tags[i].name \in Allowed
                   PROVE  \E j \in 1 .. m : FirstEnd(i, j)
      BY <1>2, <1>5
    <2>2. i \in 1 .. n BY <1>2, <1>4, <1>5, <2>1
    <2>3. CASE i = current BY <1>5, <1>9, <2>3
    <2>4. CASE i # current
      <3>1. PICK j \in 1 .. n : FirstEnd(i, j) BY <1>4, <1>7, <2>1, <2>2, <2>4 DEF PairInv
      <3>2. j \in 1 .. m BY <1>5
      <3> QED BY <3>1, <3>2
    <2> QED BY <2>3, <2>4
  <1>13. /\ blocks \in Seq(Block) /\ last \in Nat /\ part \in Block
         /\ part.type # "data" /\ part.from = tags[current].start /\ part.to = tag.end
         /\ part = BlockOf(<<current, m>>) /\ last <= part.from /\ part.from < tag.end
    <2>1. /\ tags[current].name \in STRING /\ tags[current].start \in Nat
          /\ tags[current].start < tags[current].end /\ tags[current].end \in Nat
          /\ tags[current].end <= tag.start
      BY <1>2, <1>4, <1>5, <1>6, ParseFacts DEF PairedInv
    <2>2. blocks \in Seq(Block) /\ last \in Nat /\ last <= tags[current].start
      BY <1>2 DEF PairedInv, ParseInv, BlockTypes, Progress
    <2>3. part \in Block BY <1>1, <1>2, <2>1 DEF Part, Block, BlockNames
    <2>4. part.type # "data" BY <1>1, <1>8, AllowedAssumption DEF Part
    <2>5. part = BlockOf(<<current, m>>) BY <1>1, <1>2, <1>4 DEF BlockOf
    <2>6. part.from = tags[current].start /\ part.to = tag.end BY <1>1 DEF Part
    <2>7. tags[current].start < tag.end BY <1>2, <2>1
    <2> QED BY <2>2, <2>3, <2>4, <2>5, <2>6, <2>7
  <1>14. TagBlocks(blocks)' = {BlockOf(p) : p \in Pairs(m)}'
    <2>1. TagBlocks(blocks) = {BlockOf(p) : p \in Pairs(n)} BY <1>4, <1>7 DEF PairInv
    <2>2. TagBlocks(blocks)' = TagBlocks(blocks') BY DEF TagBlocks, ToSet
    <2>3. TagBlocks(blocks') = TagBlocks(blocks) \cup {part}
      BY <1>2, <1>13, TagBlocksOfAppend
    <2>4. {BlockOf(p) : p \in Pairs(m)} = {BlockOf(p) : p \in Pairs(n)} \cup {part}
      BY <1>10, <1>13
    <2> QED BY <1>5, <2>1, <2>2, <2>3, <2>4
  <1>15. warned' = {tags'[k] : k \in Outside(m)'} BY <1>2, <1>4, <1>7, <1>11 DEF PairInv
  <1>16. PairInv' BY <1>2, <1>4, <1>12, <1>14, <1>15 DEF PairInv
  <1>17. OrderInv'
    <2>1. InOrder(blocks, last) BY <1>2 DEF PairedInv, OrderInv
    <2>2. last <= tag.end /\ part.to <= tag.end BY <1>2, <1>13
    <2>3. InOrder(Append(blocks, part), tag.end) BY <1>2, <1>13, <2>1, <2>2, AppendInOrder
    <2> QED BY <1>2, <2>3 DEF OrderInv, InOrder
  <1> QED BY <1>3, <1>16, <1>17 DEF PairedInv

\* Every step keeps the pairs.
LEMMA NextPairedInv == PairedInv /\ [BlockNext]_allVars => PairedInv'
  <1> SUFFICES ASSUME PairedInv, [BlockNext]_allVars PROVE PairedInv'
    OBVIOUS
  <1>1. CASE Pull BY <1>1, PullKeepsPairs
  <1>2. CASE RaiseControlFlow BY <1>2, RaisesKeepPairs DEF RaiseControlFlow, Turn
  <1>3. CASE RaiseNotAtTop BY <1>3, RaisesKeepPairs DEF RaiseNotAtTop, Turn
  <1>4. CASE RaiseNested BY <1>4, RaisesKeepPairs DEF RaiseNested, Turn
  <1>5. CASE StartBlock BY <1>5, StartKeepsPairs
  <1>6. CASE EndBlock BY <1>6, EndKeepsPairs
  <1>7. CASE OtherTag BY <1>7, OtherKeepsPairs
  <1>8. CASE RaiseNotClosed BY <1>8, RaisesKeepPairs DEF RaiseNotClosed, AtEnd
  <1>9. CASE Finish BY <1>9, FinishKeepsPairs
  <1>10. CASE LexError BY <1>10, RaisesKeepPairs DEF LexError
  <1>11. CASE UNCHANGED allVars
    <2>1. ParseInv' BY <1>11, NextParseInv DEF PairedInv
    <2>2. UNCHANGED <<tags, handled, current, last, blocks, warned, outcome>>
      BY <1>11 DEF allVars, lexVars, blockVars
    <2>3. TagBlocks(blocks)' = TagBlocks(blocks) BY <2>2 DEF TagBlocks, ToSet
    <2>4. PairInv' BY <2>2, <2>3, PairsStay
    <2>5. OrderInv' BY <2>2 DEF PairedInv, OrderInv, InOrder
    <2> QED BY <2>1, <2>4, <2>5 DEF PairedInv
  <1> QED
    BY <1>1, <1>2, <1>3, <1>4, <1>5, <1>6, <1>7, <1>8, <1>9, <1>10, <1>11 DEF BlockNext

\* A tag is in the text of a block if it is among the tags of the block.
LEMMA InsideBlocks ==
    ASSUME ParseInv, NEW p \in Pairs(Len(tags)), NEW k \in 1 .. Len(tags)
    PROVE  BlockOf(p).from <= tags[k].start /\ tags[k].end <= BlockOf(p).to
             <=> p[1] <= k /\ k <= p[2]
  <1>1. Len(tags) \in Nat BY ParseFacts
  <1>2. p[1] \in 1 .. Len(tags) /\ p[2] \in 1 .. Len(tags) /\ p[1] < p[2]
    BY <1>1, PairFacts
  <1>3. BlockOf(p).from = tags[p[1]].start /\ BlockOf(p).to = tags[p[2]].end
    BY DEF BlockOf, Part
  <1>4. \A i \in 1 .. Len(tags) :
           tags[i].start \in Nat /\ tags[i].end \in Nat /\ tags[i].start < tags[i].end
    BY ParseFacts
  <1>5. \A i, j \in 1 .. Len(tags) : i < j => tags[i].end <= tags[j].start
    BY ParseFacts
  <1>6. ASSUME NEW i \in 1 .. Len(tags), NEW j \in 1 .. Len(tags), i < j
        PROVE  tags[i].start < tags[j].start /\ tags[i].end < tags[j].end
    <2>1. tags[i].end <= tags[j].start BY <1>5, <1>6
    <2>2. /\ tags[i].start \in Nat /\ tags[i].end \in Nat /\ tags[i].start < tags[i].end
          /\ tags[j].start \in Nat /\ tags[j].end \in Nat /\ tags[j].start < tags[j].end
      BY <1>4
    <2> QED BY <2>1, <2>2
  <1>7. CASE k < p[1]
    <2>1. tags[k].start < tags[p[1]].start BY <1>2, <1>6, <1>7
    <2> QED BY <1>1, <1>2, <1>3, <1>4, <1>7, <2>1
  <1>8. CASE p[2] < k
    <2>1. tags[p[2]].end < tags[k].end BY <1>2, <1>6, <1>8
    <2> QED BY <1>1, <1>2, <1>3, <1>4, <1>8, <2>1
  <1>9. CASE p[1] <= k /\ k <= p[2]
    <2>1. p[1] = k \/ tags[p[1]].start < tags[k].start BY <1>1, <1>2, <1>6, <1>9
    <2>2. p[2] = k \/ tags[k].end < tags[p[2]].end BY <1>1, <1>2, <1>6, <1>9
    <2> QED BY <1>2, <1>3, <1>4, <1>9, <2>1, <2>2
  <1> QED BY <1>1, <1>2, <1>7, <1>8, <1>9

\* The invariant BlocksPairTags: the blocks of an accepted text are its allowed
\* tags, each with the first end of its name, in order; and the tags warned of
\* are those in no block, for any texts, names of tags and names of blocks.
THEOREM TagsArePaired == BlockSpec => []BlocksPairTags
  <1>1. PairedInv => BlocksPairTags
    <2> SUFFICES ASSUME PairedInv, outcome = "done" PROVE BlocksPairTags
      BY DEF BlocksPairTags
    <2> DEFINE n == Len(tags)
    <2> DEFINE starts == {k \in DOMAIN tags : tags[k].name \in Allowed}
    <2> DEFINE ends(i) == {j \in DOMAIN tags : j > i /\ tags[j].name = EndTag[tags[i].name]}
    <2>1. /\ ParseInv /\ n \in Nat /\ DOMAIN tags = 1 .. n /\ handled = n /\ current = 0
      BY ParseFacts DEF PairedInv, ParseInv, Progress
    <2>2. /\ \A i \in 1 .. n : tags[i].name \in Allowed => \E j \in 1 .. n : FirstEnd(i, j)
          /\ TagBlocks(blocks) = {BlockOf(p) : p \in Pairs(n)}
          /\ warned = {tags[k] : k \in Outside(n)}
      BY <2>1 DEF PairedInv, PairInv
    <2>3. ASSUME NEW i \in 1 .. n, NEW j \in 1 .. n, FirstEnd(i, j)
          PROVE  j \in ends(i) /\ Least(ends(i)) = j
      <3>1. j \in ends(i) BY <2>1, <2>3 DEF FirstEnd
      <3>2. ends(i) \in SUBSET Nat BY <2>1
      <3>3. ASSUME NEW k \in ends(i) PROVE j <= k
        BY <2>1, <2>3, <3>2, <3>3 DEF FirstEnd
      <3>4. IsLeast(j, ends(i)) BY <3>1, <3>3 DEF IsLeast
      <3> QED BY <3>1, <3>2, <3>4, LeastIsUnique
    <2>4. \A i \in starts : ends(i) # {} BY <2>1, <2>2, <2>3
    <2>5. {b \in ToSet(blocks) : b.type # "data"} =
            {Part(tags[i].name, tags[i].start, tags[Least(ends(i))].end) : i \in starts}
      <3>1. ASSUME NEW p \in Pairs(n)
            PROVE  /\ p[1] \in starts
                   /\ BlockOf(p) = Part(tags[p[1]].name, tags[p[1]].start,
                                        tags[Least(ends(p[1]))].end)
        BY <2>1, <2>3, PairFacts DEF BlockOf
      <3>2. ASSUME NEW i \in starts
            PROVE  \E p \in Pairs(n) :
                      BlockOf(p) = Part(tags[i].name, tags[i].start, tags[Least(ends(i))].end)
        <4>1. PICK j \in 1 .. n : FirstEnd(i, j) BY <2>1, <2>2
        <4>2. <<i, j>> \in Pairs(n) BY <2>1, <4>1 DEF Pairs
        <4>3. Least(ends(i)) = j BY <2>1, <2>3, <4>1
        <4> QED BY <4>2, <4>3 DEF BlockOf
      <3> HIDE DEF starts, ends
      <3> QED BY <2>2, <3>1, <3>2 DEF TagBlocks
    <2>6. \A i, j \in DOMAIN blocks : i < j => blocks[i].to <= blocks[j].from
      BY DEF PairedInv, OrderInv, InOrder
    <2>7. warned = {x \in ToSet(tags) :
                      \A b \in ToSet(blocks) : b.type # "data" =>
                          ~(b.from <= x.start /\ x.end <= b.to)}
      <3>1. ASSUME NEW k \in 1 .. n
            PROVE  k \in Outside(n) <=>
                     \A b \in ToSet(blocks) : b.type # "data" =>
                        ~(b.from <= tags[k].start /\ tags[k].end <= b.to)
        <4>1. k \in Outside(n) <=> \A p \in Pairs(n) : ~(p[1] <= k /\ k <= p[2])
          BY <2>1 DEF Outside
        <4>2. k \in Outside(n) <=>
                \A p \in Pairs(n) :
                   ~(BlockOf(p).from <= tags[k].start /\ tags[k].end <= BlockOf(p).to)
          BY <2>1, <4>1, InsideBlocks
        <4> QED BY <2>2, <4>2 DEF TagBlocks
      <3>2. ToSet(tags) = {tags[k] : k \in 1 .. n} BY <2>1 DEF ToSet
      <3>3. Outside(n) \subseteq 1 .. n BY DEF Outside
      <3> HIDE DEF n
      <3> QED BY <2>2, <3>1, <3>2, <3>3
    <2> QED BY <2>4, <2>5, <2>6, <2>7 DEF BlocksPairTags
  <1> QED BY <1>1, InitPairedInv, NextPairedInv, PTL DEF BlockSpec

-----------------------------------------------------------------------------
(* Blocks and control flow                                                 *)

\* m pairs control flow tags of the first n, without crossings, and o gives the
\* tag of each name in the stack: the starts that are open, which no pair is
\* around.
Nests(m, o, n) ==
    /\ \A k \in DOMAIN m :
          /\ k \in 1 .. n /\ m[k] \in 1 .. n /\ k < m[k]
          /\ tags[k].name \in DOMAIN ControlFlow
          /\ tags[m[k]].name = ControlFlow[tags[k].name]
    /\ \A k, l \in DOMAIN m : k < l /\ l < m[k] => m[l] < m[k]
    /\ \A i \in 1 .. Len(stack) :
          /\ o[i] \in 1 .. n /\ tags[o[i]].name = stack[i]
          /\ tags[o[i]].name \in DOMAIN ControlFlow /\ o[i] \notin DOMAIN m
          /\ \A k \in DOMAIN m : ~(k < o[i] /\ o[i] < m[k])
    /\ \A i, j \in 1 .. Len(stack) : i < j => o[i] < o[j]
    /\ \A k \in 1 .. n : tags[k].name \in DOMAIN ControlFlow =>
          k \in DOMAIN m \/ \E i \in 1 .. Len(stack) : o[i] = k
    /\ \A e \in 1 .. n : tags[e].name \in ControlFlowEnds => \E k \in DOMAIN m : m[k] = e

\* The stack is what is open, and no block that was begun is inside of that.
NestInv ==
    /\ stack \in Seq(STRING)
    /\ outcome = "running" => \E m, o : Nests(m, o, handled)
    /\ \A i \in 1 .. handled : tags[i].name \in Allowed => ClosedBefore(i)

NestedInv == PairedInv /\ NestInv

\* No tag starts control flow and ends it.
LEMMA ControlFlowNames ==
    /\ DOMAIN ControlFlow = {"if", "for"} /\ ControlFlowEnds = {"endif", "endfor"}
    /\ DOMAIN ControlFlow \cap ControlFlowEnds = {}
    /\ \A n \in DOMAIN ControlFlow : ControlFlow[n] \in ControlFlowEnds
  <1>1. DOMAIN ControlFlow = {"if", "for"} BY DEF ControlFlow
  <1>2. ControlFlow["if"] = "endif" /\ ControlFlow["for"] = "endfor" BY DEF ControlFlow
  <1>3. ControlFlowEnds = {ControlFlow["if"], ControlFlow["for"]}
    BY <1>1, Zenon DEF ControlFlowEnds
  <1> QED BY <1>1, <1>2, <1>3

\* When nothing is open, the tags handled close each other.
LEMMA NothingIsOpen ==
    ASSUME NEW n \in Nat, NEW m, NEW o, Nests(m, o, n), stack = <<>>
    PROVE  ClosedBefore(n + 1)
  <1> DEFINE starts == {k \in 1 .. (n + 1) - 1 : tags[k].name \in DOMAIN ControlFlow}
  <1> DEFINE ends == {k \in 1 .. (n + 1) - 1 : tags[k].name \in ControlFlowEnds}
  <1>1. (n + 1) - 1 = n /\ Len(stack) = 0 OBVIOUS
  <1>2. \A k \in starts : k \in DOMAIN m
    BY <1>1 DEF Nests
  <1>3. \A k \in starts :
          m[k] \in ends /\ k < m[k] /\ tags[m[k]].name = ControlFlow[tags[k].name]
    BY <1>1, <1>2, ControlFlowNames DEF Nests
  <1>4. \A e \in ends : \E k \in starts : m[k] = e
    BY <1>1 DEF Nests
  <1>5. \A k, l \in starts : k < l /\ l < m[k] => m[l] < m[k]
    BY <1>2 DEF Nests
  <1> HIDE DEF starts, ends
  <1>6. PICK closer : closer = [k \in starts |-> m[k]] OBVIOUS
  <1>7. closer \in [starts -> ends] /\ \A k \in starts : closer[k] = m[k]
    BY <1>3, <1>6
  <1>8. /\ \A e \in ends : \E k \in starts : closer[k] = e
        /\ \A k \in starts :
              k < closer[k] /\ tags[closer[k]].name = ControlFlow[tags[k].name]
        /\ \A k, l \in starts : k < l /\ l < closer[k] => closer[l] < closer[k]
    BY <1>3, <1>4, <1>5, <1>7
  <1> QED BY <1>7, <1>8 DEF ClosedBefore, starts, ends

\* What the tags before i are does not change.
LEMMA ClosedIsFixed ==
    ASSUME NEW i \in Nat, \A k \in 1 .. i - 1 : tags'[k] = tags[k]
    PROVE  ClosedBefore(i) => ClosedBefore(i)'
  <1> DEFINE starts == {k \in 1 .. i - 1 : tags[k].name \in DOMAIN ControlFlow}
  <1> DEFINE ends == {k \in 1 .. i - 1 : tags[k].name \in ControlFlowEnds}
  <1>1. starts = {k \in 1 .. i - 1 : tags'[k].name \in DOMAIN ControlFlow}
        /\ ends = {k \in 1 .. i - 1 : tags'[k].name \in ControlFlowEnds}
    OBVIOUS
  <1>2. \A k \in starts : tags'[k] = tags[k]
    OBVIOUS
  <1>3. \A k \in ends : tags'[k] = tags[k]
    OBVIOUS
  <1>4. SUFFICES ASSUME ClosedBefore(i) PROVE ClosedBefore(i)'
    OBVIOUS
  <1>5. PICK closer \in [starts -> ends] :
          /\ \A e \in ends : \E k \in starts : closer[k] = e
          /\ \A k \in starts :
                k < closer[k] /\ tags[closer[k]].name = ControlFlow[tags[k].name]
          /\ \A k, l \in starts : k < l /\ l < closer[k] => closer[l] < closer[k]
    BY <1>4 DEF ClosedBefore
  <1> HIDE DEF starts, ends
  <1>6. \A k \in starts : tags'[closer[k]].name = ControlFlow[tags'[k].name]
    BY <1>2, <1>3, <1>5
  <1> QED BY <1>1, <1>5, <1>6 DEF ClosedBefore

\* The names of control flow do not change.
LEMMA ControlFlowIsFixed ==
    ControlFlow' = ControlFlow /\ ControlFlowEnds' = ControlFlowEnds
  BY DEF ControlFlow, ControlFlowEnds

-----------------------------------------------------------------------------
(* A tag is handled                                                        *)

\* The start of control flow is open.
LEMMA StartNests ==
    ASSUME NEW n \in Nat, NEW m, NEW o, Nests(m, o, n), stack \in Seq(STRING),
           tags[n + 1].name \in DOMAIN ControlFlow, tags' = tags,
           stack' = Append(stack, tags[n + 1].name)
    PROVE  \E o1 : Nests(m, o1, n + 1)'
  <1>1. PICK s \in Nat : s = Len(stack) OBVIOUS
  <1>2. PICK o1 : o1 = [i \in 1 .. s + 1 |-> IF i = s + 1 THEN n + 1 ELSE o[i]]
    OBVIOUS
  <1>3. o1[s + 1] = n + 1 /\ \A i \in 1 .. s : o1[i] = o[i] BY <1>1, <1>2
  <1>4. /\ Len(stack') = s + 1 /\ stack'[s + 1] = tags[n + 1].name
        /\ \A i \in 1 .. s : stack'[i] = stack[i]
    BY <1>1
  <1>5. /\ \A k \in DOMAIN m :
              /\ k \in 1 .. n /\ m[k] \in 1 .. n /\ k < m[k]
              /\ tags[k].name \in DOMAIN ControlFlow
              /\ tags[m[k]].name = ControlFlow[tags[k].name]
        /\ \A k, l \in DOMAIN m : k < l /\ l < m[k] => m[l] < m[k]
        /\ \A i \in 1 .. s :
              /\ o[i] \in 1 .. n /\ tags[o[i]].name = stack[i]
              /\ tags[o[i]].name \in DOMAIN ControlFlow /\ o[i] \notin DOMAIN m
              /\ \A k \in DOMAIN m : ~(k < o[i] /\ o[i] < m[k])
        /\ \A i, j \in 1 .. s : i < j => o[i] < o[j]
        /\ \A k \in 1 .. n : tags[k].name \in DOMAIN ControlFlow =>
              k \in DOMAIN m \/ \E i \in 1 .. s : o[i] = k
        /\ \A e \in 1 .. n : tags[e].name \in ControlFlowEnds => \E k \in DOMAIN m : m[k] = e
    BY <1>1 DEF Nests
  <1>6. \A k \in DOMAIN m : k \in 1 .. n + 1 /\ m[k] \in 1 .. n + 1 BY <1>5
  <1>7. ASSUME NEW i \in 1 .. s + 1
        PROVE  /\ o1[i] \in 1 .. n + 1 /\ tags[o1[i]].name = stack'[i]
               /\ tags[o1[i]].name \in DOMAIN ControlFlow /\ o1[i] \notin DOMAIN m
               /\ \A k \in DOMAIN m : ~(k < o1[i] /\ o1[i] < m[k])
    <2>1. CASE i = s + 1
      <3>1. o1[i] = n + 1 BY <1>3, <2>1
      <3>2. n + 1 \notin DOMAIN m BY <1>5
      <3>3. \A k \in DOMAIN m : ~(n + 1 < m[k]) BY <1>5
      <3> QED BY <1>4, <2>1, <3>1, <3>2, <3>3
    <2>2. CASE i \in 1 .. s
      BY <1>3, <1>4, <1>5, <2>2
    <2> QED BY <1>1, <2>1, <2>2
  <1>8. ASSUME NEW i \in 1 .. s + 1, NEW j \in 1 .. s + 1, i < j PROVE o1[i] < o1[j]
    <2>1. i \in 1 .. s /\ o1[i] = o[i] /\ o[i] \in 1 .. n BY <1>1, <1>3, <1>5, <1>8
    <2>2. CASE j = s + 1 BY <1>3, <2>1, <2>2
    <2>3. CASE j \in 1 .. s BY <1>3, <1>5, <1>8, <2>1, <2>3
    <2> QED BY <1>1, <2>2, <2>3
  <1>9. ASSUME NEW k \in 1 .. n + 1, tags[k].name \in DOMAIN ControlFlow
        PROVE  k \in DOMAIN m \/ \E i \in 1 .. s + 1 : o1[i] = k
    <2>1. CASE k = n + 1
      <3>1. s + 1 \in 1 .. s + 1 OBVIOUS
      <3> QED BY <1>3, <2>1, <3>1
    <2>2. CASE k \in 1 .. n
      <3>1. \A i \in 1 .. s : i \in 1 .. s + 1 OBVIOUS
      <3>2. k \in DOMAIN m \/ \E i \in 1 .. s : o[i] = k
        BY <1>5, <1>9, <2>2
      <3> QED BY <1>3, <3>1, <3>2
    <2> QED BY <2>1, <2>2
  <1>10. ASSUME NEW e \in 1 .. n + 1, tags[e].name \in ControlFlowEnds
         PROVE  \E k \in DOMAIN m : m[k] = e
    <2>1. e # n + 1 BY <1>10, ControlFlowNames
    <2>2. e \in 1 .. n BY <2>1
    <2> QED BY <1>5, <1>10, <2>2
  <1>11. Nests(m, o1, n + 1)'
    BY <1>4, <1>5, <1>6, <1>7, <1>8, <1>9, <1>10, ControlFlowIsFixed DEF Nests
  <1> QED BY <1>11

\* The end of control flow closes what was opened last.
LEMMA EndNests ==
    ASSUME NEW n \in Nat, NEW m, NEW o, Nests(m, o, n), stack \in Seq(STRING), stack # <<>>,
           ControlFlow[Last(stack)] = tags[n + 1].name,
           tags[n + 1].name \notin DOMAIN ControlFlow,
           tags' = tags, stack' = Front(stack)
    PROVE  \E m1 : Nests(m1, o, n + 1)'
  <1>1. PICK s \in Nat : s = Len(stack) OBVIOUS
  <1>2. PICK l : l = o[s] OBVIOUS
  <1>3. PICK m1 : m1 = [k \in DOMAIN m \cup {l} |-> IF k = l THEN n + 1 ELSE m[k]]
    OBVIOUS
  <1>4. s # 0 /\ s \in 1 .. s /\ Last(stack) = stack[s]
    BY <1>1, EmptySeq DEF Last
  <1>5. /\ Len(stack') = s - 1 /\ \A i \in 1 .. s - 1 : stack'[i] = stack[i]
    BY <1>1, <1>4, SubSeqProperties DEF Front
  <1>6. /\ \A k \in DOMAIN m :
              /\ k \in 1 .. n /\ m[k] \in 1 .. n /\ k < m[k]
              /\ tags[k].name \in DOMAIN ControlFlow
              /\ tags[m[k]].name = ControlFlow[tags[k].name]
        /\ \A k, j \in DOMAIN m : k < j /\ j < m[k] => m[j] < m[k]
        /\ \A i \in 1 .. s :
              /\ o[i] \in 1 .. n /\ tags[o[i]].name = stack[i]
              /\ tags[o[i]].name \in DOMAIN ControlFlow /\ o[i] \notin DOMAIN m
              /\ \A k \in DOMAIN m : ~(k < o[i] /\ o[i] < m[k])
        /\ \A i, j \in 1 .. s : i < j => o[i] < o[j]
        /\ \A k \in 1 .. n : tags[k].name \in DOMAIN ControlFlow =>
              k \in DOMAIN m \/ \E i \in 1 .. s : o[i] = k
        /\ \A e \in 1 .. n : tags[e].name \in ControlFlowEnds => \E k \in DOMAIN m : m[k] = e
    BY <1>1 DEF Nests
  <1>7. /\ l \in 1 .. n /\ l \notin DOMAIN m /\ tags[l].name \in DOMAIN ControlFlow
        /\ ControlFlow[tags[l].name] = tags[n + 1].name
        /\ \A k \in DOMAIN m : ~(k < l /\ l < m[k])
    BY <1>2, <1>4, <1>6
  <1>8. /\ DOMAIN m1 = DOMAIN m \cup {l} /\ m1[l] = n + 1
        /\ \A k \in DOMAIN m : m1[k] = m[k]
    BY <1>3, <1>7
  <1>9. ASSUME NEW k \in DOMAIN m1
        PROVE  /\ k \in 1 .. n + 1 /\ m1[k] \in 1 .. n + 1 /\ k < m1[k]
               /\ tags[k].name \in DOMAIN ControlFlow
               /\ tags[m1[k]].name = ControlFlow[tags[k].name]
    <2>1. CASE k = l BY <1>7, <1>8, <2>1
    <2>2. CASE k \in DOMAIN m BY <1>6, <1>8, <2>2
    <2> QED BY <1>8, <2>1, <2>2
  <1>10. ASSUME NEW k \in DOMAIN m1, NEW j \in DOMAIN m1, k < j, j < m1[k]
         PROVE  m1[j] < m1[k]
    <2>1. CASE k = l
      <3>1. j \in DOMAIN m BY <1>7, <1>8, <1>10, <2>1
      <3> QED BY <1>6, <1>8, <2>1, <3>1
    <2>2. CASE k \in DOMAIN m /\ j = l
      BY <1>7, <1>8, <1>10, <2>2
    <2>3. CASE k \in DOMAIN m /\ j \in DOMAIN m
      BY <1>6, <1>8, <1>10, <2>3
    <2> QED BY <1>8, <2>1, <2>2, <2>3
  <1>11. ASSUME NEW i \in 1 .. s - 1
         PROVE  /\ i \in 1 .. s /\ o[i] \in 1 .. n + 1 /\ tags[o[i]].name = stack'[i]
                /\ tags[o[i]].name \in DOMAIN ControlFlow /\ o[i] \notin DOMAIN m1
                /\ \A k \in DOMAIN m1 : ~(k < o[i] /\ o[i] < m1[k])
    <2>1. i \in 1 .. s /\ i < s BY <1>1
    <2>2. o[i] \in 1 .. n /\ o[i] < l BY <1>2, <1>4, <1>6, <2>1
    <2>3. o[i] \notin DOMAIN m1 BY <1>6, <1>7, <1>8, <2>1, <2>2
    <2>4. ASSUME NEW k \in DOMAIN m1 PROVE ~(k < o[i] /\ o[i] < m1[k])
      <3>1. CASE k = l BY <1>7, <2>2, <3>1
      <3>2. CASE k \in DOMAIN m BY <1>6, <1>8, <2>1, <3>2
      <3> QED BY <1>8, <3>1, <3>2
    <2> QED BY <1>5, <1>6, <2>1, <2>2, <2>3, <2>4
  <1>12. \A i, j \in 1 .. s - 1 : i < j => o[i] < o[j]
    BY <1>6, <1>11
  <1>13. ASSUME NEW k \in 1 .. n + 1, tags[k].name \in DOMAIN ControlFlow
         PROVE  k \in DOMAIN m1 \/ \E i \in 1 .. s - 1 : o[i] = k
    <2>1. k \in 1 .. n BY <1>13
    <2>2. CASE k \in DOMAIN m BY <1>8, <2>2
    <2>3. ASSUME NEW i \in 1 .. s, o[i] = k
          PROVE  k \in DOMAIN m1 \/ \E j \in 1 .. s - 1 : o[j] = k
      <3>1. CASE i = s BY <1>2, <1>8, <2>3, <3>1
      <3>2. CASE i # s
        <4>1. i \in 1 .. s - 1 BY <1>1, <3>2
        <4> QED BY <2>3, <4>1
      <3> QED BY <3>1, <3>2
    <2> QED BY <1>6, <1>13, <2>1, <2>2, <2>3
  <1>14. ASSUME NEW e \in 1 .. n + 1, tags[e].name \in ControlFlowEnds
         PROVE  \E k \in DOMAIN m1 : m1[k] = e
    <2>1. CASE e = n + 1 BY <1>8, <2>1
    <2>2. CASE e # n + 1
      <3>1. e \in 1 .. n BY <2>2
      <3> QED BY <1>6, <1>8, <1>14, <3>1
    <2> QED BY <2>1, <2>2
  <1>15. Nests(m1, o, n + 1)'
    BY <1>5, <1>9, <1>10, <1>11, <1>12, <1>13, <1>14, ControlFlowIsFixed DEF Nests
  <1> QED BY <1>15

\* A tag that is not of control flow changes nothing.
LEMMA PlainNests ==
    ASSUME NEW n \in Nat, NEW m, NEW o, Nests(m, o, n),
           tags[n + 1].name \notin DOMAIN ControlFlow \cup ControlFlowEnds,
           tags' = tags, stack' = stack
    PROVE  Nests(m, o, n + 1)'
  <1>1. \A k \in DOMAIN m : k \in 1 .. n + 1 /\ m[k] \in 1 .. n + 1 BY DEF Nests
  <1>2. \A i \in 1 .. Len(stack) : o[i] \in 1 .. n + 1 BY DEF Nests
  <1>3. \A k \in 1 .. n + 1 :
          tags[k].name \in DOMAIN ControlFlow \cup ControlFlowEnds => k \in 1 .. n
    OBVIOUS
  <1> QED BY <1>1, <1>2, <1>3, ControlFlowIsFixed DEF Nests

\* Whatever the tag is, if it is handled.
LEMMA HandledNests ==
    ASSUME NestedInv, Turn, ~Mismatch, Handled, NEW n \in Nat, n = handled
    PROVE  /\ stack' \in Seq(STRING)
           /\ \E m, o : Nests(m, o, n + 1)'
  <1>1. /\ stack \in Seq(STRING) /\ tag = tags[n + 1] /\ tag.name \in STRING /\ tags' = tags
        /\ stack' = StackAfter
    BY TurnFacts DEF NestedInv, PairedInv, NestInv, Handled
  <1>2. PICK m, o : Nests(m, o, n) BY DEF NestedInv, NestInv, Turn
  <1>3. CASE tag.name \in DOMAIN ControlFlow
    <2>1. stack' = Append(stack, tag.name) BY <1>1, <1>3 DEF StackAfter
    <2>2. stack' \in Seq(STRING) BY <1>1, <2>1
    <2>3. \E o1 : Nests(m, o1, n + 1)' BY <1>1, <1>2, <1>3, <2>1, StartNests
    <2> QED BY <2>2, <2>3
  <1>4. CASE tag.name \in ControlFlowEnds
    <2>1. stack # <<>> /\ ControlFlow[Last(stack)] = tag.name BY <1>4 DEF Mismatch
    <2>2. tag.name \notin DOMAIN ControlFlow BY <1>4, ControlFlowNames
    <2>3. stack' = Front(stack) BY <1>1, <1>4, <2>1, <2>2 DEF StackAfter
    <2>4. stack' \in Seq(STRING) BY <1>1, <2>1, <2>3, EmptySeq, SubSeqProperties DEF Front
    <2> QED BY <1>1, <1>2, <2>1, <2>2, <2>3, <2>4, EndNests
  <1>5. CASE tag.name \notin DOMAIN ControlFlow \cup ControlFlowEnds
    <2>1. stack' = stack BY <1>1, <1>5 DEF StackAfter
    <2> QED BY <1>1, <1>2, <1>5, <2>1, PlainNests
  <1> QED BY <1>3, <1>4, <1>5

\* A step that handles no tag changes nothing.
LEMMA NestStays ==
    ASSUME NestedInv, UNCHANGED <<handled, stack>>,
           outcome' = "running" => outcome = "running",
           \A i \in 1 .. handled : tags'[i] = tags[i]
    PROVE  NestInv'
  <1>1. PICK n : n = handled OBVIOUS
  <1>2. n \in Nat /\ n = handled BY <1>1, ParseFacts DEF NestedInv, PairedInv
  <1>3. /\ stack \in Seq(STRING)
        /\ outcome = "running" => \E m, o : Nests(m, o, n)
        /\ \A i \in 1 .. n : tags[i].name \in Allowed => ClosedBefore(i)
    BY <1>2 DEF NestedInv, NestInv
  <1>4. \A i \in 1 .. n : tags'[i] = tags[i] BY <1>2
  <1>5. ASSUME NEW m, NEW o, Nests(m, o, n) PROVE Nests(m, o, n)'
    <2>1. \A k \in DOMAIN m : k \in 1 .. n /\ m[k] \in 1 .. n BY <1>5 DEF Nests
    <2>2. \A i \in 1 .. Len(stack) : o[i] \in 1 .. n BY <1>5 DEF Nests
    <2> QED BY <1>4, <1>5, <2>1, <2>2, ControlFlowIsFixed DEF Nests
  <1>6. ASSUME NEW i \in 1 .. n, tags'[i].name \in Allowed PROVE ClosedBefore(i)'
    <2>1. tags[i].name \in Allowed BY <1>4, <1>6
    <2>2. \A k \in 1 .. i - 1 : k \in 1 .. n BY <1>2
    <2> QED BY <1>2, <1>3, <1>4, <2>1, <2>2, ClosedIsFixed
  <1> QED BY <1>2, <1>3, <1>5, <1>6 DEF NestInv

\* A tag is handled, which starts a block only when nothing is open.
LEMMA HandledKeepsNests ==
    ASSUME NestedInv, Turn, ~Mismatch, Handled, tag.name \in Allowed => StackAfter = <<>>
    PROVE  NestInv'
  <1>1. PICK n : n = handled OBVIOUS
  <1>2. /\ n \in Nat /\ n = handled /\ handled' = n + 1 /\ tags' = tags
        /\ tag = tags[n + 1] /\ stack' = StackAfter
    BY <1>1, ParseFacts, TurnFacts DEF NestedInv, PairedInv, Handled
  <1>3. stack' \in Seq(STRING) /\ \E m, o : Nests(m, o, n + 1)'
    BY <1>2, HandledNests
  <1>4. ASSUME NEW i \in 1 .. n + 1, tags'[i].name \in Allowed PROVE ClosedBefore(i)'
    <2>1. \A k \in 1 .. i - 1 : tags'[k] = tags[k] BY <1>2
    <2>2. CASE i \in 1 .. n
      BY <1>2, <1>4, <2>1, <2>2, ClosedIsFixed DEF NestedInv, NestInv
    <2>3. CASE i = n + 1
      <3>1. tag.name \in Allowed BY <1>2, <1>4, <2>3
      <3>2. StackAfter = <<>> /\ tag.name \notin ControlFlowEnds
        BY <3>1, AllowedAssumption
      <3>3. stack \in Seq(STRING) BY DEF NestedInv, NestInv
      <3>4. tag.name \in STRING BY TurnFacts DEF NestedInv, PairedInv
      <3>5. stack = <<>>
        <4>1. CASE tag.name \in DOMAIN ControlFlow
          <5>1. Append(stack, tag.name) = <<>> BY <3>2, <4>1 DEF StackAfter
          <5> QED BY <3>3, <3>4, <5>1, AppendProperties
        <4>2. CASE tag.name \notin DOMAIN ControlFlow
          BY <3>2, <4>2 DEF StackAfter
        <4> QED BY <4>1, <4>2
      <3>6. PICK m, o : Nests(m, o, n) BY <1>2 DEF NestedInv, NestInv, Turn
      <3>7. ClosedBefore(n + 1) BY <1>2, <3>5, <3>6, NothingIsOpen
      <3> QED BY <1>2, <2>1, <2>3, <3>7, ClosedIsFixed
    <2> QED BY <1>2, <2>2, <2>3
  <1> QED BY <1>2, <1>3, <1>4 DEF NestInv

\* At the start nothing is open.
LEMMA InitNestedInv == BlockInit => NestedInv
  <1> SUFFICES ASSUME BlockInit PROVE NestedInv
    OBVIOUS
  <1>1. PairedInv BY InitPairedInv
  <1>2. handled = 0 /\ stack = <<>> BY DEF BlockInit
  <1>3. PICK m : m = [k \in {} |-> 0] OBVIOUS
  <1>4. Len(<<>>) = 0 /\ DOMAIN m = {} BY <1>3
  <1>5. Nests(m, m, 0) BY <1>2, <1>4 DEF Nests
  <1>6. NestInv BY <1>2, <1>5 DEF NestInv
  <1> QED BY <1>1, <1>6 DEF NestedInv

\* Every step keeps the nesting.
LEMMA NextNestedInv == NestedInv /\ [BlockNext]_allVars => NestedInv'
  <1> SUFFICES ASSUME NestedInv, [BlockNext]_allVars PROVE NestedInv'
    OBVIOUS
  <1>1. PairedInv /\ PairedInv' BY NextPairedInv DEF NestedInv
  <1>2. ASSUME UNCHANGED <<lexVars, collect>>, NEW error, error # "running", RaiseError(error)
        PROVE  NestInv'
    BY <1>2, NestStays DEF RaiseError, lexVars
  <1>3. CASE Pull
    <2>1. \A i \in 1 .. Len(tags) : tags'[i] = tags[i]
      BY <1>1, <1>3, PullKeepsParse DEF PairedInv
    <2>2. \A i \in 1 .. handled : tags'[i] = tags[i]
      BY <1>1, <2>1, ParseFacts DEF PairedInv
    <2> QED BY <1>1, <1>3, <2>2, NestStays DEF Pull, blockVars, NestedInv
  <1>4. CASE RaiseControlFlow \/ RaiseNotAtTop \/ RaiseNested
    BY <1>1, <1>2, <1>4 DEF RaiseControlFlow, RaiseNotAtTop, RaiseNested, Turn, NestedInv
  <1>5. CASE RaiseNotClosed \/ LexError
    BY <1>1, <1>2, <1>5 DEF RaiseNotClosed, AtEnd, LexError, NestedInv
  <1>6. CASE StartBlock
    BY <1>1, <1>6, HandledKeepsNests DEF StartBlock, NestedInv
  <1>7. CASE EndBlock
    BY <1>1, <1>7, HandledKeepsNests DEF EndBlock, NestedInv
  <1>8. CASE OtherTag
    BY <1>1, <1>8, HandledKeepsNests DEF OtherTag, NestedInv
  <1>9. CASE Finish
    BY <1>1, <1>9, NestStays DEF Finish, AtEnd, lexVars, NestedInv
  <1>10. CASE UNCHANGED allVars
    BY <1>1, <1>10, NestStays DEF allVars, lexVars, blockVars, NestedInv
  <1> QED BY <1>1, <1>3, <1>4, <1>5, <1>6, <1>7, <1>8, <1>9, <1>10 DEF BlockNext, NestedInv

\* The invariant BlocksAreAtTop: every if and for before a block that is
\* extracted was closed, for any texts, names of tags and names of blocks.
THEOREM BlocksAreOutsideControlFlow == BlockSpec => []BlocksAreAtTop
  <1>1. NestedInv => BlocksAreAtTop
    <2> SUFFICES ASSUME NestedInv, NEW b \in ToSet(blocks), b.type # "data"
                 PROVE  \E i \in DOMAIN tags : tags[i].start = b.from /\ ClosedBefore(i)
      BY DEF BlocksAreAtTop
    <2>1. b \in {BlockOf(p) : p \in Pairs(handled)}
      BY DEF NestedInv, PairedInv, PairInv, TagBlocks
    <2>2. PICK p \in Pairs(handled) : b = BlockOf(p) BY <2>1
    <2>3. handled \in Nat /\ handled <= Len(tags) /\ DOMAIN tags = 1 .. Len(tags)
          /\ Len(tags) \in Nat
      BY ParseFacts DEF NestedInv, PairedInv
    <2>4. p[1] \in 1 .. handled /\ tags[p[1]].name \in Allowed BY <2>2, <2>3, PairFacts
    <2>5. ClosedBefore(p[1]) BY <2>4 DEF NestedInv, NestInv
    <2>6. tags[p[1]].start = b.from BY <2>2 DEF BlockOf, Part
    <2> QED BY <2>3, <2>4, <2>5, <2>6
  <1> QED BY <1>1, InitNestedInv, NextNestedInv, PTL DEF BlockSpec

-----------------------------------------------------------------------------
(* The calls of macros                                                     *)

Call == [kind : {"render", "module", "macro"}, node : Nodes, text : MacroTexts \cup {NoNode}]

\* The calls, and what the handlers rely on: an error that goes up is in some call.
MacroTypeOK ==
    /\ sql \in [Nodes -> MacroTexts]
    /\ calls \in Seq(Call)
    /\ exc # NoError => calls # <<>>

\* What is cached under a text was made from this text, which compiles.
CacheKeepsTexts ==
    \A key \in DOMAIN fileCache : fileCache[key] = key /\ key \in MacroTexts \ BadTexts

MacroInv == MacroTypeOK /\ CacheKeepsTexts /\ TemplatesAreCurrent

-----------------------------------------------------------------------------
(* Calls that begin, go on and end                                         *)

\* Another call is in progress, and is current if it has a template.
LEMMA CallsGrow ==
    ASSUME MacroInv, NEW f \in Call, calls' = Append(calls, f), sql' = sql,
           f.kind # "render" => f.text = sql[f.node] /\ f.text \notin BadTexts
    PROVE  calls' \in Seq(Call) /\ calls' # <<>> /\ TemplatesAreCurrent'
  <1>1. calls \in Seq(Call)
    BY DEF MacroInv, MacroTypeOK
  <1>2. /\ calls' \in Seq(Call) /\ calls' # <<>>
        /\ DOMAIN calls' = 1 .. Len(calls) + 1 /\ DOMAIN calls = 1 .. Len(calls)
        /\ \A i \in 1 .. Len(calls) + 1 : calls'[i] = IF i = Len(calls) + 1 THEN f ELSE calls[i]
    BY <1>1
  <1>3. TemplatesAreCurrent'
    BY <1>1, <1>2 DEF MacroInv, TemplatesAreCurrent
  <1>. QED  BY <1>2, <1>3

\* Without the innermost call the others are in progress.
LEMMA FrontIsTheRest ==
    ASSUME NEW s \in Seq(Call), s # <<>>
    PROVE  /\ Len(s) \in Nat \ {0} /\ Front(s) \in Seq(Call) /\ Len(Front(s)) = Len(s) - 1
           /\ DOMAIN Front(s) = 1 .. Len(s) - 1 /\ DOMAIN s = 1 .. Len(s)
           /\ \A i \in 1 .. Len(s) - 1 : Front(s)[i] = s[i]
  <1>1. Len(s) \in Nat \ {0} /\ DOMAIN s = 1 .. Len(s)
    OBVIOUS
  <1> DEFINE n == Len(s)
             front == SubSeq(s, 1, n - 1)
  <1>2. Front(s) = front
    BY DEF Front
  <1>3. n \in Int /\ n >= 1 /\ n - 1 \in Int /\ \A i \in 1 .. n - 1 : s[i] \in Call
    BY <1>1
  <1>4. /\ front \in Seq(Call)
        /\ Len(front) = IF 1 <= n - 1 THEN (n - 1) - 1 + 1 ELSE 0
        /\ \A i \in 1 .. (n - 1) - 1 + 1 : front[i] = s[1 + i - 1]
    BY <1>3, SubSeqProperties
  <1> HIDE DEF n, front
  <1>5. Len(front) = n - 1 /\ \A i \in 1 .. n - 1 : front[i] = s[i]
    BY <1>3, <1>4
  <1>6. DOMAIN front = 1 .. n - 1
    BY <1>3, <1>4, <1>5
  <1> QED BY <1>1, <1>2, <1>4, <1>5, <1>6 DEF n

\* The innermost call has ended.
LEMMA CallsShrink ==
    ASSUME MacroInv, calls # <<>>, calls' = Front(calls), sql' = sql
    PROVE  calls' \in Seq(Call) /\ TemplatesAreCurrent' /\ (Len(calls) # 1 => calls' # <<>>)
  <1>1. /\ Len(calls) \in Nat \ {0} /\ calls' \in Seq(Call) /\ Len(calls') = Len(calls) - 1
        /\ DOMAIN calls' = 1 .. Len(calls) - 1 /\ DOMAIN calls = 1 .. Len(calls)
        /\ \A i \in 1 .. Len(calls) - 1 : calls'[i] = calls[i]
    BY FrontIsTheRest DEF MacroInv, MacroTypeOK
  <1>2. TemplatesAreCurrent'
    BY <1>1 DEF MacroInv, TemplatesAreCurrent
  <1>. QED  BY <1>1, <1>2

\* An error that is raised leaves the calls as they are and is in one of them.
LEMMA RaisingKeepsInv ==
    ASSUME MacroInv, NEW e, RaiseIn(calls, e), UNCHANGED <<sql, fileCache>>
    PROVE  MacroInv'
  BY DEF RaiseIn, MacroInv, MacroTypeOK, CacheKeepsTexts, TemplatesAreCurrent

-----------------------------------------------------------------------------
(* The actions                                                             *)

LEMMA RenderKeepsInv ==
    ASSUME MacroInv, NEW n \in Nodes, NEW body \in MacroTexts, Render(n, body) PROVE MacroInv'
  <1>1. CASE body \in BadTexts
    BY <1>1, RaisingKeepsInv DEF Render
  <1>2. CASE body \notin BadTexts
    <2>1. Frame("render", n, NoNode) \in Call /\ Frame("render", n, NoNode).kind = "render"
      BY DEF Frame, Call
    <2>2. calls' = Append(calls, Frame("render", n, NoNode)) /\ UNCHANGED <<sql, fileCache>>
      BY <1>2 DEF Render
    <2>3. calls' \in Seq(Call) /\ calls' # <<>> /\ TemplatesAreCurrent'
      BY <2>1, <2>2, CallsGrow
    <2>. QED  BY <2>2, <2>3 DEF MacroInv, MacroTypeOK, CacheKeepsTexts
  <1>. QED  BY <1>1, <1>2

\* A template that is cached is the macro's, since the text is the key; one that is
\* not is made of the macro's text, and cached under it.
LEMMA CallMacroKeepsInv ==
    ASSUME MacroInv, NEW m \in Nodes, CallMacro(m) PROVE MacroInv'
  <1>1. sql[m] \in MacroTexts /\ TemplateFor(sql[m], m) /\ sql' = sql
    BY DEF MacroInv, MacroTypeOK, CallMacro, GetNodeTemplate
  <1>2. CASE sql[m] \notin DOMAIN fileCache /\ sql[m] \in BadTexts
    BY <1>1, <1>2, RaisingKeepsInv DEF TemplateFor
  <1>3. CASE sql[m] \in DOMAIN fileCache \/ sql[m] \notin BadTexts
    <2>1. /\ calls' = Append(calls, Frame("module", m, sql[m]))
          /\ sql[m] \notin BadTexts /\ CacheKeepsTexts'
      BY <1>1, <1>3 DEF TemplateFor, MacroInv, CacheKeepsTexts
    <2>2. /\ Frame("module", m, sql[m]) \in Call
          /\ Frame("module", m, sql[m]).text = sql[Frame("module", m, sql[m]).node]
          /\ Frame("module", m, sql[m]).text \notin BadTexts
      BY <1>1, <2>1 DEF Frame, Call
    <2>3. calls' \in Seq(Call) /\ calls' # <<>> /\ TemplatesAreCurrent'
      BY <1>1, <2>1, <2>2, CallsGrow
    <2>. QED  BY <1>1, <2>1, <2>3 DEF MacroInv, MacroTypeOK
  <1>. QED  BY <1>2, <1>3

LEMMA EnterMacroKeepsInv ==
    ASSUME MacroInv, EnterMacro PROVE MacroInv'
  <1>1. /\ calls \in Seq(Call) /\ calls # <<>>
        /\ Len(calls) \in Nat \ {0} /\ DOMAIN calls = 1 .. Len(calls)
    BY DEF MacroInv, MacroTypeOK, EnterMacro
  <1>2. /\ calls' = [calls EXCEPT ![Len(calls)].kind = "macro"]
        /\ calls[Len(calls)].kind = "module" /\ UNCHANGED <<sql, fileCache, exc>>
    BY DEF EnterMacro, Last
  <1>3. /\ calls' \in Seq(Call) /\ DOMAIN calls' = DOMAIN calls /\ calls' # <<>>
        /\ \A i \in DOMAIN calls : calls'[i].node = calls[i].node /\ calls'[i].text = calls[i].text
        /\ \A i \in DOMAIN calls : calls'[i].kind # "render" => calls[i].kind # "render"
    <2>1. [calls[Len(calls)] EXCEPT !.kind = "macro"] \in Call
      <3>1. calls[Len(calls)] \in Call
        BY <1>1
      <3>. QED  BY <3>1 DEF Call
    <2>2. calls' = [calls EXCEPT ![Len(calls)] = [calls[Len(calls)] EXCEPT !.kind = "macro"]]
      BY <1>2
    <2>3. calls' \in Seq(Call) /\ Len(calls') = Len(calls)
      BY <1>1, <2>1, <2>2, ExceptSeq
    <2>. QED  BY <1>1, <1>2, <2>2, <2>3 DEF Call
  <1>4. TemplatesAreCurrent'
    BY <1>2, <1>3 DEF MacroInv, TemplatesAreCurrent
  <1>. QED  BY <1>2, <1>3, <1>4 DEF MacroInv, MacroTypeOK, CacheKeepsTexts

LEMMA UnwindKeepsInv ==
    ASSUME MacroInv, Unwind PROVE MacroInv'
  <1>1. calls # <<>> /\ calls' = Front(calls) /\ UNCHANGED <<sql, fileCache>>
    BY DEF MacroInv, MacroTypeOK, Unwind
  <1>2. calls' \in Seq(Call) /\ TemplatesAreCurrent' /\ (Len(calls) # 1 => calls' # <<>>)
    BY <1>1, CallsShrink
  <1>3. Len(calls) = 1 => exc' = NoError
    BY DEF Unwind
  <1>. QED  BY <1>1, <1>2, <1>3 DEF MacroInv, MacroTypeOK, CacheKeepsTexts

\* Files are only parsed again between renderings.
LEMMA EditKeepsInv ==
    ASSUME MacroInv, NEW m \in Nodes, NEW body \in MacroTexts, Edit(m, body) PROVE MacroInv'
  BY DEF Edit, MacroInv, MacroTypeOK, CacheKeepsTexts, TemplatesAreCurrent

LEMMA NextKeepsInv ==
    ASSUME MacroInv, [MacroNext]_macroVars PROVE MacroInv'
  <1>1. ASSUME NEW n \in Nodes, NEW body \in MacroTexts, Render(n, body) \/ Edit(n, body)
        PROVE  MacroInv'
    BY <1>1, RenderKeepsInv, EditKeepsInv
  <1>2. ASSUME NEW m \in Nodes, CallMacro(m) PROVE MacroInv'
    BY <1>2, CallMacroKeepsInv
  <1>3. CASE EnterMacro
    BY <1>3, EnterMacroKeepsInv
  <1>4. CASE Return
    <2>1. /\ exc = NoError /\ calls # <<>> /\ calls' = Front(calls)
          /\ UNCHANGED <<sql, fileCache, exc>>
      BY <1>4 DEF Return
    <2>. QED  BY <2>1, CallsShrink DEF MacroInv, MacroTypeOK, CacheKeepsTexts
  <1>5. CASE Unwind
    BY <1>5, UnwindKeepsInv
  <1>6. ASSUME NEW kind \in Kinds, Raise(kind) PROVE MacroInv'
    BY <1>6, RaisingKeepsInv DEF Raise
  <1>7. CASE UNCHANGED macroVars
    BY <1>7 DEF macroVars, MacroInv, MacroTypeOK, CacheKeepsTexts, TemplatesAreCurrent
  <1>. QED  BY <1>1, <1>2, <1>3, <1>4, <1>5, <1>6, <1>7 DEF MacroNext

-----------------------------------------------------------------------------

THEOREM InvHolds == MacroSpec => []MacroInv
  <1>1. MacroInit => MacroInv
    BY DEF MacroInit, MacroInv, MacroTypeOK, CacheKeepsTexts, TemplatesAreCurrent
  <1>2. MacroInv /\ [MacroNext]_macroVars => MacroInv'
    BY NextKeepsInv
  <1>. QED  BY <1>1, <1>2, PTL DEF MacroSpec

\* The invariant TemplatesAreCurrent: whatever is cached, a call of a macro runs the
\* template of the text that the macro has, and no call runs one that does not compile.
THEOREM TemplatesStayCurrent == MacroSpec => []TemplatesAreCurrent
  <1>1. MacroInv => TemplatesAreCurrent
    BY DEF MacroInv
  <1>. QED  BY InvHolds, <1>1, PTL

-----------------------------------------------------------------------------
(* The trace of an error                                                   *)

\* An exception, and the trace of it while it goes up: every call it has left is in it.
ExceptionOK(e) ==
    /\ e.node \in Nodes \cup {NoNode} /\ e.stack \in Seq(Nodes \cup {NoNode})
    /\ e = [kind |-> e.kind, node |-> e.node, stack |-> e.stack, first |-> e.first]

Rising ==
    /\ ExceptionOK(exc) /\ exc.kind \in Kinds
    /\ raisedIn \in Seq(Call) /\ Len(calls) <= Len(raisedIn)
    /\ \A i \in DOMAIN calls : calls[i] = raisedIn[i]
    /\ (exc.first = "compilation" /\ RenderedForOne(raisedIn)) =>
          /\ exc.kind = "compilation" /\ exc.node \in {NoNode, raisedIn[1].node}
          /\ NamesMacros(exc.stack, raisedIn, Len(calls) + 1)

TraceInv ==
    /\ calls # <<>> => calls[1].kind = "render" /\ escaped = NoError
    /\ exc # NoError => Rising
    /\ TraceNamesMacros

\* A call that is no macro's body adds nothing to the list of names.
LEMMA NamesStay ==
    ASSUME NEW s, NEW cs \in Seq(Call), NEW n \in DOMAIN cs, cs[n].kind # "macro",
           NamesMacros(s, cs, n + 1)
    PROVE  NamesMacros(s, cs, n)
  <1>1. Len(cs) \in Nat /\ n \in Nat
    OBVIOUS
  <1>2. {i \in n .. Len(cs) : cs[i].kind = "macro"} =
          {i \in n + 1 .. Len(cs) : cs[i].kind = "macro"}
    BY <1>1
  <1> QED BY <1>2 DEF NamesMacros

\* The name of a macro is put after those of the macros that it called.
LEMMA NamesGrow ==
    ASSUME NEW S, NEW s \in Seq(S), NEW cs \in Seq(Call), NEW n \in DOMAIN cs,
           cs[n].kind = "macro", cs[n].node \in S, NamesMacros(s, cs, n + 1)
    PROVE  NamesMacros(Append(s, cs[n].node), cs, n)
  <1> DEFINE inner == {i \in n + 1 .. Len(cs) : cs[i].kind = "macro"}
             bodies == {i \in n .. Len(cs) : cs[i].kind = "macro"}
             r == Append(s, cs[n].node)
             l == Len(s) + 1
  <1>1. Len(cs) \in Nat /\ n \in 1 .. Len(cs) /\ Len(s) \in Nat /\ DOMAIN s = 1 .. Len(s)
    OBVIOUS
  <1>2. bodies = inner \cup {n} /\ \A i \in inner : i > n /\ i \in Nat
    BY <1>1
  <1>3. /\ DOMAIN r = 1 .. l /\ r[l] = cs[n].node /\ \A k \in DOMAIN s : r[k] = s[k]
        /\ DOMAIN s = 1 .. l - 1 /\ l \in Nat /\ l >= 1
    BY <1>1
  <1>4. PICK at \in [DOMAIN s -> inner] :
          /\ \A k \in DOMAIN s : s[k] = cs[at[k]].node
          /\ \A j, k \in DOMAIN s : j < k => at[j] > at[k]
          /\ \A i \in inner : \E k \in DOMAIN s : at[k] = i
    BY DEF NamesMacros
  <1> HIDE DEF inner, bodies, r, l
  <1> DEFINE to == [k \in DOMAIN r |-> IF k = l THEN n ELSE at[k]]
  <1>5. \A k \in DOMAIN r : k = l \/ (k \in DOMAIN s /\ k < l)
    <2> TAKE k \in DOMAIN r
    <2>1. k \in 1 .. l /\ l \in Nat
      BY <1>3
    <2>2. k # l => k \in 1 .. l - 1
      BY <2>1
    <2> QED BY <1>3, <2>1, <2>2
  <1>6. to \in [DOMAIN r -> bodies]
    BY <1>2, <1>4, <1>5
  <1>7. to[l] = n /\ l \in DOMAIN r /\ \A k \in DOMAIN s : k \in DOMAIN r /\ to[k] = at[k]
    <2>1. l \in DOMAIN r /\ \A k \in DOMAIN s : k \in DOMAIN r /\ k # l
      BY <1>3
    <2> QED BY <2>1
  <1>8. \A k \in DOMAIN r : r[k] = cs[to[k]].node
    BY <1>3, <1>4, <1>5, <1>7
  <1>9. \A j, k \in DOMAIN r : j < k => to[j] > to[k]
    <2> TAKE j, k \in DOMAIN r
    <2> HAVE j < k
    <2>1. j \in DOMAIN s
      BY <1>3, <1>5
    <2>2. CASE k = l
      BY <1>2, <1>4, <1>7, <2>1, <2>2
    <2>3. CASE k \in DOMAIN s
      BY <1>4, <1>7, <2>1, <2>3
    <2> QED BY <1>5, <2>2, <2>3
  <1>10. \A i \in bodies : \E k \in DOMAIN r : to[k] = i
    BY <1>2, <1>4, <1>7
  <1> HIDE DEF to
  <1>11. NamesMacros(r, cs, n)
    BY <1>6, <1>8, <1>9, <1>10 DEF NamesMacros, bodies
  <1> QED BY <1>11 DEF r

\* Where the error is raised there is nothing to name yet.
LEMMA NamesBegin ==
    ASSUME NEW cs \in Seq(Call) PROVE NamesMacros(<<>>, cs, Len(cs) + 1)
  <1>1. {i \in Len(cs) + 1 .. Len(cs) : cs[i].kind = "macro"} = {}
    OBVIOUS
  <1>2. DOMAIN <<>> = {}
    OBVIOUS
  <1>3. \E at \in [{} -> {}] : TRUE
    <2>1. [x \in {} |-> x] \in [{} -> {}]
      OBVIOUS
    <2> QED BY <2>1
  <1> QED BY <1>1, <1>2, <1>3 DEF NamesMacros

\* The innermost rendering.
LEMMA SomeRendering ==
    ASSUME calls \in Seq(Call), calls # <<>>, calls[1].kind = "render"
    PROVE  \E k \in DOMAIN calls : /\ k = SelectLastInSeq(calls, LAMBDA f : f.kind = "render")
                                   /\ calls[k].kind = "render"
  <1> DEFINE I == {i \in 1 .. Len(calls) : calls[i].kind = "render"}
             D == {Len(calls) - i : i \in I}
  <1>1. Len(calls) \in Nat /\ 1 \in I /\ DOMAIN calls = 1 .. Len(calls)
    OBVIOUS
  <1>2. D \in SUBSET Nat /\ D # {}
    BY <1>1
  <1>3. \E m \in D : \A d \in D : <<d, m>> \notin OpToRel(<, Nat)
    <2> HIDE DEF D
    <2> QED BY <1>2, NatLessThanWellFounded, WFMin, Zenon
  <1>4. PICK m \in D : \A d \in D : <<d, m>> \notin OpToRel(<, Nat)
    BY <1>3
  <1>5. \A d \in D : ~(d < m)
    BY <1>2, <1>4 DEF OpToRel
  <1>6. PICK k \in I : m = Len(calls) - k
    OBVIOUS
  <1>7. \A i \in I : k >= i
    <2> TAKE i \in I
    <2>1. ~(Len(calls) - i < Len(calls) - k)
      BY <1>5, <1>6
    <2> QED BY <1>1, <2>1
  <1>8. Max(I) \in I
    BY <1>7 DEF Max
  <1>9. SelectLastInSeq(calls, LAMBDA f : f.kind = "render") = IF I # {} THEN Max(I) ELSE 0
    BY DEF SelectLastInSeq
  <1> QED BY <1>1, <1>8, <1>9

\* An error that is made anew has no stack, and is known by what it was at first.
LEMMA RecompiledIsNew ==
    ASSUME NEW e, ExceptionOK(e), NEW n \in Nodes \cup {NoNode}
    PROVE  /\ ExceptionOK(Recompiled(e, n)) /\ Recompiled(e, n).kind = "compilation"
           /\ Recompiled(e, n).first = e.first
  <1>1. <<>> \in Seq(Nodes \cup {NoNode})
    OBVIOUS
  <1>2. e = [kind |-> e.kind, node |-> e.node, stack |-> e.stack, first |-> e.first]
    BY DEF ExceptionOK
  <1> DEFINE a == [e EXCEPT !.kind = "compilation"]
  <1>3. a = [kind |-> "compilation", node |-> e.node, stack |-> e.stack, first |-> e.first]
    BY <1>2
  <1>4. Recompiled(e, n) = [a EXCEPT !.node = n, !.stack = <<>>]
    BY DEF Recompiled
  <1> HIDE DEF a
  <1>5. PICK f : f = e.first
    OBVIOUS
  <1>6. Recompiled(e, n) = [kind |-> "compilation", node |-> n, stack |-> <<>>, first |-> f]
    BY <1>3, <1>4, <1>5
  <1> QED BY <1>1, <1>5, <1>6 DEF ExceptionOK

\* What catch_jinja makes of an error.
LEMMA CaughtIsOurs ==
    ASSUME NEW e, ExceptionOK(e), NEW n \in Nodes
    PROVE  /\ ExceptionOK(CatchJinja(e, n))
           /\ CatchJinja(e, n).kind \in {"compilation", "runtime"}
           /\ CatchJinja(e, n).first = e.first
           /\ (e.kind = "compilation" /\ e.node \in {NoNode, n}) =>
                 /\ CatchJinja(e, n).kind = "compilation"
                 /\ CatchJinja(e, n).stack = e.stack /\ CatchJinja(e, n).node = n
  <1>1. CASE e.kind = "compilation"
    <2>1. CatchJinja(e, n) = AddNode(e, n)
      BY <1>1 DEF CatchJinja
    <2>2. CASE n = e.node
      BY <1>1, <2>1, <2>2 DEF AddNode
    <2>3. CASE n # e.node
      <3>1. AddNode(e, n) =
              [e EXCEPT !.stack = IF e.node = NoNode THEN e.stack ELSE Append(e.stack, e.node),
                        !.node = n]
        BY <2>3 DEF AddNode
      <3>2. (IF e.node = NoNode THEN e.stack ELSE Append(e.stack, e.node))
              \in Seq(Nodes \cup {NoNode})
        BY DEF ExceptionOK
      <3> QED BY <1>1, <2>1, <2>3, <3>1, <3>2 DEF ExceptionOK
    <2> QED BY <2>2, <2>3
  <1>2. CASE e.kind = "runtime"
    <2>1. CatchJinja(e, n) = e
      BY <1>2 DEF CatchJinja
    <2> QED BY <1>2, <2>1
  <1>3. CASE e.kind \notin {"compilation", "runtime"}
    <2>1. CatchJinja(e, n) = Recompiled(e, n)
      BY <1>3 DEF CatchJinja
    <2> QED BY <1>3, <2>1, RecompiledIsNew
  <1> QED BY <1>1, <1>2, <1>3

\* What a macro's handler makes of an error, unless it is a return.
LEMMA HandledIsNamed ==
    ASSUME NEW e, ExceptionOK(e), e.kind \in Kinds \ {"return"}, NEW m \in Nodes
    PROVE  /\ ExceptionOK(MacroHandler(e, m)) /\ MacroHandler(e, m).kind \in Kinds
           /\ MacroHandler(e, m).first = e.first
           /\ e.kind = "compilation" =>
                 /\ MacroHandler(e, m).kind = "compilation" /\ MacroHandler(e, m).node = e.node
                 /\ MacroHandler(e, m).stack = Append(e.stack, m)
  <1>1. CASE e.kind = "compilation"
    <2>1. MacroHandler(e, m) = [e EXCEPT !.stack = Append(e.stack, m)]
      BY <1>1 DEF MacroHandler
    <2>2. Append(e.stack, m) \in Seq(Nodes \cup {NoNode})
      BY DEF ExceptionOK
    <2> QED BY <1>1, <2>1, <2>2 DEF ExceptionOK
  <1>2. CASE e.kind \in {"type", "undefined"}
    <2>1. MacroHandler(e, m) = Recompiled(e, NoNode)
      BY <1>2 DEF MacroHandler
    <2> QED BY <1>2, <2>1, RecompiledIsNew DEF Kinds
  <1>3. CASE e.kind \in {"runtime", "other"}
    <2>1. MacroHandler(e, m) = e
      BY <1>3 DEF MacroHandler
    <2> QED BY <1>3, <2>1
  <1> QED BY <1>1, <1>2, <1>3 DEF Kinds

\* An error that is raised names nobody yet but the node of a rendering.
LEMMA RaisedIsNew ==
    ASSUME MacroInv, TraceInv, NEW kind \in Kinds, NEW n \in Nodes \cup {NoNode}, NEW first,
           NEW e, e = [kind |-> kind, node |-> n, stack |-> <<>>, first |-> first],
           first = "compilation" =>
               /\ kind = "compilation"
               /\ n # NoNode => \E i \in DOMAIN calls :
                     calls[i].kind = "render" /\ n = calls[i].node,
           calls = <<>> => kind = "compilation" /\ first # "compilation",
           exc = NoError, RaiseIn(calls, e)
    PROVE  TraceInv'
  <1>1. calls' = calls /\ raisedIn' = calls /\ calls \in Seq(Call)
    BY DEF RaiseIn, MacroInv, MacroTypeOK
  <1>2. ExceptionOK(e)
    <2>1. <<>> \in Seq(Nodes \cup {NoNode})
      OBVIOUS
    <2> QED BY <2>1 DEF ExceptionOK
  <1>3. CASE calls = <<>>
    <2>1. escaped' = e /\ exc' = NoError
      BY <1>3 DEF RaiseIn
    <2> QED BY <1>1, <1>3, <2>1 DEF TraceInv, TraceNamesMacros
  <1>4. CASE calls # <<>>
    <2>1. exc' = e /\ escaped' = escaped /\ calls[1].kind = "render" /\ escaped = NoError
      BY <1>4 DEF RaiseIn, TraceInv
    <2>2. Rising'
      <3>1. ExceptionOK(exc)' /\ exc'.kind \in Kinds
        BY <1>2, <2>1 DEF ExceptionOK
      <3>2. raisedIn' \in Seq(Call) /\ Len(calls') <= Len(raisedIn')
            /\ \A i \in DOMAIN calls' : calls'[i] = raisedIn'[i]
        BY <1>1
      <3>3. (exc'.first = "compilation" /\ RenderedForOne(raisedIn)') =>
              /\ exc'.kind = "compilation" /\ exc'.node \in {NoNode, raisedIn'[1].node}
        BY <1>1, <2>1 DEF RenderedForOne
      <3>4. NamesMacros(exc.stack, raisedIn, Len(calls) + 1)'
        <4>1. NamesMacros(<<>>, calls, Len(calls) + 1)
          BY <1>1, NamesBegin
        <4>2. exc'.stack = <<>>
          BY <2>1
        <4>3. NamesMacros(exc'.stack, raisedIn', Len(calls') + 1)
          BY <1>1, <4>1, <4>2
        <4> QED BY <4>3 DEF NamesMacros
      <3> QED BY <3>1, <3>2, <3>3, <3>4 DEF Rising
    <2>3. TraceNamesMacros'
      BY <2>1 DEF TraceNamesMacros, NoError, Exception
    <2> QED BY <1>1, <2>1, <2>2, <2>3 DEF TraceInv
  <1> QED BY <1>3, <1>4

\* A call is left by an error, which its handler may change.
LEMMA UnwindKeepsTrace ==
    ASSUME MacroInv, TraceInv, Unwind PROVE TraceInv'
  <1>1. PICK n, f, r, x : n = Len(calls) /\ f = calls[n] /\ r = raisedIn /\ x = exc
    OBVIOUS
  <1>2. calls # <<>> /\ calls \in Seq(Call) /\ calls' = Front(calls) /\ raisedIn' = r /\ x # NoError
    BY <1>1 DEF Unwind, MacroInv, MacroTypeOK
  <1>3. /\ n \in Nat \ {0} /\ Len(calls') = n - 1 /\ DOMAIN calls' = 1 .. n - 1
        /\ DOMAIN calls = 1 .. n /\ \A i \in 1 .. n - 1 : calls'[i] = calls[i]
    BY <1>1, <1>2, FrontIsTheRest
  <1>4. /\ ExceptionOK(x) /\ x.kind \in Kinds /\ r \in Seq(Call) /\ n <= Len(r)
        /\ \A i \in 1 .. n : calls[i] = r[i]
        /\ (x.first = "compilation" /\ RenderedForOne(r)) =>
              /\ x.kind = "compilation" /\ x.node \in {NoNode, r[1].node}
              /\ NamesMacros(x.stack, r, n + 1)
        /\ calls[1].kind = "render" /\ escaped = NoError
    BY <1>1, <1>2, <1>3 DEF TraceInv, Rising
  <1>5. n \in DOMAIN r /\ 1 \in DOMAIN r /\ f = r[n] /\ r[n] \in Call /\ r[1].kind = "render"
    BY <1>1, <1>3, <1>4
  <1>6. f.node \in Nodes /\ f.kind \in {"render", "module", "macro"}
    BY <1>5 DEF Call
  <1>7. PICK e : /\ e = CASE f.kind = "render" -> CatchJinja(x, f.node)
                           [] f.kind = "macro" -> MacroHandler(x, f.node)
                           [] f.kind = "module" -> x
                 /\ IF n = 1 THEN escaped' = e /\ exc' = NoError
                    ELSE exc' = e /\ escaped' = escaped
    BY <1>1 DEF Unwind, Last
  <1>8. e = NoError \/ /\ ExceptionOK(e) /\ e.kind \in Kinds
                       /\ (f.kind = "render" => e.kind \in {"compilation", "runtime"})
                       /\ (e.first = "compilation" /\ RenderedForOne(r)) =>
                             /\ e.kind = "compilation" /\ e.node \in {NoNode, r[1].node}
                             /\ NamesMacros(e.stack, r, n)
                             /\ f.kind = "render" => e.node = r[1].node
    <2>1. CASE f.kind = "render"
      <3>1. e = CatchJinja(x, f.node)
        BY <1>7, <2>1
      <3>2. RenderedForOne(r) => f.node = r[1].node
        BY <1>5, <2>1 DEF RenderedForOne
      <3>3. NamesMacros(x.stack, r, n + 1) => NamesMacros(x.stack, r, n)
        BY <1>4, <1>5, <2>1, NamesStay
      <3>4. /\ ExceptionOK(e) /\ e.kind \in {"compilation", "runtime"} /\ e.first = x.first
            /\ (x.kind = "compilation" /\ x.node \in {NoNode, f.node}) =>
                 e.kind = "compilation" /\ e.stack = x.stack /\ e.node = f.node
        BY <1>4, <1>6, <3>1, CaughtIsOurs
      <3> QED BY <1>4, <3>2, <3>3, <3>4 DEF Kinds
    <2>2. CASE f.kind = "macro"
      <3>1. e = MacroHandler(x, f.node)
        BY <1>7, <2>2
      <3>2. CASE x.kind = "return"
        BY <3>1, <3>2 DEF MacroHandler
      <3>3. CASE x.kind # "return"
        <4>1. /\ ExceptionOK(e) /\ e.kind \in Kinds /\ e.first = x.first
              /\ x.kind = "compilation" =>
                   e.kind = "compilation" /\ e.node = x.node /\ e.stack = Append(x.stack, f.node)
          BY <1>4, <1>6, <3>1, <3>3, HandledIsNamed
        <4>2. NamesMacros(x.stack, r, n + 1) => NamesMacros(Append(x.stack, f.node), r, n)
          <5>1. x.stack \in Seq(Nodes \cup {NoNode}) /\ r[n].node \in Nodes \cup {NoNode}
            BY <1>4, <1>5, <1>6 DEF ExceptionOK
          <5> QED BY <1>4, <1>5, <2>2, <5>1, NamesGrow
        <4> QED BY <1>4, <2>2, <4>1, <4>2
      <3> QED BY <3>2, <3>3
    <2>3. CASE f.kind = "module"
      <3>1. e = x
        BY <1>7, <2>3
      <3>2. NamesMacros(x.stack, r, n + 1) => NamesMacros(x.stack, r, n)
        BY <1>4, <1>5, <2>3, NamesStay
      <3> QED BY <1>4, <2>3, <3>1, <3>2
    <2> QED BY <1>6, <2>1, <2>2, <2>3
  <1>9. CASE n = 1
    <2>1. escaped' = e /\ exc' = NoError /\ f.kind = "render" /\ calls' = <<>>
      BY <1>2, <1>3, <1>4, <1>5, <1>7, <1>9
    <2>2. TraceNamesMacros'
      <3>1. CASE e = NoError
        BY <2>1, <3>1 DEF TraceNamesMacros, NoError, Exception
      <3>2. CASE e # NoError
        <4>1. /\ e.kind \in {"compilation", "runtime"}
              /\ (e.first = "compilation" /\ RenderedForOne(r)) =>
                    NamesMacros(e.stack, r, 1) /\ e.node = r[1].node
          BY <1>8, <1>9, <2>1, <3>2
        <4> QED BY <1>2, <2>1, <4>1 DEF TraceNamesMacros, RenderedForOne, NamesMacros
      <3> QED BY <3>1, <3>2
    <2> QED BY <2>1, <2>2 DEF TraceInv
  <1>10. CASE n # 1
    <2>1. exc' = e /\ escaped' = NoError /\ calls' # <<>> /\ calls'[1].kind = "render"
      <3>1. 1 \in 1 .. n - 1 /\ Len(calls') # 0
        BY <1>3, <1>10
      <3>2. calls'[1] = calls[1] /\ calls' # <<>>
        BY <1>3, <3>1
      <3> QED BY <1>4, <1>7, <1>10, <3>2
    <2>2. TraceNamesMacros'
      BY <2>1 DEF TraceNamesMacros, NoError, Exception
    <2>3. ASSUME exc' # NoError PROVE Rising'
      <3>1. /\ ExceptionOK(e) /\ e.kind \in Kinds
            /\ (e.first = "compilation" /\ RenderedForOne(r)) =>
                  /\ e.kind = "compilation" /\ e.node \in {NoNode, r[1].node}
                  /\ NamesMacros(e.stack, r, n)
        BY <1>8, <2>1, <2>3
      <3>2. Len(calls') <= Len(r) /\ \A i \in DOMAIN calls' : calls'[i] = r[i]
        BY <1>3, <1>4
      <3>3. Len(calls') + 1 = n
        BY <1>3
      <3>4. ExceptionOK(exc)' /\ exc'.kind \in Kinds
        BY <2>1, <3>1 DEF ExceptionOK
      <3>5. /\ RenderedForOne(raisedIn)' <=> RenderedForOne(r)
            /\ NamesMacros(exc.stack, raisedIn, Len(calls) + 1)' <=> NamesMacros(e.stack, r, n)
        BY <1>2, <2>1, <3>3 DEF RenderedForOne, NamesMacros
      <3> QED BY <1>2, <1>4, <2>1, <3>1, <3>2, <3>4, <3>5 DEF Rising
    <2> QED BY <2>1, <2>2, <2>3 DEF TraceInv
  <1> QED BY <1>9, <1>10

LEMMA RaiseKeepsTrace ==
    ASSUME MacroInv, TraceInv, NEW kind \in Kinds, Raise(kind) PROVE TraceInv'
  <1>1. calls # <<>> /\ calls \in Seq(Call) /\ calls[1].kind = "render" /\ exc = NoError
    BY DEF Raise, TraceInv, MacroInv, MacroTypeOK
  <1>2. PICK k \in DOMAIN calls :
          /\ k = SelectLastInSeq(calls, LAMBDA f : f.kind = "render") /\ calls[k].kind = "render"
    BY <1>1, SomeRendering
  <1>3. PICK n \in {NoNode, calls[k].node} :
          RaiseIn(calls, Exception(kind, n, <<>>)) /\ (n # NoNode => kind = "compilation")
    BY <1>2 DEF Raise
  <1>4. n \in Nodes \cup {NoNode}
    <2>1. calls[k] \in Call
      BY <1>1
    <2> QED BY <2>1 DEF Call
  <1>5. PICK e : e = [kind |-> kind, node |-> n, stack |-> <<>>, first |-> kind]
    OBVIOUS
  <1>6. RaiseIn(calls, e)
    BY <1>3, <1>5 DEF Exception
  <1>7. n # NoNode => \E i \in DOMAIN calls : calls[i].kind = "render" /\ n = calls[i].node
    BY <1>2
  <1> QED BY <1>1, <1>4, <1>5, <1>6, <1>7, RaisedIsNew

LEMMA SyntaxErrorKeepsTrace ==
    ASSUME MacroInv, TraceInv, NEW n \in Nodes, exc = NoError, RaiseIn(calls, SyntaxErrorAt(n))
    PROVE  TraceInv'
  <1>1. PICK e : e = [kind |-> "compilation", node |-> n, stack |-> <<>>, first |-> "syntax"]
    OBVIOUS
  <1>2. RaiseIn(calls, e)
    BY <1>1 DEF SyntaxErrorAt, Exception
  <1> QED BY <1>1, <1>2, RaisedIsNew DEF Kinds

\* While no error goes up there is nothing to trace.
LEMMA StepKeepsTrace ==
    ASSUME MacroInv, TraceInv, [MacroNext]_macroVars PROVE TraceInv'
  <1>0. calls \in Seq(Call) /\ (calls # <<>> => calls[1].kind = "render" /\ escaped = NoError)
    BY DEF MacroInv, MacroTypeOK, TraceInv
  <1>1. ASSUME NEW n \in Nodes, NEW body \in MacroTexts, Render(n, body) PROVE TraceInv'
    <2>1. exc = NoError
      BY <1>1 DEF Render, Running
    <2>2. CASE body \in BadTexts
      BY <1>1, <2>1, <2>2, SyntaxErrorKeepsTrace DEF Render
    <2>3. CASE body \notin BadTexts
      <3>1. /\ calls' = Append(calls, Frame("render", n, NoNode))
            /\ escaped' = NoError /\ exc' = NoError
        BY <1>1, <2>1, <2>3 DEF Render
      <3>2. calls'[1].kind = "render"
        BY <1>0, <3>1 DEF Frame
      <3> QED BY <3>1, <3>2 DEF TraceInv, TraceNamesMacros, NoError, Exception
    <2> QED BY <2>2, <2>3
  <1>2. ASSUME NEW n \in Nodes, NEW body \in MacroTexts, Edit(n, body) PROVE TraceInv'
    BY <1>2 DEF Edit, TraceInv, TraceNamesMacros, Rising, ExceptionOK, RenderedForOne, NamesMacros
  <1>3. ASSUME NEW m \in Nodes, CallMacro(m) PROVE TraceInv'
    <2>1. calls # <<>> /\ exc = NoError /\ TemplateFor(sql[m], m)
      BY <1>3 DEF CallMacro, Running, GetNodeTemplate
    <2>2. CASE sql[m] \notin DOMAIN fileCache /\ sql[m] \in BadTexts
      BY <2>1, <2>2, SyntaxErrorKeepsTrace DEF TemplateFor
    <2>3. CASE sql[m] \in DOMAIN fileCache \/ sql[m] \notin BadTexts
      <3>1. /\ exc' = NoError /\ escaped' = NoError
            /\ \E t : calls' = Append(calls, Frame("module", m, t))
        BY <1>0, <2>1, <2>3 DEF TemplateFor
      <3>2. calls'[1].kind = "render"
        BY <1>0, <2>1, <3>1
      <3> QED BY <3>1, <3>2 DEF TraceInv, TraceNamesMacros, NoError, Exception
    <2> QED BY <2>2, <2>3
  <1>4. CASE EnterMacro
    <2>1. /\ calls # <<>> /\ exc' = NoError /\ escaped' = NoError
          /\ calls' = [calls EXCEPT ![Len(calls)].kind = "macro"]
          /\ calls[Len(calls)].kind = "module"
      BY <1>0, <1>4 DEF EnterMacro, Last
    <2>2. Len(calls) # 1 /\ calls'[1] = calls[1]
      BY <1>0, <2>1
    <2> QED BY <1>0, <2>1, <2>2 DEF TraceInv, TraceNamesMacros, NoError, Exception
  <1>5. CASE Return
    <2>1. calls # <<>> /\ exc' = NoError /\ escaped' = NoError /\ calls' = Front(calls)
      BY <1>0, <1>5 DEF Return
    <2>2. calls' # <<>> => calls'[1] = calls[1]
      <3>1. /\ Len(calls) \in Nat \ {0} /\ DOMAIN calls' = 1 .. Len(calls) - 1
            /\ \A i \in 1 .. Len(calls) - 1 : calls'[i] = calls[i]
            /\ calls' \in Seq(Call)
        BY <1>0, <2>1, FrontIsTheRest
      <3>2. ASSUME calls' # <<>> PROVE 1 \in DOMAIN calls'
        BY <3>1, <3>2
      <3> QED BY <3>1, <3>2
    <2> QED BY <1>0, <2>1, <2>2 DEF TraceInv, TraceNamesMacros, NoError, Exception
  <1>6. CASE Unwind
    BY <1>6, UnwindKeepsTrace
  <1>7. ASSUME NEW kind \in Kinds, Raise(kind) PROVE TraceInv'
    BY <1>7, RaiseKeepsTrace
  <1>8. CASE UNCHANGED macroVars
    BY <1>8 DEF macroVars, TraceInv, TraceNamesMacros, Rising, ExceptionOK, RenderedForOne,
       NamesMacros
  <1> QED BY <1>1, <1>2, <1>3, <1>4, <1>5, <1>6, <1>7, <1>8 DEF MacroNext

\* What gets out of a rendering is one of dbt's errors; if a template or a macro raised it
\* as a CompilationError, it names the macros that were being executed, innermost first,
\* and then the node, for any nesting of renderings for this node and of macros.
THEOREM TracesNameMacros == MacroSpec => []TraceNamesMacros
  <1>1. MacroInit => TraceInv
    BY DEF MacroInit, TraceInv, TraceNamesMacros, NoError, Exception
  <1>2. MacroInv /\ TraceInv /\ [MacroNext]_macroVars => TraceInv'
    BY StepKeepsTrace
  <1>3. TraceInv => TraceNamesMacros
    BY DEF TraceInv
  <1>. QED  BY InvHolds, <1>1, <1>2, <1>3, PTL DEF MacroSpec

-----------------------------------------------------------------------------
(* Paths                                                                   *)

\* A path of n names is given by them.
LEMMA PathIs ==
    ASSUME NEW p \in Path
    PROVE  Len(p) \in Nat /\ \A i \in 1 .. Len(p) : p[i] \in STRING
BY LenProperties, ElementOfSeq DEF Path

\* Two paths with the same names are the same.
LEMMA PathsEqual ==
    ASSUME NEW p \in Path, NEW q \in Path, Len(p) = Len(q),
           \A i \in 1 .. Len(p) : p[i] = q[i]
    PROVE  p = q
BY SeqEqual DEF Path

\* The first names of a path, and all names but the last.
LEMMA FirstNames ==
    ASSUME NEW p \in Path, NEW n \in 0 .. Len(p)
    PROVE  /\ SubSeq(p, 1, n) \in Path /\ Len(SubSeq(p, 1, n)) = n
           /\ \A i \in 1 .. n : SubSeq(p, 1, n)[i] = p[i]
<1>1. Len(p) \in Nat /\ p \in Seq(STRING)
  BY PathIs DEF Path
<1>2. \A i \in 1 .. n : p[i] \in STRING
  BY <1>1, PathIs
<1> QED BY <1>1, <1>2, SubSeqProperties DEF Path

\* All names but the last.
LEMMA FrontIs ==
    ASSUME NEW p \in Path, p # <<>>
    PROVE  /\ Len(p) >= 1 /\ Front(p) \in Path /\ Len(Front(p)) = Len(p) - 1
           /\ \A i \in 1 .. Len(p) - 1 : Front(p)[i] = p[i]
           /\ Front(p) = SubSeq(p, 1, Len(p) - 1)
<1>1. Len(p) \in Nat /\ Len(p) >= 1
  BY EmptySeq, PathIs DEF Path
<1>2. Len(p) - 1 \in 0 .. Len(p) /\ Front(p) = SubSeq(p, 1, Len(p) - 1)
  BY <1>1 DEF Front
<1> QED BY <1>1, <1>2, FirstNames

\* A path that another begins with.
LEMMA PrefixIs ==
    ASSUME NEW p \in Path, NEW q \in Path
    PROVE  /\ IsPrefix(p, q) <=> Len(p) <= Len(q) /\ \A i \in 1 .. Len(p) : p[i] = q[i]
           /\ IsStrictPrefix(p, q) <=> Len(p) < Len(q) /\ \A i \in 1 .. Len(p) : p[i] = q[i]
<1>1. Len(p) \in Nat /\ Len(q) \in Nat
  BY PathIs
<1>2. CASE Len(p) <= Len(q)
  <2>1. Len(p) \in 0 .. Len(p) /\ Len(p) \in 0 .. Len(q)
    BY <1>1, <1>2
  <2>2. SubSeq(p, 1, Len(p)) = SubSeq(q, 1, Len(p)) <=> \A i \in 1 .. Len(p) : p[i] = q[i]
    <3>1. ASSUME \A i \in 1 .. Len(p) : p[i] = q[i]
          PROVE  SubSeq(p, 1, Len(p)) = SubSeq(q, 1, Len(p))
      <4> DEFINE s == SubSeq(p, 1, Len(p))
                 r == SubSeq(q, 1, Len(p))
      <4>1. /\ s \in Path /\ r \in Path /\ Len(s) = Len(p) /\ Len(r) = Len(p)
            /\ \A i \in 1 .. Len(p) : s[i] = p[i] /\ r[i] = q[i]
        BY <2>1, FirstNames
      <4> HIDE DEF s, r
      <4>2. s = r
        BY <3>1, <4>1, PathsEqual
      <4> QED BY <4>2 DEF s, r
    <3>2. ASSUME SubSeq(p, 1, Len(p)) = SubSeq(q, 1, Len(p))
          PROVE  \A i \in 1 .. Len(p) : p[i] = q[i]
      BY <2>1, <3>2, FirstNames
    <3> QED BY <3>1, <3>2
  <2>3. p = q <=> Len(p) = Len(q) /\ \A i \in 1 .. Len(p) : p[i] = q[i]
    BY PathsEqual
  <2> QED BY <1>1, <1>2, <2>2, <2>3 DEF IsPrefix, IsStrictPrefix
<1>3. CASE ~(Len(p) <= Len(q))
  BY <1>1, <1>3 DEF IsPrefix, IsStrictPrefix
<1> QED BY <1>2, <1>3

\* The first names of a path are the only prefix with so many names.
LEMMA PrefixIsFirst ==
    ASSUME NEW p \in Path, NEW q \in Path, IsPrefix(p, q)
    PROVE  p = SubSeq(q, 1, Len(p)) /\ Len(p) \in 0 .. Len(q)
<1>1. Len(p) \in Nat /\ Len(q) \in Nat /\ Len(p) <= Len(q) /\ \A i \in 1 .. Len(p) : p[i] = q[i]
  BY PathIs, PrefixIs
<1>2. Len(p) \in 0 .. Len(q)
  BY <1>1
<1> DEFINE s == SubSeq(q, 1, Len(p))
<1>3. s \in Path /\ Len(s) = Len(p) /\ \A i \in 1 .. Len(p) : s[i] = q[i]
  BY <1>2, FirstNames
<1> HIDE DEF s
<1>4. s = p
  BY <1>1, <1>3, PathsEqual
<1> QED BY <1>2, <1>4 DEF s

\* The first names of a path are above it.
LEMMA FirstIsPrefix ==
    ASSUME NEW p \in Path, NEW n \in 0 .. Len(p)
    PROVE  /\ IsPrefix(SubSeq(p, 1, n), p)
           /\ n < Len(p) => IsStrictPrefix(SubSeq(p, 1, n), p)
<1> DEFINE s == SubSeq(p, 1, n)
<1>1. s \in Path /\ Len(s) = n /\ \A i \in 1 .. n : s[i] = p[i]
  BY FirstNames
<1>2. n <= Len(p) /\ n \in Nat /\ Len(p) \in Nat
  BY PathIs
<1> HIDE DEF s
<1>3. IsPrefix(s, p) /\ (n < Len(p) => IsStrictPrefix(s, p))
  BY <1>1, <1>2, PrefixIs
<1> QED BY <1>3 DEF s

\* Prefixes of one path are prefixes of one another.
LEMMA PrefixesCompare ==
    ASSUME NEW p \in Path, NEW q \in Path, NEW r \in Path
    PROVE  /\ IsPrefix(p, p) /\ (IsStrictPrefix(p, q) <=> IsPrefix(p, q) /\ p # q)
           /\ IsPrefix(p, q) /\ IsPrefix(q, r) => IsPrefix(p, r)
           /\ IsPrefix(p, r) /\ IsPrefix(q, r) => IsPrefix(p, q) \/ IsPrefix(q, p)
           /\ IsPrefix(p, q) /\ IsPrefix(q, p) => p = q
<1>1. Len(p) \in Nat /\ Len(q) \in Nat /\ Len(r) \in Nat
  BY PathIs
<1>2. ASSUME NEW a \in Path, NEW b \in Path
      PROVE IsPrefix(a, b) <=> Len(a) <= Len(b) /\ \A i \in 1 .. Len(a) : a[i] = b[i]
  BY PrefixIs
<1>3. IsPrefix(p, p) /\ (IsStrictPrefix(p, q) <=> IsPrefix(p, q) /\ p # q)
  BY <1>1, <1>2 DEF IsStrictPrefix
<1>4. IsPrefix(p, q) /\ IsPrefix(q, r) => IsPrefix(p, r)
  BY <1>1, <1>2
<1>5. IsPrefix(p, r) /\ IsPrefix(q, r) => IsPrefix(p, q) \/ IsPrefix(q, p)
  BY <1>1, <1>2
<1>6. IsPrefix(p, q) /\ IsPrefix(q, p) => p = q
  BY <1>1, <1>2, PathsEqual
<1> QED BY <1>3, <1>4, <1>5, <1>6

\* What is above a path is above its last name, or the path without that name.
LEMMA FrontPrefix ==
    ASSUME NEW p \in Path, NEW q \in Path, q # <<>>
    PROVE  /\ IsStrictPrefix(Front(q), q) /\ ~IsPrefix(q, Front(q))
           /\ IsPrefix(p, Front(q)) <=> IsStrictPrefix(p, q)
<1>1. /\ Len(p) \in Nat /\ Len(q) \in Nat /\ Len(q) >= 1 /\ Front(q) \in Path
      /\ Len(Front(q)) = Len(q) - 1 /\ \A i \in 1 .. Len(q) - 1 : Front(q)[i] = q[i]
  BY PathIs, FrontIs
<1>2. IsStrictPrefix(Front(q), q) /\ ~IsPrefix(q, Front(q))
  BY <1>1, PrefixIs
<1>3. IsPrefix(p, Front(q)) <=> Len(p) <= Len(q) - 1 /\ \A i \in 1 .. Len(p) : p[i] = Front(q)[i]
  BY <1>1, PrefixIs
<1>4. IsStrictPrefix(p, q) <=> Len(p) < Len(q) /\ \A i \in 1 .. Len(p) : p[i] = q[i]
  BY PrefixIs
<1>5. Len(p) <= Len(q) - 1 => \A i \in 1 .. Len(p) : Front(q)[i] = q[i]
  BY <1>1
<1>6. Len(p) <= Len(q) - 1 <=> Len(p) < Len(q)
  BY <1>1
<1> QED BY <1>2, <1>3, <1>4, <1>5, <1>6

\* The directories above a path.
LEMMA AboveIs ==
    ASSUME NEW p \in Path
    PROVE  /\ Above(p) \subseteq Path \ {<<>>}
           /\ \A d \in Path : d \in Above(p) <=> d # <<>> /\ IsStrictPrefix(d, p)
<1>1. ASSUME NEW i \in 1 .. Len(p) - 1
      PROVE  /\ SubSeq(p, 1, i) \in Path \ {<<>>}
             /\ IsStrictPrefix(SubSeq(p, 1, i), p)
  <2>1. i \in 0 .. Len(p) /\ i < Len(p) /\ i # 0
    BY PathIs
  <2>2. SubSeq(p, 1, i) \in Path /\ Len(SubSeq(p, 1, i)) = i
    BY <2>1, FirstNames
  <2> QED BY <2>1, <2>2, FirstIsPrefix
<1>2. ASSUME NEW d \in Path, d # <<>>, IsStrictPrefix(d, p) PROVE d \in Above(p)
  <2>1. d = SubSeq(p, 1, Len(d))
    BY <1>2, PrefixIsFirst, PrefixesCompare
  <2>2. Len(d) \in Nat /\ Len(d) < Len(p) /\ Len(d) # 0 /\ Len(p) \in Nat
    BY <1>2, PathIs, PrefixIs, EmptySeq DEF Path
  <2>n. PICK n : n = Len(d)
    OBVIOUS
  <2>3. n \in 1 .. Len(p) - 1
    BY <2>2, <2>n
  <2>4. d = SubSeq(p, 1, n)
    BY <2>1, <2>n
  <2> QED BY <2>3, <2>4 DEF Above
<1> QED BY <1>1, <1>2 DEF Above

-----------------------------------------------------------------------------
(* The calls of the threads and the tree of files                          *)

JobFields == {"args", "at", "path", "todo", "names", "found", "file", "attempt", "source",
              "link", "target", "entries", "failed", "removal", "result"}

\* The directories that os.makedirs still has to make when the first k names lead
\* to what is there.
ToMake(p, k) == [i \in 1 .. Len(p) - 1 - k |-> SubSeq(p, 1, k + i)]

\* Where a thread is depends on what it was called for.
AtFits(t) ==
    /\ job[t].at \in {"start", "mkdir", "open", "fill", "untar", "rename", "exists", "unlink",
                      "rmtree", "rmdir", "move", "copy", "walk", "spawn", "done"}
    /\ job[t].at = "mkdir" => Args(t).op = "write"
    /\ job[t].at \in {"open", "fill"} => Args(t).op \in {"write", "make", "install"}
    /\ job[t].at \in {"untar", "rename"} => Args(t).op = "install"
    /\ job[t].at \in {"exists", "unlink", "rmtree", "rmdir", "move", "copy"} =>
          Args(t).op \in {"rename", "install"}
    /\ job[t].at = "walk" => Args(t).op = "search"
    /\ job[t].at = "spawn" => Args(t).op = "run"

CallFits(t) ==
    /\ \E files : IsCall(files, Args(t))
    /\ job[t].path \in Path
    /\ Args(t).op # "install" => job[t].path = Args(t).path
    /\ job[t].at = "mkdir" =>
          \E k \in 0 .. Len(Args(t).path) - 2 : job[t].todo = ToMake(Args(t).path, k)

\* A move by copying: what is still to be copied is of the source, and goes to where
\* the source is to be.
CopyFits(t) ==
    /\ job[t].removal \in {"", "unlink", "rmtree"} /\ (job[t].at = "copy" => job[t].removal # "")
    /\ job[t].removal # "" =>
          /\ job[t].at \in {"copy", "unlink", "rmtree", "rmdir", "done"}
          /\ job[t].path \in Path \ {<<>>} /\ job[t].target \in Path \ {<<>>}
          /\ ~IsPrefix(job[t].path, job[t].target) /\ IsPrefix(To(t), job[t].target)
          /\ job[t].target \in {To(t), Append(To(t), Name(job[t].path))}
    /\ job[t].at = "copy" =>
          \A p \in DOMAIN job[t].entries : p \in Path /\ IsPrefix(job[t].path, p)

TreeOK ==
    /\ DOMAIN fs \subseteq Path \ {<<>>} /\ IsFiniteSet(DOMAIN fs)
    /\ \A p \in DOMAIN fs : \A d \in Above(p) : d \in DOMAIN fs /\ fs[d] = Dir

JobsOK == DOMAIN job = Workers /\ \A t \in Workers : DOMAIN job[t] = JobFields

SystemTypeOK ==
    /\ TreeOK /\ stable \subseteq DOMAIN fs
    /\ JobsOK /\ \A t \in Workers : AtFits(t) /\ CallFits(t) /\ CopyFits(t)

-----------------------------------------------------------------------------
(* What a step changes of the calls                                        *)

\* A step of thread t changes nothing of the other calls, nor its own arguments.
OnlyOf(t) ==
    /\ DOMAIN job' = Workers /\ DOMAIN job'[t] = JobFields
    /\ \A u \in Workers \ {t} : job'[u] = job[u]
    /\ job'[t].args = job[t].args

Same(t, S) == \A f \in JobFields \ S : job'[t][f] = job[t][f]

\* A step to another place in the call.
LEMMA GotoIs ==
    ASSUME JobsOK, NEW t \in Workers, NEW a, Goto(t, a)
    PROVE  OnlyOf(t) /\ job'[t].at = a /\ Same(t, {"at"})
BY DEF JobsOK, Goto, OnlyOf, Same, JobFields

\* A step that ends the call.
LEMMA StopIs ==
    ASSUME JobsOK, NEW t \in Workers, NEW a, Stop(t, a)
    PROVE  OnlyOf(t) /\ job'[t].at = "done" /\ job'[t].result = a /\ Same(t, {"at", "result"})
BY DEF JobsOK, Stop, OnlyOf, Same, JobFields

\* After an error of the connection, the call begins again or ends.
LEMMA RetryIs ==
    ASSUME JobsOK, NEW t \in Workers, Retry(t)
    PROVE  /\ OnlyOf(t) /\ Same(t, {"at", "result", "attempt"})
           /\ \/ job'[t].at = "start" /\ job'[t].result = job[t].result
              \/ job'[t].at = "done" /\ job'[t].result \in {"callback", "ConnectionError"}
<1>1. CASE Stop(t, "callback") \/ Stop(t, "ConnectionError")
  BY <1>1, StopIs DEF Same
<1>2. CASE job' = [job EXCEPT ![t].attempt = @ + 1, ![t].at = "start"]
  BY <1>2 DEF JobsOK, OnlyOf, Same, JobFields
<1> QED BY <1>1, <1>2 DEF Retry

\* What a rename does first: it looks for a link, and compares the paths.
LEMMA BeginRenameIs ==
    ASSUME JobsOK, NEW t \in Workers, StartRename(t)
    PROVE  /\ OnlyOf(t) /\ Same(t, {"at", "result", "link", "source"}) /\ SameFs /\ data' = data
           /\ job'[t].source = Files(fs, job[t].path)
           /\ \/ SamePath(t) /\ job'[t].at = "done" /\ job'[t].result = "ok"
              \/ ~SamePath(t) /\ job'[t].at = "exists" /\ job'[t].result = job[t].result
<1>1. PICK a, r, l, s : /\ job' = [job EXCEPT ![t].at = a, ![t].result = r, ![t].link = l,
                                              ![t].source = s]
                        /\ a = (IF SamePath(t) THEN "done" ELSE "exists")
                        /\ r = (IF SamePath(t) THEN "ok" ELSE job[t].result)
                        /\ s = Files(fs, job[t].path)
  BY DEF StartRename, BeginRename
<1>2. OnlyOf(t) /\ Same(t, {"at", "result", "link", "source"})
  BY <1>1 DEF JobsOK, OnlyOf, Same, JobFields
<1>3. job'[t].at = a /\ job'[t].result = r /\ job'[t].source = s
  BY <1>1 DEF JobsOK, JobFields
<1>4. SameFs /\ data' = data
  BY DEF StartRename, BeginRename
<1>5. CASE SamePath(t)
  BY <1>1, <1>2, <1>3, <1>4, <1>5
<1>6. CASE ~SamePath(t)
  BY <1>1, <1>2, <1>3, <1>4, <1>6
<1> QED BY <1>5, <1>6

\* Then it looks whether there is something to be removed at the target.
LEMMA CheckTargetIs ==
    ASSUME JobsOK, NEW t \in Workers, CheckTarget(t)
    PROVE  /\ OnlyOf(t) /\ Same(t, {"at"}) /\ SameFs /\ data' = data /\ job[t].at = "exists"
           /\ \/ Exists(To(t)) /\ Args(t).force /\ job'[t].at \in {"unlink", "rmtree"}
              \/ ~(Exists(To(t)) /\ Args(t).force) /\ job'[t].at = "move"
<1>1. PICK a : /\ Goto(t, a)
               /\ \/ Exists(To(t)) /\ Args(t).force /\ a \in {"unlink", "rmtree"}
                  \/ ~(Exists(To(t)) /\ Args(t).force) /\ a = "move"
  <2>1. CASE Exists(To(t)) /\ Args(t).force
    BY <2>1 DEF CheckTarget
  <2>2. CASE ~(Exists(To(t)) /\ Args(t).force)
    BY <2>2 DEF CheckTarget
  <2> QED BY <2>1, <2>2
<1>2. OnlyOf(t) /\ Same(t, {"at"}) /\ job'[t].at = a
  BY <1>1, GotoIs
<1> QED BY <1>1, <1>2 DEF CheckTarget

-----------------------------------------------------------------------------
(* What a step changes of the tree                                         *)

\* Something is put where nothing was, or as what was there, into a directory.
Added(p, v) ==
    /\ p \in Path \ {<<>>} /\ IsDir(Front(p)) /\ (p \in DOMAIN fs => fs[p] = v)
    /\ SetFs(Updated(fs, All({p}, v)))

\* What is there after something was made.
LEMMA AddedIs ==
    ASSUME NEW p, NEW v, Added(p, v)
    PROVE  /\ DOMAIN fs' = DOMAIN fs \cup {p} /\ fs'[p] = v
           /\ \A q \in DOMAIN fs : fs'[q] = fs[q]
<1>1. fs' = Updated(fs, All({p}, v)) /\ (p \in DOMAIN fs => fs[p] = v)
  BY DEF Added, SetFs
<1>2. /\ DOMAIN fs' = DOMAIN fs \cup {p} /\ fs'[p] = v
      /\ \A q \in DOMAIN fs \ {p} : fs'[q] = fs[q]
  BY <1>1 DEF Updated, All
<1> QED BY <1>1, <1>2

\* What is made in a directory leaves a tree.
LEMMA AddedTree ==
    ASSUME TreeOK, NEW p, NEW v, Added(p, v) PROVE TreeOK'
<1>1. /\ DOMAIN fs' = DOMAIN fs \cup {p} /\ fs'[p] = v
      /\ \A q \in DOMAIN fs : fs'[q] = fs[q]
  BY AddedIs
<1>2. p \in Path \ {<<>>} /\ IsDir(Front(p)) /\ Front(p) \in Path
  BY FrontIs DEF Added
<1>3. DOMAIN fs' \subseteq Path \ {<<>>} /\ IsFiniteSet(DOMAIN fs')
  BY <1>1, <1>2, FS_AddElement DEF TreeOK
<1>4. ASSUME NEW d \in Above(p) PROVE d \in DOMAIN fs /\ fs[d] = Dir
  <2>1. d \in Path \ {<<>>} /\ IsStrictPrefix(d, p)
    BY <1>2, AboveIs
  <2>2. IsPrefix(d, Front(p))
    BY <1>2, <2>1, FrontPrefix
  <2>3. Front(p) # <<>>
    BY <1>2, <2>1, <2>2, PrefixIs, PathIs, EmptySeq DEF Path
  <2>4. d = Front(p) \/ d \in Above(Front(p))
    BY <1>2, <2>1, <2>2, AboveIs, PrefixesCompare
  <2> QED BY <1>2, <2>3, <2>4 DEF TreeOK, IsDir
<1>5. ASSUME NEW q \in DOMAIN fs', NEW d \in Above(q) PROVE d \in DOMAIN fs' /\ fs'[d] = Dir
  BY <1>1, <1>4 DEF TreeOK
<1> QED BY <1>3, <1>5 DEF TreeOK

\* Nothing is in the way of a directory, which is made with those above it.
DirsAdded(q) ==
    /\ q \in Path \ {<<>>} /\ \A d \in {q} \cup Above(q) : d \in DOMAIN fs => fs[d] = Dir
    /\ SetFs(Updated(fs, All({q} \cup Above(q), Dir)))

LEMMA DirsAddedIs ==
    ASSUME NEW q, DirsAdded(q)
    PROVE  /\ DOMAIN fs' = DOMAIN fs \cup ({q} \cup Above(q))
           /\ \A d \in {q} \cup Above(q) : fs'[d] = Dir
           /\ \A r \in DOMAIN fs : fs'[r] = fs[r]
<1>1. PICK S : S = {q} \cup Above(q)
  OBVIOUS
<1>2. fs' = Updated(fs, All(S, Dir)) /\ \A d \in S : d \in DOMAIN fs => fs[d] = Dir
  BY <1>1 DEF DirsAdded, SetFs
<1>3. /\ DOMAIN fs' = DOMAIN fs \cup S
      /\ \A d \in S : fs'[d] = Dir
      /\ \A r \in DOMAIN fs \ S : fs'[r] = fs[r]
  BY <1>2 DEF Updated, All
<1> QED BY <1>1, <1>2, <1>3

\* There are finitely many directories above a path.
LEMMA AboveIsFinite == ASSUME NEW p \in Path PROVE IsFiniteSet(Above(p))
<1>1. PICK n : n = Len(p)
  OBVIOUS
<1>2. n \in Nat
  BY <1>1, PathIs
<1> DEFINE g == [i \in 1 .. n - 1 |-> SubSeq(p, 1, i)]
<1>3. g \in Surjection(1 .. n - 1, Above(p))
  BY <1>1 DEF Surjection, Above
<1>4. IsFiniteSet(1 .. n - 1)
  BY <1>2, FS_Interval
<1> QED BY <1>3, <1>4, FS_Surjection

\* Directories that are made with those above them leave a tree.
LEMMA DirsAddedTree == ASSUME TreeOK, NEW q, DirsAdded(q) PROVE TreeOK'
<1>1. /\ DOMAIN fs' = DOMAIN fs \cup ({q} \cup Above(q))
      /\ \A d \in {q} \cup Above(q) : fs'[d] = Dir
      /\ \A r \in DOMAIN fs : fs'[r] = fs[r]
  BY DirsAddedIs
<1>2. /\ q \in Path \ {<<>>} /\ Above(q) \subseteq Path \ {<<>>}
      /\ \A d \in Path : d \in Above(q) <=> d # <<>> /\ IsStrictPrefix(d, q)
  BY AboveIs DEF DirsAdded
<1>3. DOMAIN fs' \subseteq Path \ {<<>>}
  BY <1>1, <1>2 DEF TreeOK
<1>4. IsFiniteSet(DOMAIN fs')
  <2>1. IsFiniteSet({q} \cup Above(q))
    BY <1>2, AboveIsFinite, FS_AddElement
  <2> QED BY <1>1, <2>1, FS_Union, ZenonT(40) DEF TreeOK
<1>5. ASSUME NEW m \in DOMAIN fs', NEW d \in Above(m) PROVE d \in DOMAIN fs' /\ fs'[d] = Dir
  <2>1. CASE m \in DOMAIN fs
    BY <1>1, <2>1 DEF TreeOK
  <2>2. CASE m = q
    BY <1>1, <2>2
  <2>3. CASE m \in Above(q)
    <3>1. m \in Path /\ d \in Path \ {<<>>} /\ IsStrictPrefix(d, m) /\ IsStrictPrefix(m, q)
      BY <1>2, <2>3, AboveIs
    <3>2. IsStrictPrefix(d, q)
      BY <1>2, <3>1, PrefixesCompare
    <3> QED BY <1>1, <1>2, <3>1, <3>2
  <2> QED BY <1>1, <2>1, <2>2, <2>3
<1> QED BY <1>3, <1>4, <1>5 DEF TreeOK

\* What is removed goes with all that is below it.
Removed(S) ==
    /\ \A d \in S, q \in DOMAIN fs : d \in Above(q) => q \in S
    /\ SetFs(Without(S))

\* What is there after some paths were removed.
LEMMA RemovedIs ==
    ASSUME NEW S, Removed(S)
    PROVE  DOMAIN fs' = DOMAIN fs \ S /\ \A q \in DOMAIN fs \ S : fs'[q] = fs[q]
BY DEF Removed, SetFs, Without

\* What is removed together with all below it leaves a tree.
LEMMA RemovedTree == ASSUME TreeOK, NEW S, Removed(S) PROVE TreeOK'
<1>1. DOMAIN fs' = DOMAIN fs \ S /\ \A q \in DOMAIN fs \ S : fs'[q] = fs[q]
  BY RemovedIs
<1>2. DOMAIN fs' \subseteq Path \ {<<>>} /\ IsFiniteSet(DOMAIN fs')
  BY <1>1, FS_Subset DEF TreeOK
<1>3. ASSUME NEW q \in DOMAIN fs', NEW d \in Above(q) PROVE d \in DOMAIN fs' /\ fs'[d] = Dir
  <2>1. d \in DOMAIN fs /\ fs[d] = Dir
    BY <1>1 DEF TreeOK
  <2>2. d \notin S
    BY <1>1, <2>1 DEF Removed
  <2> QED BY <1>1, <2>1, <2>2
<1> QED BY <1>2, <1>3 DEF TreeOK

\* The path of r when what is at p is moved to q.
MovedTo(p, q, r) == q \o SubSeq(r, Len(p) + 1, Len(r))

\* The names of a path that was moved with what is above it.
LEMMA MovedToIs ==
    ASSUME NEW p \in Path, NEW q \in Path, NEW r \in Path, IsPrefix(p, r)
    PROVE  /\ MovedTo(p, q, r) \in Path /\ IsPrefix(q, MovedTo(p, q, r))
           /\ Len(MovedTo(p, q, r)) = Len(q) + (Len(r) - Len(p))
           /\ \A i \in 1 .. Len(q) : MovedTo(p, q, r)[i] = q[i]
           /\ \A i \in 1 .. Len(r) - Len(p) : MovedTo(p, q, r)[Len(q) + i] = r[Len(p) + i]
<1>1. /\ Len(p) \in Nat /\ Len(q) \in Nat /\ Len(r) \in Nat /\ Len(p) <= Len(r)
      /\ q \in Seq(STRING) /\ r \in Seq(STRING)
  BY PathIs, PrefixIs DEF Path
<1> DEFINE s == SubSeq(r, Len(p) + 1, Len(r))
           m == q \o s
<1>2. \A i \in Len(p) + 1 .. Len(r) : r[i] \in STRING
  BY <1>1, PathIs
<1>3. s \in Seq(STRING) /\ Len(s) = Len(r) - Len(p) /\ \A i \in 1 .. Len(s) : s[i] = r[Len(p) + i]
  <2>1. Len(p) + 1 \in Int /\ Len(r) \in Int /\ Len(r) - (Len(p) + 1) + 1 = Len(r) - Len(p)
    BY <1>1
  <2>2. /\ s \in Seq(STRING)
        /\ Len(s) = IF Len(p) + 1 <= Len(r) THEN Len(r) - (Len(p) + 1) + 1 ELSE 0
        /\ \A i \in 1 .. Len(r) - (Len(p) + 1) + 1 : s[i] = r[(Len(p) + 1) + i - 1]
    BY <1>1, <1>2, <2>1, SubSeqProperties
  <2>3. \A i \in 1 .. Len(r) - Len(p) : (Len(p) + 1) + i - 1 = Len(p) + i
    BY <1>1
  <2>4. Len(s) = Len(r) - Len(p)
    <3>1. PICK n : n = Len(s)
      OBVIOUS
    <3>2. n = IF Len(p) + 1 <= Len(r) THEN Len(r) - (Len(p) + 1) + 1 ELSE 0
      BY <2>2, <3>1
    <3>3. Len(p) \in Nat /\ Len(r) \in Nat /\ Len(p) <= Len(r)
      BY <1>1
    <3>4. n = Len(r) - Len(p)
      BY <3>2, <3>3
    <3> QED BY <3>1, <3>4
  <2> HIDE DEF s
  <2> QED BY <2>1, <2>2, <2>3, <2>4
<1> HIDE DEF s
<1>4. /\ m \in Seq(STRING) /\ Len(m) = Len(q) + Len(s)
      /\ \A i \in 1 .. Len(q) : m[i] = q[i]
      /\ \A i \in 1 .. Len(s) : m[Len(q) + i] = s[i]
  <2>1. /\ m \in Seq(STRING) /\ Len(m) = Len(q) + Len(s)
        /\ \A i \in 1 .. Len(q) + Len(s) : m[i] = IF i <= Len(q) THEN q[i] ELSE s[i - Len(q)]
    BY <1>1, <1>3, ConcatProperties
  <2>2. Len(s) \in Nat
    BY <1>1, <1>3
  <2> HIDE DEF m
  <2>3. \A i \in 1 .. Len(q) : m[i] = q[i]
    BY <1>1, <2>1, <2>2
  <2>4. ASSUME NEW i \in 1 .. Len(s) PROVE m[Len(q) + i] = s[i]
    <3>1. Len(q) + i \in 1 .. Len(q) + Len(s) /\ ~(Len(q) + i <= Len(q))
          /\ (Len(q) + i) - Len(q) = i
      BY <1>1, <2>2
    <3> QED BY <2>1, <3>1
  <2> QED BY <2>1, <2>3, <2>4
<1> HIDE DEF m
<1>5. Len(q) <= Len(m)
  BY <1>1, <1>3, <1>4
<1>6. IsPrefix(q, m)
  BY <1>4, <1>5, PrefixIs DEF Path
<1>7. MovedTo(p, q, r) = m
  BY DEF MovedTo, m, s
<1> QED BY <1>1, <1>3, <1>4, <1>6, <1>7 DEF Path

\* Moving back leads to where it was.
LEMMA MovedBack ==
    ASSUME NEW p \in Path, NEW q \in Path, NEW r \in Path, IsPrefix(p, r)
    PROVE  MovedTo(q, p, MovedTo(p, q, r)) = r
<1> DEFINE m == MovedTo(p, q, r)
           b == MovedTo(q, p, m)
<1>1. /\ m \in Path /\ IsPrefix(q, m) /\ Len(m) = Len(q) + (Len(r) - Len(p))
      /\ \A i \in 1 .. Len(r) - Len(p) : m[Len(q) + i] = r[Len(p) + i]
  BY MovedToIs
<1> HIDE DEF m
<1>2. /\ b \in Path /\ Len(b) = Len(p) + (Len(m) - Len(q))
      /\ \A i \in 1 .. Len(p) : b[i] = p[i]
      /\ \A i \in 1 .. Len(m) - Len(q) : b[Len(p) + i] = m[Len(q) + i]
  BY <1>1, MovedToIs, ZenonT(40)
<1> HIDE DEF b
<1>3. /\ Len(p) \in Nat /\ Len(q) \in Nat /\ Len(r) \in Nat /\ Len(p) <= Len(r)
      /\ \A i \in 1 .. Len(p) : p[i] = r[i]
  BY PathIs, PrefixIs
<1>4. Len(b) = Len(r) /\ Len(m) - Len(q) = Len(r) - Len(p)
  BY <1>1, <1>2, <1>3
<1>5. ASSUME NEW i \in 1 .. Len(b) PROVE b[i] = r[i]
  <2>1. CASE i <= Len(p)
    BY <1>2, <1>3, <2>1
  <2>2. CASE ~(i <= Len(p))
    <3>1. i - Len(p) \in 1 .. Len(r) - Len(p) /\ Len(p) + (i - Len(p)) = i
      BY <1>3, <1>4, <2>2
    <3>2. b[Len(p) + (i - Len(p))] = r[Len(p) + (i - Len(p))]
      BY <1>1, <1>2, <1>4, <3>1
    <3> QED BY <3>1, <3>2
  <2> QED BY <2>1, <2>2
<1>6. b = r
  BY <1>2, <1>4, <1>5, PathsEqual
<1> QED BY <1>6 DEF b, m

\* The names of a path that was moved, and nothing of what is above it.
LEMMA MovedToHas ==
    ASSUME NEW p \in Path, NEW q \in Path, NEW r \in Path, IsPrefix(p, r)
    PROVE  /\ MovedTo(p, q, r) \in Path
           /\ Len(MovedTo(p, q, r)) = Len(q) + (Len(r) - Len(p))
           /\ \A i \in 1 .. Len(r) - Len(p) : MovedTo(p, q, r)[Len(q) + i] = r[Len(p) + i]
BY MovedToIs

\* What is below moves with it.
LEMMA MovedInOrder ==
    ASSUME NEW p \in Path, NEW q \in Path, NEW r \in Path, NEW d \in Path, IsPrefix(p, r),
           IsPrefix(q, d), IsStrictPrefix(d, MovedTo(p, q, r))
    PROVE  IsPrefix(p, MovedTo(q, p, d)) /\ IsStrictPrefix(MovedTo(q, p, d), r)
<1> DEFINE m == MovedTo(p, q, r)
           b == MovedTo(q, p, d)
<1>1. /\ m \in Path /\ Len(m) = Len(q) + (Len(r) - Len(p))
      /\ \A i \in 1 .. Len(r) - Len(p) : m[Len(q) + i] = r[Len(p) + i]
  BY MovedToHas
<1>2. /\ b \in Path /\ IsPrefix(p, b) /\ Len(b) = Len(p) + (Len(d) - Len(q))
      /\ \A i \in 1 .. Len(p) : b[i] = p[i]
      /\ \A i \in 1 .. Len(d) - Len(q) : b[Len(p) + i] = d[Len(q) + i]
  <2>1. /\ b \in Path /\ Len(b) = Len(p) + (Len(d) - Len(q))
        /\ \A i \in 1 .. Len(d) - Len(q) : b[Len(p) + i] = d[Len(q) + i]
    BY MovedToHas
  <2>2. IsPrefix(p, b)
    BY MovedToIs
  <2>3. \A i \in 1 .. Len(p) : b[i] = p[i]
    <3> HIDE DEF b
    <3> QED BY <2>1, <2>2, PrefixIs
  <2> QED BY <2>1, <2>2, <2>3
<1>3. /\ Len(p) \in Nat /\ Len(q) \in Nat /\ Len(r) \in Nat /\ Len(d) \in Nat
      /\ Len(p) <= Len(r) /\ Len(q) <= Len(d)
      /\ \A i \in 1 .. Len(p) : p[i] = r[i]
  BY PathIs, PrefixIs
<1>4. Len(d) < Len(m) /\ \A i \in 1 .. Len(d) : d[i] = m[i]
  BY <1>1, PrefixIs
<1> HIDE DEF m, b
<1>5. Len(b) < Len(r)
  BY <1>1, <1>2, <1>3, <1>4
<1>6. ASSUME NEW i \in 1 .. Len(b) PROVE b[i] = r[i]
  <2>1. CASE i <= Len(p)
    BY <1>2, <1>3, <2>1
  <2>2. CASE ~(i <= Len(p))
    <3>1. PICK k : k = i - Len(p)
      OBVIOUS
    <3>2. /\ k \in 1 .. Len(d) - Len(q) /\ k \in 1 .. Len(r) - Len(p) /\ Len(p) + k = i
          /\ Len(q) + k \in 1 .. Len(d)
      BY <1>1, <1>2, <1>3, <1>4, <2>2, <3>1
    <3>3. b[Len(p) + k] = r[Len(p) + k]
      BY <1>1, <1>2, <1>4, <3>2
    <3> QED BY <3>2, <3>3
  <2> QED BY <2>1, <2>2
<1>7. IsStrictPrefix(b, r)
  BY <1>2, <1>5, <1>6, PrefixIs
<1> QED BY <1>2, <1>7 DEF b

\* What a directory is in is there, and what it is in.
LEMMA AboveDirectory ==
    ASSUME TreeOK, NEW p \in Path \ {<<>>}, IsDir(Front(p))
    PROVE  \A d \in Above(p) : d \in DOMAIN fs /\ fs[d] = Dir
<1> SUFFICES ASSUME NEW d \in Above(p) PROVE d \in DOMAIN fs /\ fs[d] = Dir
  OBVIOUS
<1>1. Front(p) \in Path
  BY FrontIs
<1>2. d \in Path \ {<<>>} /\ IsStrictPrefix(d, p)
  BY AboveIs
<1>3. IsPrefix(d, Front(p))
  BY <1>1, <1>2, FrontPrefix
<1>4. Front(p) # <<>>
  BY <1>1, <1>2, <1>3, PrefixIs, PathIs, EmptySeq DEF Path
<1>5. d = Front(p) \/ d \in Above(Front(p))
  BY <1>1, <1>2, <1>3, AboveIs, PrefixesCompare
<1> QED BY <1>4, <1>5 DEF TreeOK, IsDir

\* A tree is moved to where nothing is, or a file over a file.
Relocated(p, q) ==
    /\ p \in DOMAIN fs /\ q \in Path \ {<<>>} /\ IsDir(Front(q)) /\ ~IsPrefix(p, q)
    /\ q \in DOMAIN fs => fs[q] # Dir
    /\ SetFs(Moved(p, q))

\* What is there after a move, and where it was.
LEMMA RelocatedIs ==
    ASSUME TreeOK, NEW p, NEW q, Relocated(p, q)
    PROVE  /\ \A r \in DOMAIN fs : IsPrefix(p, r) =>
                 MovedTo(p, q, r) \in DOMAIN fs' /\ fs'[MovedTo(p, q, r)] = fs[r]
           /\ \A r \in DOMAIN fs : ~IsPrefix(p, r) =>
                 r \in DOMAIN fs' /\ (~IsPrefix(q, r) => fs'[r] = fs[r])
           /\ \A m \in DOMAIN fs' :
                 \/ \E r \in DOMAIN fs : IsPrefix(p, r) /\ m = MovedTo(p, q, r) /\ fs'[m] = fs[r]
                 \/ m \in DOMAIN fs /\ ~IsPrefix(p, m) /\ fs'[m] = fs[m]
<1>1. p \in DOMAIN fs /\ p \in Path /\ q \in Path /\ fs' = Moved(p, q) /\ DOMAIN fs \subseteq Path
  BY DEF Relocated, SetFs, TreeOK
<1> DEFINE tree == {p} \cup Below(p)
           new == {q \o SubSeq(r, Len(p) + 1, Len(r)) : r \in tree}
<1>2. \A r \in DOMAIN fs : r \in tree <=> IsPrefix(p, r)
  BY <1>1, PrefixesCompare DEF Below
<1>3. tree \subseteq DOMAIN fs
  BY <1>1 DEF Below
<1>4. /\ DOMAIN fs' = (DOMAIN fs \ tree) \cup new
      /\ \A m \in new : fs'[m] = fs[p \o SubSeq(m, Len(q) + 1, Len(m))]
      /\ \A m \in (DOMAIN fs \ tree) \ new : fs'[m] = fs[m]
  BY <1>1 DEF Moved, Updated, Without
<1>5. new = {MovedTo(p, q, r) : r \in tree}
  BY DEF MovedTo
<1>6. \A m \in new : fs'[m] = fs[MovedTo(q, p, m)]
  BY <1>4 DEF MovedTo
<1> HIDE DEF tree, new
<1>7. ASSUME NEW r \in tree
      PROVE  /\ MovedTo(p, q, r) \in new /\ fs'[MovedTo(p, q, r)] = fs[r]
             /\ IsPrefix(q, MovedTo(p, q, r))
  <2>1. r \in Path /\ IsPrefix(p, r)
    BY <1>1, <1>2, <1>3
  <2>2. MovedTo(p, q, r) \in new
    BY <1>5
  <2>3. fs'[MovedTo(p, q, r)] = fs[r]
    BY <1>1, <1>6, <2>1, <2>2, MovedBack
  <2> QED BY <1>1, <2>1, <2>2, <2>3, MovedToIs
<1>8. ASSUME NEW m \in new
      PROVE  /\ \E r \in DOMAIN fs : IsPrefix(p, r) /\ m = MovedTo(p, q, r) /\ fs'[m] = fs[r]
             /\ IsPrefix(q, m)
  <2>1. PICK r \in tree : m = MovedTo(p, q, r)
    BY <1>5
  <2> QED BY <1>2, <1>3, <1>7, <2>1
<1> QED BY <1>2, <1>3, <1>4, <1>7, <1>8

\* A move leaves a tree.
LEMMA RelocatedTree == ASSUME TreeOK, NEW p, NEW q, Relocated(p, q) PROVE TreeOK'
<1>1. /\ p \in DOMAIN fs /\ p \in Path \ {<<>>} /\ q \in Path \ {<<>>}
      /\ DOMAIN fs \subseteq Path \ {<<>>}
      /\ ~IsPrefix(p, q) /\ (q \in DOMAIN fs => fs[q] # Dir) /\ IsFiniteSet(DOMAIN fs)
  BY DEF Relocated, TreeOK
<1>2. \A d \in Above(q) : d \in DOMAIN fs /\ fs[d] = Dir
  BY <1>1, AboveDirectory DEF Relocated
<1>3. \A r \in DOMAIN fs : \A d \in Above(r) : d \in DOMAIN fs /\ fs[d] = Dir
  BY DEF TreeOK
<1>m. /\ \A r \in DOMAIN fs : IsPrefix(p, r) =>
            MovedTo(p, q, r) \in DOMAIN fs' /\ fs'[MovedTo(p, q, r)] = fs[r]
      /\ \A r \in DOMAIN fs : ~IsPrefix(p, r) =>
            r \in DOMAIN fs' /\ (~IsPrefix(q, r) => fs'[r] = fs[r])
      /\ \A m \in DOMAIN fs' :
            \/ \E r \in DOMAIN fs : IsPrefix(p, r) /\ m = MovedTo(p, q, r) /\ fs'[m] = fs[r]
            \/ m \in DOMAIN fs /\ ~IsPrefix(p, m) /\ fs'[m] = fs[m]
  BY RelocatedIs
<1>4. ASSUME NEW m \in DOMAIN fs' PROVE m \in Path \ {<<>>}
  <2>1. CASE m \in DOMAIN fs
    BY <1>1, <2>1
  <2>2. ASSUME NEW r \in DOMAIN fs, IsPrefix(p, r), m = MovedTo(p, q, r) PROVE m \in Path \ {<<>>}
    <3>1. m \in Path /\ IsPrefix(q, m)
      BY <1>1, <2>2, MovedToIs
    <3>2. m # <<>>
      BY <1>1, <3>1, PrefixIs, PathIs, EmptySeq DEF Path
    <3> QED BY <3>1, <3>2
  <2> QED BY <1>m, <2>1, <2>2
<1>5. IsFiniteSet(DOMAIN fs')
  <2> DEFINE f == [r \in DOMAIN fs |-> MovedTo(p, q, r)]
             T == {MovedTo(p, q, r) : r \in DOMAIN fs}
  <2>1. f \in Surjection(DOMAIN fs, T)
    BY DEF Surjection
  <2>2. IsFiniteSet(T)
    BY <1>1, <2>1, FS_Surjection
  <2>3. IsFiniteSet(T \cup DOMAIN fs)
    BY <1>1, <2>2, FS_Union
  <2>4. DOMAIN fs' \subseteq T \cup DOMAIN fs
    BY <1>m
  <2> HIDE DEF T
  <2> QED BY <2>3, <2>4, FS_Subset
<1>6. ASSUME NEW d \in DOMAIN fs, fs[d] = Dir, ~IsPrefix(p, d), ~IsPrefix(q, d)
      PROVE  d \in DOMAIN fs' /\ fs'[d] = Dir
  BY <1>6, <1>m
<1>7. ASSUME NEW m \in DOMAIN fs', NEW d \in Above(m) PROVE d \in DOMAIN fs' /\ fs'[d] = Dir
  <2>1. m \in Path /\ d \in Path \ {<<>>} /\ IsStrictPrefix(d, m) /\ IsPrefix(d, m)
    BY <1>4, AboveIs, PrefixesCompare
  <2>2. ASSUME m \in DOMAIN fs, ~IsPrefix(p, m) PROVE d \in DOMAIN fs' /\ fs'[d] = Dir
    <3>1. d \in DOMAIN fs /\ fs[d] = Dir
      BY <1>3, <2>2
    <3>2. ~IsPrefix(p, d)
      BY <1>1, <2>1, <2>2, PrefixesCompare
    <3>3. ~IsPrefix(q, d)
      <4> SUFFICES ASSUME IsPrefix(q, d) PROVE FALSE
        OBVIOUS
      <4>1. IsStrictPrefix(q, m)
        BY <1>1, <2>1, PrefixesCompare
      <4>2. q \in Above(m)
        BY <1>1, <2>1, <4>1, AboveIs
      <4> QED BY <1>1, <1>3, <2>2, <4>2
    <3> QED BY <1>6, <3>1, <3>2, <3>3
  <2>3. ASSUME NEW r \in DOMAIN fs, IsPrefix(p, r), m = MovedTo(p, q, r)
        PROVE  d \in DOMAIN fs' /\ fs'[d] = Dir
    <3>1. r \in Path /\ IsPrefix(q, m)
      BY <1>1, <2>3, MovedToIs
    <3>2. CASE IsPrefix(q, d)
      <4>1. IsPrefix(p, MovedTo(q, p, d)) /\ IsStrictPrefix(MovedTo(q, p, d), r)
        BY <1>1, <2>1, <2>3, <3>1, <3>2, MovedInOrder
      <4>2. MovedTo(q, p, d) \in Path /\ MovedTo(p, q, MovedTo(q, p, d)) = d
        BY <1>1, <2>1, <3>2, MovedToIs, MovedBack
      <4>3. MovedTo(q, p, d) # <<>>
        BY <1>1, <4>1, <4>2, PrefixIs, PathIs, EmptySeq DEF Path
      <4>4. MovedTo(q, p, d) \in DOMAIN fs /\ fs[MovedTo(q, p, d)] = Dir
        BY <1>3, <3>1, <4>1, <4>2, <4>3, AboveIs
      <4> QED BY <1>m, <4>1, <4>2, <4>4
    <3>3. CASE ~IsPrefix(q, d)
      <4>1. IsPrefix(d, q) /\ d # q
        BY <1>1, <2>1, <3>1, <3>3, PrefixesCompare
      <4>2. d \in Above(q)
        BY <1>1, <2>1, <4>1, AboveIs, PrefixesCompare
      <4>3. ~IsPrefix(p, d)
        BY <1>1, <2>1, <4>1, PrefixesCompare
      <4> QED BY <1>2, <1>6, <3>3, <4>2, <4>3
    <3> QED BY <3>2, <3>3
  <2> QED BY <1>m, <2>2, <2>3
<1> QED BY <1>4, <1>5, <1>7 DEF TreeOK

\* A path and one more name.
LEMMA AppendIs ==
    ASSUME NEW p \in Path, NEW s \in STRING
    PROVE  /\ Append(p, s) \in Path \ {<<>>} /\ Front(Append(p, s)) = p
           /\ Last(Append(p, s)) = s /\ p \o <<s>> = Append(p, s)
<1> DEFINE a == Append(p, s)
<1>1. p \in Seq(STRING) /\ Len(p) \in Nat
  BY PathIs DEF Path
<1>2. /\ a \in Seq(STRING) /\ a # <<>> /\ Len(a) = Len(p) + 1
      /\ \A i \in 1 .. Len(p) : a[i] = p[i]
      /\ a[Len(p) + 1] = s
  <2>1. a \in Seq(STRING)
    BY <1>1, AppendProperties
  <2>2. a # <<>>
    BY <1>1, AppendProperties
  <2>3. Len(a) = Len(p) + 1
    BY <1>1, AppendProperties
  <2>4. \A i \in 1 .. Len(p) : a[i] = p[i]
    BY <1>1, AppendProperties
  <2>5. a[Len(p) + 1] = s
    BY <1>1, AppendProperties
  <2> QED BY <2>1, <2>2, <2>3, <2>4, <2>5
<1>3. p \o <<s>> = a
  BY <1>1, AppendIsConcat
<1> HIDE DEF a
<1>4. /\ Front(a) \in Path /\ Len(Front(a)) = Len(p)
      /\ \A i \in 1 .. Len(p) : Front(a)[i] = p[i]
  <2>1. a \in Path /\ Len(a) - 1 = Len(p)
    BY <1>1, <1>2 DEF Path
  <2>2. /\ Front(a) \in Path /\ Len(Front(a)) = Len(a) - 1
        /\ \A i \in 1 .. Len(a) - 1 : Front(a)[i] = a[i]
    BY <1>2, <2>1, FrontIs
  <2> QED BY <1>2, <2>1, <2>2
<1>5. Front(a) = p
  BY <1>4, PathsEqual
<1> QED BY <1>2, <1>3, <1>5 DEF a, Path, Last

Dirs(t) == Above(Package(t)) \cup {Package(t)}

\* The places of an installation.
LEMMA PackagePaths ==
    ASSUME NEW t \in Workers, CallFits(t), Args(t).op = "install"
    PROVE  /\ Args(t).dest \in Path /\ Args(t).to \in Path \ {<<>>}
           /\ Front(Args(t).to) = Args(t).dest
           /\ Package(t) \in Path \ {<<>>} /\ Front(Package(t)) = Args(t).dest
           /\ Args(t).files \subseteq STRING /\ IsFiniteSet(Args(t).files) /\ Args(t).force
           /\ Args(t).path \in Path /\ ~IsPrefix(Args(t).dest, Args(t).path)
<1>1. PICK files : IsCall(files, Args(t))
  BY DEF CallFits
<1>2. IsInstallation(files, Args(t)) /\ Args(t).path \in Path /\ Args(t).to \in Path
  BY <1>1 DEF IsCall
<1>3. Args(t).to # <<>> /\ Args(t).dest = Front(Args(t).to) /\ Args(t).top \in STRING
  BY <1>2 DEF IsInstallation
<1>4. Args(t).dest \in Path
  BY <1>2, <1>3, FrontIs
<1>5. Package(t) \in Path \ {<<>>} /\ Front(Package(t)) = Args(t).dest
  BY <1>3, <1>4, AppendIs DEF Package
<1> QED BY <1>2, <1>3, <1>4, <1>5 DEF IsInstallation

\* The files of a package are in its directory.
LEMMA FilesInPackage ==
    ASSUME NEW t \in Workers, CallFits(t), Args(t).op = "install", NEW S \in SUBSET Args(t).files
    PROVE  /\ IsFiniteSet(InPackage(t, S)) /\ IsFiniteSet(Dirs(t))
           /\ \A p \in InPackage(t, S) : p \in Path \ {<<>>} /\ Front(p) = Package(t)
           /\ \A f \in S : Package(t) \o <<f>> \in InPackage(t, S)
<1>1. Package(t) \in Path /\ S \subseteq STRING /\ IsFiniteSet(S)
  BY PackagePaths, FS_Subset
<1>2. \A f \in S : Package(t) \o <<f>> \in Path \ {<<>>} /\ Front(Package(t) \o <<f>>) = Package(t)
  BY <1>1, AppendIs
<1>3. IsFiniteSet(InPackage(t, S))
  <2> DEFINE g == [f \in S |-> Package(t) \o <<f>>]
  <2>1. g \in Surjection(S, InPackage(t, S))
    BY DEF Surjection, InPackage
  <2> QED BY <1>1, <2>1, FS_Surjection
<1>4. IsFiniteSet(Dirs(t))
  BY <1>1, AboveIsFinite, FS_AddElement DEF Dirs
<1> QED BY <1>2, <1>3, <1>4 DEF InPackage

\* What is there after an extraction.
LEMMA ExtractIs ==
    ASSUME NEW t, NEW S, NEW c, Extract(t, S, c)
    PROVE  /\ DOMAIN fs' = DOMAIN fs \cup Dirs(t) \cup InPackage(t, S)
           /\ \A p \in InPackage(t, S) : fs'[p] = <<t, p>>
           /\ \A p \in Dirs(t) \ InPackage(t, S) : fs'[p] = Dir
           /\ \A p \in DOMAIN fs \ (Dirs(t) \cup InPackage(t, S)) : fs'[p] = fs[p]
<1>1. fs' = Updated(Updated(fs, All(Dirs(t), Dir)), [p \in InPackage(t, S) |-> <<t, p>>])
  BY DEF Extract, SetFs, Dirs
<1> QED BY <1>1 DEF Updated, All

\* An extraction leaves a tree.
LEMMA ExtractTree ==
    ASSUME TreeOK, NEW t \in Workers, CallFits(t), Args(t).op = "install", Extractable(t),
           NEW S \in SUBSET Args(t).files, NEW c, Extract(t, S, c)
    PROVE  TreeOK'
<1> DEFINE P == Package(t)
           F == InPackage(t, S)
<1>1. /\ DOMAIN fs' = DOMAIN fs \cup Dirs(t) \cup F
      /\ \A p \in Dirs(t) \ F : fs'[p] = Dir
      /\ \A p \in DOMAIN fs \ (Dirs(t) \cup F) : fs'[p] = fs[p]
  BY ExtractIs
<1>2. /\ P \in Path \ {<<>>} /\ IsFiniteSet(F) /\ IsFiniteSet(Dirs(t))
      /\ \A p \in F : p \in Path \ {<<>>} /\ Front(p) = P
  BY PackagePaths, FilesInPackage
<1>3. /\ Dirs(t) \subseteq Path \ {<<>>}
      /\ \A d \in Dirs(t) : IsPrefix(d, P)
      /\ \A d \in Path \ {<<>>} : IsPrefix(d, P) => d \in Dirs(t)
  BY <1>2, AboveIs, PrefixesCompare DEF Dirs
<1>4. DOMAIN fs \subseteq Path \ {<<>>} /\ IsFiniteSet(DOMAIN fs)
  BY DEF TreeOK
<1>5. DOMAIN fs' \subseteq Path \ {<<>>} /\ IsFiniteSet(DOMAIN fs')
  <2>1. IsFiniteSet(DOMAIN fs \cup Dirs(t))
    BY <1>2, <1>4, FS_Union
  <2>2. IsFiniteSet((DOMAIN fs \cup Dirs(t)) \cup F)
    BY <1>2, <2>1, FS_Union
  <2> QED BY <1>1, <1>2, <1>3, <1>4, <2>2
<1>6. \A p \in F : p \notin DOMAIN fs \/ fs[p] # Dir
  BY DEF Extractable, InPackage
<1>7. ASSUME NEW d \in Dirs(t) PROVE d \in DOMAIN fs' /\ fs'[d] = Dir
  <2>1. d \notin F
    <3> SUFFICES ASSUME d \in F PROVE FALSE
      OBVIOUS
    <3>1. IsPrefix(d, P) /\ Front(d) = P /\ d \in Path \ {<<>>}
      BY <1>2, <1>3
    <3> QED BY <1>2, <3>1, FrontPrefix
  <2> QED BY <1>1, <2>1
<1> HIDE DEF P, F
<1>8. ASSUME NEW m \in DOMAIN fs', NEW d \in Above(m) PROVE d \in DOMAIN fs' /\ fs'[d] = Dir
  <2>1. m \in Path /\ d \in Path \ {<<>>} /\ IsStrictPrefix(d, m) /\ IsPrefix(d, m)
    BY <1>5, AboveIs, PrefixesCompare
  <2>2. CASE m \in DOMAIN fs
    <3>1. d \in DOMAIN fs /\ fs[d] = Dir
      BY <2>2 DEF TreeOK
    <3> QED BY <1>1, <1>6, <1>7, <3>1
  <2>3. CASE m \in Dirs(t)
    <3>1. IsPrefix(d, P)
      BY <1>2, <1>3, <2>1, <2>3, PrefixesCompare
    <3> QED BY <1>3, <1>7, <2>1, <3>1
  <2>4. CASE m \in F
    <3>1. IsPrefix(d, P)
      BY <1>2, <2>1, <2>4, FrontPrefix
    <3> QED BY <1>3, <1>7, <2>1, <3>1
  <2> QED BY <1>1, <2>2, <2>3, <2>4
<1> QED BY <1>5, <1>8 DEF TreeOK

-----------------------------------------------------------------------------
(* Every step keeps the tree and the calls as they have to be              *)

\* What was there all the time still is, and as what it was.
StableKept ==
    /\ stable' \subseteq stable /\ stable' \subseteq DOMAIN fs'
    /\ \A p \in stable' : fs'[p] = Dir <=> fs[p] = Dir

\* What has been there all the time is there.
LEMMA FsStable ==
    ASSUME stable \subseteq DOMAIN fs, SameFs \/ \E new : SetFs(new)
    PROVE  StableKept
BY DEF SameFs, SetFs, StableKept

\* Where nothing changes, the tree stays one.
LEMMA SameTree == ASSUME TreeOK, SameFs PROVE TreeOK'
BY DEF SameFs, TreeOK, Above

\* A step does not change what a call was made for.
LEMMA CallStays ==
    ASSUME NEW t \in Workers, CallFits(t), OnlyOf(t), job'[t].path = job[t].path,
           job'[t].at # "mkdir"
    PROVE  CallFits(t)'
BY DEF CallFits, OnlyOf, Args

\* os.makedirs finds how far the path leads, and what is missing after it.
LEMMA StartWriteIs ==
    ASSUME JobsOK, NEW t \in Workers, CallFits(t), StartWrite(t)
    PROVE  /\ OnlyOf(t) /\ Same(t, {"at", "todo"}) /\ data' = data /\ SameFs
           /\ \/ Exists(Front(Args(t).path)) /\ job'[t].at = "open"
              \/ /\ job'[t].at = "mkdir"
                 /\ \E k \in 0 .. Len(Args(t).path) - 2 :
                       /\ Exists(SubSeq(Args(t).path, 1, k))
                       /\ job'[t].todo = ToMake(Args(t).path, k)
<1> DEFINE p == Args(t).path
<1>1. Args(t).op = "write" /\ p \in Path /\ p # <<>>
  BY DEF StartWrite, At, CallFits, IsCall
<1>2. Len(p) \in Nat /\ Len(p) >= 1
  BY <1>1, FrontIs, PathIs
<1>3. PICK n : n = Len(p)
  OBVIOUS
<1>4. PICK k : k = FoundAbove(p)
  OBVIOUS
<1> DEFINE There(i) == Exists(SubSeq(p, 1, i))
<1>5. k \in 0 .. n - 1 /\ There(k) /\ \A j \in k + 1 .. n - 1 : ~There(j)
  <2> DEFINE S == {n - 1 - i : i \in {i \in 0 .. n - 1 : There(i)}}
  <2>1. SubSeq(p, 1, 0) = <<>>
    <3>1. 0 \in 0 .. Len(p)
      BY <1>2
    <3> QED BY <1>1, <3>1, FirstNames, EmptySeq DEF Path
  <2>2. There(0) /\ 0 \in 0 .. n - 1
    BY <1>2, <1>3, <2>1 DEF Exists
  <2>3. n - 1 \in S /\ S \subseteq Nat
    BY <1>2, <1>3, <2>2 DEF S
  <2> HIDE DEF There, S
  <2>4. PICK m \in S : \A x \in S : m <= x
    <3>1. \E m \in S : \A x \in S : ~(<<x, m>> \in OpToRel(<, Nat))
      BY <2>3, NatLessThanWellFounded, WFMin, Zenon
    <3>2. PICK m \in S : \A x \in S : ~(<<x, m>> \in OpToRel(<, Nat))
      BY <3>1
    <3>3. \A x \in S : ~(x < m)
      BY <2>3, <3>2 DEF OpToRel
    <3>4. \A x \in S : m <= x
      BY <2>3, <3>3
    <3> QED BY <3>4
  <2>5. PICK i \in 0 .. n - 1 : There(i) /\ m = n - 1 - i
    BY <2>4 DEF S
  <2>6. ASSUME NEW j \in i + 1 .. n - 1, There(j) PROVE FALSE
    <3>1. j \in 0 .. n - 1 /\ n - 1 - j \in S
      BY <1>2, <1>3, <2>5, <2>6 DEF S
    <3>2. m <= n - 1 - j
      BY <2>4, <3>1
    <3> QED BY <1>2, <1>3, <2>5, <2>6, <3>1, <3>2
  <2>7. There(i) /\ \A j \in i + 1 .. n - 1 : ~There(j)
    BY <2>5, <2>6
  <2>8. k = CHOOSE l \in 0 .. n - 1 : There(l) /\ \A j \in l + 1 .. n - 1 : ~There(j)
    BY <1>3, <1>4 DEF FoundAbove, There
  <2> QED BY <2>7, <2>8
<1>6. job' = [job EXCEPT ![t].todo = ToMake(p, k),
                         ![t].at = IF Exists(Front(p)) THEN "open" ELSE "mkdir"]
  BY <1>4 DEF StartWrite, ToMake
<1>7. OnlyOf(t) /\ Same(t, {"at", "todo"}) /\ job'[t].todo = ToMake(p, k)
  BY <1>6 DEF JobsOK, OnlyOf, Same, JobFields
<1>8. job'[t].at = IF Exists(Front(p)) THEN "open" ELSE "mkdir"
  BY <1>6 DEF JobsOK, JobFields
<1>9. ASSUME ~Exists(Front(p)) PROVE k \in 0 .. n - 2
  <2>1. Front(p) = SubSeq(p, 1, n - 1)
    BY <1>1, <1>3, FrontIs
  <2>2. k # n - 1
    BY <1>5, <1>9, <2>1
  <2> QED BY <1>2, <1>3, <1>5, <2>2
<1>10. data' = data /\ SameFs
  BY DEF StartWrite
<1> QED BY <1>3, <1>5, <1>7, <1>8, <1>9, <1>10

\* The next directory to make, and those after it.
LEMMA MissingIs ==
    ASSUME NEW p \in Path, NEW k \in 0 .. Len(p) - 2
    PROVE  /\ Head(ToMake(p, k)) = SubSeq(p, 1, k + 1) /\ Tail(ToMake(p, k)) = ToMake(p, k + 1)
           /\ ToMake(p, k + 1) = <<>> <=> k = Len(p) - 2
<1>1. PICK n : n = Len(p)
  OBVIOUS
<1>2. n \in Nat /\ k \in Nat /\ k <= n - 2 /\ n >= 2
  BY <1>1, PathIs
<1> DEFINE F(i) == SubSeq(p, 1, i)
<1>3. ToMake(p, k) = [i \in 1 .. n - 1 - k |-> F(k + i)]
  BY <1>1 DEF ToMake
<1>4. ToMake(p, k + 1) = [i \in 1 .. n - 1 - (k + 1) |-> F(k + 1 + i)]
  BY <1>1 DEF ToMake
<1>5. \A i \in 0 .. n : F(i) \in Path
  BY <1>1, FirstNames
<1> HIDE DEF F
<1> DEFINE a == [i \in 1 .. n - 1 - k |-> F(k + i)]
           b == [i \in 1 .. n - 1 - (k + 1) |-> F(k + 1 + i)]
<1>6. /\ a \in Seq(Path) /\ Len(a) = n - 1 - k /\ a # <<>>
      /\ \A i \in 1 .. n - 1 - k : a[i] = F(k + i)
  BY <1>2, <1>5
<1>7. /\ b \in Seq(Path) /\ Len(b) = n - 2 - k
      /\ \A i \in 1 .. n - 2 - k : b[i] = F(k + 1 + i)
  BY <1>2, <1>5
<1> HIDE DEF a, b
<1>8. Head(a) = F(k + 1)
  BY <1>2, <1>6, HeadTailProperties
<1>9. /\ Tail(a) \in Seq(Path) /\ Len(Tail(a)) = n - 2 - k
      /\ \A i \in 1 .. n - 2 - k : Tail(a)[i] = F(k + 1 + i)
  <2>1. /\ Tail(a) \in Seq(Path) /\ Len(Tail(a)) = Len(a) - 1
        /\ \A i \in 1 .. Len(Tail(a)) : Tail(a)[i] = a[i + 1]
    BY <1>6, HeadTailProperties
  <2>2. ASSUME NEW i \in 1 .. n - 2 - k PROVE Tail(a)[i] = F(k + 1 + i)
    <3>1. i + 1 \in 1 .. n - 1 - k /\ k + (i + 1) = k + 1 + i /\ i \in 1 .. Len(Tail(a))
      BY <1>2, <1>6, <2>1
    <3>2. a[i + 1] = F(k + (i + 1))
      BY <1>6, <3>1
    <3> QED BY <2>1, <3>1, <3>2
  <2> QED BY <1>2, <1>6, <2>1, <2>2
<1>10. Tail(a) = b
  BY <1>7, <1>9, SeqEqual
<1>11. b = <<>> <=> k = n - 2
  BY <1>2, <1>7, EmptySeq
<1> QED BY <1>1, <1>3, <1>4, <1>8, <1>10, <1>11 DEF a, b, F

\* The next directory to make is above the file to write.
LEMMA MkdirWhere ==
    ASSUME SystemTypeOK, NEW t \in Workers, job[t].at = "mkdir"
    PROVE  /\ Args(t).path \in Path /\ Len(Args(t).path) \in Nat /\ Args(t).op = "write"
           /\ \E k \in 0 .. Len(Args(t).path) - 2 : job[t].todo = ToMake(Args(t).path, k)
<1>1. AtFits(t) /\ CallFits(t)
  BY DEF SystemTypeOK
<1>2. Args(t).path \in Path
  BY <1>1 DEF CallFits, IsCall
<1> QED BY <1>1, <1>2, PathIs DEF AtFits, CallFits

\* Another directory is there, or an error is raised.
MadeTo(t, k) ==
    \/ job'[t].at = "open" /\ k = Len(Args(t).path) - 2
    \/ job'[t].at = "mkdir" /\ job'[t].todo = ToMake(Args(t).path, k + 1)
          /\ k < Len(Args(t).path) - 2

\* A directory is made, or another thread made it, or something is in the way.
LEMMA MakeDirectoryIs ==
    ASSUME SystemTypeOK, NEW t \in Workers, MakeDirectory(t),
           NEW k \in 0 .. Len(Args(t).path) - 2, job[t].todo = ToMake(Args(t).path, k)
    PROVE  LET d == SubSeq(Args(t).path, 1, k + 1)
           IN  /\ OnlyOf(t) /\ Same(t, {"at", "todo", "result"}) /\ data' = data
               /\ d \in Path \ {<<>>} /\ Front(d) = SubSeq(Args(t).path, 1, k)
               /\ \/ Exists(d) /\ SameFs /\ MadeTo(t, k)
                  \/ ~Exists(d) /\ Added(d, Dir) /\ MadeTo(t, k)
                  \/ /\ ~Exists(d) /\ ~IsDir(Front(d)) /\ SameFs
                     /\ job'[t].at = "done" /\ job'[t].result = "OSError"
<1> DEFINE p == Args(t).path
           d == SubSeq(p, 1, k + 1)
           rest == ToMake(p, k + 1)
<1>1. p \in Path /\ Len(p) \in Nat /\ k \in Nat /\ k + 1 <= Len(p) - 1 /\ job[t].at = "mkdir"
  BY MkdirWhere DEF MakeDirectory, MkDir
<1>2. /\ Head(job[t].todo) = d /\ Tail(job[t].todo) = rest
      /\ rest = <<>> <=> k = Len(p) - 2
  BY <1>1, MissingIs
<1>3. d \in Path \ {<<>>} /\ Front(d) = SubSeq(p, 1, k)
  <2>1. /\ d \in Path /\ Len(d) = k + 1 /\ \A i \in 1 .. k + 1 : d[i] = p[i]
    <3>1. k + 1 \in 0 .. Len(p)
      BY <1>1
    <3> QED BY <1>1, <3>1, FirstNames
  <2>2. d # <<>>
    BY <1>1, <2>1, EmptySeq DEF Path
  <2>3. /\ Front(d) \in Path /\ Len(Front(d)) = k /\ \A i \in 1 .. k : Front(d)[i] = p[i]
    <3> HIDE DEF d
    <3>1. /\ Front(d) \in Path /\ Len(Front(d)) = Len(d) - 1
          /\ \A i \in 1 .. Len(d) - 1 : Front(d)[i] = d[i]
      BY <2>1, <2>2, FrontIs
    <3> QED BY <1>1, <2>1, <3>1
  <2> DEFINE e == SubSeq(p, 1, k)
  <2>4. e \in Path /\ Len(e) = k /\ \A i \in 1 .. k : e[i] = p[i]
    <3>1. k \in 0 .. Len(p)
      BY <1>1
    <3> QED BY <1>1, <3>1, FirstNames
  <2> HIDE DEF e, d
  <2>5. Front(d) = e
    BY <2>3, <2>4, PathsEqual
  <2> QED BY <2>1, <2>2, <2>5 DEF e
<1> HIDE DEF p, d, rest
<1>j. JobsOK
  BY DEF SystemTypeOK
<1>4. data' = data
  BY DEF MakeDirectory, MkDir
<1>5. \/ Exists(d) /\ rest = <<>> /\ Goto(t, "open") /\ SameFs
      \/ ~Exists(d) /\ ~IsDir(Front(d)) /\ Stop(t, "OSError") /\ SameFs
      \/ /\ ~(Exists(d) /\ rest = <<>>) /\ (Exists(d) \/ IsDir(Front(d)))
         /\ job' = [job EXCEPT ![t].todo = rest,
                               ![t].at = IF rest = <<>> THEN "open" ELSE "mkdir"]
         /\ IF Exists(d) THEN SameFs ELSE SetFs(Updated(fs, All({d}, Dir)))
  BY <1>2 DEF MakeDirectory, MkDir
<1>6. CASE Exists(d) /\ rest = <<>> /\ Goto(t, "open") /\ SameFs
  <2>1. OnlyOf(t) /\ Same(t, {"at", "todo", "result"}) /\ job'[t].at = "open"
    BY <1>6, <1>j, GotoIs DEF Same
  <2> QED BY <1>2, <1>3, <1>4, <1>6, <2>1 DEF p, d, MadeTo
<1>7. CASE ~Exists(d) /\ ~IsDir(Front(d)) /\ Stop(t, "OSError") /\ SameFs
  <2>1. /\ OnlyOf(t) /\ Same(t, {"at", "todo", "result"}) /\ job'[t].at = "done"
        /\ job'[t].result = "OSError"
    BY <1>7, <1>j, StopIs DEF Same
  <2> QED BY <1>3, <1>4, <1>7, <2>1 DEF p, d
<1>8. CASE /\ ~(Exists(d) /\ rest = <<>>) /\ (Exists(d) \/ IsDir(Front(d)))
           /\ job' = [job EXCEPT ![t].todo = rest,
                                 ![t].at = IF rest = <<>> THEN "open" ELSE "mkdir"]
           /\ IF Exists(d) THEN SameFs ELSE SetFs(Updated(fs, All({d}, Dir)))
  <2>1. /\ OnlyOf(t) /\ Same(t, {"at", "todo", "result"}) /\ job'[t].todo = rest
        /\ job'[t].at = IF rest = <<>> THEN "open" ELSE "mkdir"
    BY <1>8, <1>j DEF JobsOK, OnlyOf, Same, JobFields
  <2>2. MadeTo(t, k)
    <3>1. k < Len(p) - 2 \/ k = Len(p) - 2
      BY <1>1
    <3> QED BY <1>2, <2>1, <3>1 DEF MadeTo, p, rest
  <2>3. ~Exists(d) => Added(d, Dir)
    BY <1>3, <1>8 DEF Added, Exists
  <2> QED BY <1>3, <1>4, <1>8, <2>1, <2>2, <2>3 DEF p, d
<1> QED BY <1>5, <1>6, <1>7, <1>8

\* open(path, "w") of a file, which has its number if it is there.
FileAt(t) == IF Args(t).path \in DOMAIN fs THEN fs[Args(t).path] ELSE <<t, Args(t).path>>

\* The file is there afterwards, or something else is in the way.
LEMMA OpenIs ==
    ASSUME SystemTypeOK, NEW t \in Workers, Open(t)
    PROVE  LET p == Args(t).path
           IN  /\ OnlyOf(t) /\ Same(t, {"at", "result", "file"}) /\ p \in Path
               /\ \/ /\ p \in Path \ {<<>>} /\ Added(p, FileAt(t)) /\ ~IsDir(p)
                     /\ FileAt(t) # Dir
                     /\ job'[t].at = "fill" /\ job'[t].file = FileAt(t)
                     /\ job'[t].result = job[t].result
                     /\ data' = Updated(data, All({FileAt(t)}, ""))
                  \/ /\ IsDir(p) \/ ~IsDir(Front(p))
                     /\ job'[t].at = "done" /\ job'[t].result = "OSError" /\ data' = data /\ SameFs
<1> DEFINE p == Args(t).path
           f == IF Exists(p) THEN fs[p] ELSE <<t, p>>
<1>1. p \in Path /\ JobsOK
  BY DEF SystemTypeOK, CallFits, IsCall
<1>2. <<t, p>> # Dir
  BY <1>1, JobsAssumption
<1>3. CASE IsDir(p) \/ ~IsDir(Front(p))
  <2>1. Stop(t, "OSError") /\ data' = data /\ SameFs
    BY <1>3 DEF Open
  <2>2. OnlyOf(t) /\ Same(t, {"at", "result"}) /\ job'[t].at = "done" /\ job'[t].result = "OSError"
    BY <1>1, <2>1, StopIs
  <2> QED BY <1>1, <1>3, <2>1, <2>2 DEF Same
<1>4. CASE ~(IsDir(p) \/ ~IsDir(Front(p)))
  <2>1. /\ SetFs(Updated(fs, All({p}, f))) /\ data' = Updated(data, All({f}, ""))
        /\ job' = [job EXCEPT ![t].at = "fill", ![t].file = f]
    BY <1>4 DEF Open
  <2>2. p # <<>> /\ f = FileAt(t) /\ f # Dir
    BY <1>2, <1>4 DEF FileAt, Exists, IsDir
  <2>3. Added(p, f)
    BY <1>1, <1>4, <2>1, <2>2 DEF Added, FileAt
  <2> HIDE DEF p, f
  <2>4. OnlyOf(t) /\ Same(t, {"at", "result", "file"}) /\ job'[t].at = "fill" /\ job'[t].file = f
        /\ job'[t].result = job[t].result
    BY <1>1, <2>1 DEF JobsOK, OnlyOf, Same, JobFields
  <2> QED BY <1>1, <1>4, <2>1, <2>2, <2>3, <2>4 DEF p
<1> QED BY <1>3, <1>4

\* What is removed is at a path.
LEMMA DoomedIs ==
    ASSUME SystemTypeOK, NEW t \in Workers
    PROVE  JobsOK /\ TreeOK /\ CallFits(t) /\ CopyFits(t) /\ Doomed(t) \in Path /\ To(t) \in Path
BY DEF SystemTypeOK, CallFits, IsCall, To, Doomed

\* After a removal the call ends, or the source is moved.
Cleared(t) ==
    IF RemovesLast(t) THEN job'[t].at = "done" /\ job'[t].result = "ok"
    ELSE job'[t].at = "move" /\ job'[t].result = job[t].result

LEMMA AfterRemovalIs ==
    ASSUME JobsOK, NEW t \in Workers, AfterRemoval(t)
    PROVE  OnlyOf(t) /\ Same(t, {"at", "result"}) /\ Cleared(t)
<1>1. CASE RemovesLast(t)
  <2>1. Stop(t, "ok")
    BY <1>1 DEF AfterRemoval
  <2> QED BY <1>1, <2>1, StopIs DEF Cleared
<1>2. CASE ~RemovesLast(t)
  <2>1. Goto(t, "move")
    BY <1>2 DEF AfterRemoval
  <2>2. /\ OnlyOf(t) /\ Same(t, {"at", "result"})
        /\ job'[t].at = "move" /\ job'[t].result = job[t].result
    BY <2>1, GotoIs DEF Same, JobFields
  <2> QED BY <1>2, <2>2 DEF Cleared
<1> QED BY <1>1, <1>2

\* A file or a link is removed, or there is none.
LEMMA RemoveFileIs ==
    ASSUME SystemTypeOK, NEW t \in Workers, RemoveFile(t)
    PROVE  /\ OnlyOf(t) /\ Same(t, {"at", "result"}) /\ data' = data
           /\ \/ /\ Doomed(t) \in DOMAIN fs /\ fs[Doomed(t)] # Dir /\ Removed({Doomed(t)})
                 /\ Cleared(t)
              \/ SameFs /\ job'[t].at = "done" /\ job'[t].result = "OSError"
<1> DEFINE p == Doomed(t)
<1>1. JobsOK /\ TreeOK
  BY DEF SystemTypeOK
<1>2. CASE Exists(p) /\ ~IsDir(p)
  <2>1. SetFs(Without({p})) /\ data' = data /\ AfterRemoval(t)
    BY <1>2 DEF RemoveFile
  <2>2. p \in DOMAIN fs /\ fs[p] # Dir
    BY <1>2 DEF Exists, IsDir
  <2>3. Removed({p})
    BY <1>1, <2>1, <2>2 DEF Removed, TreeOK
  <2> QED BY <1>1, <2>1, <2>2, <2>3, AfterRemovalIs
<1>3. CASE ~(Exists(p) /\ ~IsDir(p))
  <2>1. Stop(t, "OSError") /\ SameFs /\ data' = data
    BY <1>3 DEF RemoveFile
  <2> QED BY <1>1, <2>1, StopIs
<1> QED BY <1>2, <1>3

\* What is below a directory is removed, or there is no directory.
LEMMA RmTreeIs ==
    ASSUME SystemTypeOK, NEW t \in Workers, RmTree(t)
    PROVE  /\ OnlyOf(t) /\ Same(t, {"at", "result"}) /\ data' = data /\ job[t].at = "rmtree"
           /\ \/ /\ IsDir(Doomed(t)) /\ Removed(Below(Doomed(t)))
                 /\ job'[t].at = "rmdir" /\ job'[t].result = job[t].result
              \/ SameFs /\ job'[t].at = "done" /\ job'[t].result = "OSError"
<1> DEFINE p == Doomed(t)
<1>1. JobsOK /\ TreeOK /\ p \in Path
  BY DoomedIs
<1> HIDE DEF p
<1>2. CASE IsDir(p)
  <2>1. Goto(t, "rmdir") /\ SetFs(Without(Below(p))) /\ data' = data /\ job[t].at = "rmtree"
    BY <1>2 DEF RmTree, p
  <2>2. ASSUME NEW d \in Below(p), NEW q \in DOMAIN fs, d \in Above(q) PROVE q \in Below(p)
    <3>1. d \in Path /\ q \in Path /\ IsStrictPrefix(p, d) /\ IsStrictPrefix(d, q)
      BY <1>1, <2>2, AboveIs DEF Below, TreeOK
    <3>2. IsStrictPrefix(p, q)
      BY <1>1, <3>1, PrefixesCompare
    <3> QED BY <3>2 DEF Below
  <2>3. Removed(Below(p))
    BY <2>1, <2>2 DEF Removed
  <2>4. /\ OnlyOf(t) /\ Same(t, {"at", "result"}) /\ job'[t].at = "rmdir"
        /\ job'[t].result = job[t].result
    BY <1>1, <2>1, GotoIs DEF Same, JobFields
  <2> QED BY <1>2, <2>1, <2>3, <2>4 DEF p
<1>3. CASE ~IsDir(p)
  <2>1. Stop(t, "OSError") /\ SameFs /\ data' = data /\ job[t].at = "rmtree"
    BY <1>3 DEF RmTree, p
  <2> QED BY <1>1, <2>1, StopIs
<1> QED BY <1>2, <1>3

\* The empty directory is removed, or it is not empty any more.
LEMMA RmDirIs ==
    ASSUME SystemTypeOK, NEW t \in Workers, RmDir(t)
    PROVE  /\ OnlyOf(t) /\ Same(t, {"at", "result"}) /\ data' = data /\ job[t].at = "rmdir"
           /\ \/ /\ IsDir(Doomed(t)) /\ Below(Doomed(t)) = {} /\ Removed({Doomed(t)})
                 /\ Cleared(t)
              \/ /\ ~(IsDir(Doomed(t)) /\ Below(Doomed(t)) = {})
                 /\ SameFs /\ job'[t].at = "done" /\ job'[t].result = "OSError"
<1> DEFINE p == Doomed(t)
<1>1. JobsOK /\ TreeOK /\ p \in Path
  BY DoomedIs
<1> HIDE DEF p
<1>2. CASE IsDir(p) /\ Below(p) = {}
  <2>1. AfterRemoval(t) /\ SetFs(Without({p})) /\ data' = data /\ job[t].at = "rmdir"
    BY <1>2 DEF RmDir, p
  <2>2. ASSUME NEW q \in DOMAIN fs, p \in Above(q) PROVE FALSE
    <3>1. IsStrictPrefix(p, q)
      BY <1>1, <2>2, AboveIs DEF TreeOK
    <3> QED BY <1>2, <3>1 DEF Below
  <2>3. Removed({p})
    BY <2>1, <2>2 DEF Removed
  <2> QED BY <1>1, <1>2, <2>1, <2>3, AfterRemovalIs DEF p
<1>3. CASE ~(IsDir(p) /\ Below(p) = {})
  <2>1. Stop(t, "OSError") /\ SameFs /\ data' = data /\ job[t].at = "rmdir"
    BY <1>3 DEF RmDir, p
  <2> QED BY <1>1, <1>3, <2>1, StopIs DEF p
<1> QED BY <1>2, <1>3

\* shutil.move into a directory that is there, else to the target's place.
Target(t) == IF IsDir(To(t)) THEN Append(To(t), Name(job[t].path)) ELSE To(t)

\* A source that is there can be moved to its target, as long as that is not in it.
Movable(t) ==
    LET q == Target(t)
    IN  /\ job[t].path \in DOMAIN fs /\ job[t].path \in Path \ {<<>>}
        /\ q \in Path \ {<<>>} /\ ~IsPrefix(job[t].path, q)
        /\ IsPrefix(To(t), q) /\ q \in {To(t), Append(To(t), Name(job[t].path))}
        /\ q \in DOMAIN fs => fs[q] # Dir

\* The file system does not rename it.
Unrenamed(t) ==
    LET q == Target(t)
    IN  ~(IsDir(Front(q)) /\ ~Across(t) /\ (Exists(q) => ~IsDir(job[t].path)))

\* The source is at its target, or is to be copied, or the move is impossible.
LEMMA MoveIs ==
    ASSUME SystemTypeOK, NEW t \in Workers, Move(t)
    PROVE  /\ OnlyOf(t) /\ data' = data /\ job[t].at = "move"
           /\ Same(t, {"at", "result", "target", "entries", "removal"})
           /\ \/ /\ Same(t, {"at", "result"}) /\ Relocated(job[t].path, Target(t))
                 /\ job'[t].at = "done" /\ job'[t].result = "ok"
              \/ /\ Same(t, {"at", "result"}) /\ SameFs
                 /\ job'[t].at = "done" /\ job'[t].result = "OSError"
              \/ /\ Movable(t) /\ Unrenamed(t) /\ SameFs
                 /\ job'[t].at = "copy" /\ job'[t].result = job[t].result
                 /\ job'[t].target = Target(t) /\ job'[t].removal \in {"unlink", "rmtree"}
                 /\ job'[t].entries = [r \in {job[t].path} |-> Kind(r)]
<1> DEFINE p == job[t].path
           q == Target(t)
           possible == p \in DOMAIN fs /\ ~IsPrefix(p, q) /\ (Exists(q) => ~IsDir(To(t)))
           renamed == IsDir(Front(q)) /\ ~Across(t) /\ (Exists(q) => ~IsDir(p))
<1>1. JobsOK /\ TreeOK /\ To(t) \in Path /\ p \in Path
  BY DoomedIs DEF CallFits
<1>2. data' = data /\ job[t].at = "move"
  BY DEF Move
<1>3. ASSUME possible PROVE Movable(t)
  <2>1. p # <<>> /\ p \in Path
    BY <1>1, <1>3 DEF TreeOK
  <2>2. Name(p) \in STRING
    <3>1. Len(p) \in 1 .. Len(p)
      BY <2>1, FrontIs, PathIs
    <3> QED BY <2>1, <3>1, PathIs DEF Name, Last
  <2>3. q \in Path \ {<<>>} /\ IsPrefix(To(t), q)
    <3>1. CASE IsDir(To(t))
      <4>1. /\ q \in Path \ {<<>>} /\ Front(q) = To(t)
        BY <1>1, <2>2, <3>1, AppendIs DEF Target
      <4>2. IsStrictPrefix(To(t), q)
        BY <4>1, FrontPrefix
      <4> QED BY <1>1, <4>1, <4>2, PrefixesCompare
    <3>2. CASE ~IsDir(To(t))
      BY <1>1, <3>2, PrefixesCompare DEF Target, IsDir
    <3> QED BY <3>1, <3>2
  <2>4. q \in DOMAIN fs => fs[q] # Dir
    <3> SUFFICES ASSUME q \in DOMAIN fs PROVE fs[q] # Dir
      OBVIOUS
    <3>1. ~IsDir(To(t))
      BY <1>3 DEF Exists
    <3>2. q = To(t)
      BY <3>1 DEF Target
    <3> QED BY <3>1, <3>2 DEF IsDir
  <2>5. q \in {To(t), Append(To(t), Name(p))}
    BY DEF Target
  <2> QED BY <1>3, <2>1, <2>3, <2>4, <2>5 DEF Movable
<1>4. CASE possible /\ renamed
  <2>1. SetFs(Moved(p, q)) /\ Stop(t, "ok")
    BY <1>4 DEF Move, Target
  <2>2. Relocated(p, q)
    BY <1>3, <1>4, <2>1 DEF Relocated, Movable
  <2>3. OnlyOf(t) /\ Same(t, {"at", "result"}) /\ job'[t].at = "done" /\ job'[t].result = "ok"
    BY <1>1, <2>1, StopIs
  <2> QED BY <1>2, <2>2, <2>3 DEF Same
<1>5. CASE ~possible
  <2>1. Stop(t, "OSError") /\ SameFs
    BY <1>5 DEF Move, Target
  <2>2. /\ OnlyOf(t) /\ Same(t, {"at", "result"})
        /\ job'[t].at = "done" /\ job'[t].result = "OSError"
    BY <1>1, <2>1, StopIs
  <2> QED BY <1>2, <2>1, <2>2 DEF Same
<1>6. CASE possible /\ ~renamed
  <2>1. PICK e, r : /\ job' = [job EXCEPT ![t].at = "copy", ![t].target = q, ![t].entries = e,
                                         ![t].removal = r]
                    /\ e = [x \in {p} |-> Kind(x)] /\ r \in {"unlink", "rmtree"} /\ SameFs
    BY <1>6 DEF Move, Target
  <2>2. Unrenamed(t)
    BY <1>6 DEF Unrenamed
  <2> HIDE DEF q
  <2>3. /\ OnlyOf(t) /\ Same(t, {"at", "target", "entries", "removal"})
        /\ job'[t].at = "copy" /\ job'[t].target = q /\ job'[t].entries = e
        /\ job'[t].removal = r /\ job'[t].result = job[t].result
    BY <1>1, <2>1 DEF JobsOK, OnlyOf, Same, JobFields
  <2> QED BY <1>2, <1>3, <1>6, <2>1, <2>2, <2>3 DEF Same, q
<1> QED BY <1>4, <1>5, <1>6

\* What was copied is not copied again; new is left to be copied instead.
CopyGoneOn(t, p, new) ==
    /\ OnlyOf(t) /\ Same(t, {"entries", "failed"})
    /\ DOMAIN job'[t].entries = (DOMAIN job[t].entries \ {p}) \cup DOMAIN new
    /\ \A r \in DOMAIN new : job'[t].entries[r] = new[r]
    /\ \A r \in DOMAIN job[t].entries \ ({p} \cup DOMAIN new) :
          job'[t].entries[r] = job[t].entries[r]
    /\ ~job'[t].failed => ~job[t].failed

LEMMA CopiedIs ==
    ASSUME JobsOK, NEW t \in Workers, NEW p, NEW new, NEW ok \in BOOLEAN, Copied(t, p, new, ok)
    PROVE  CopyGoneOn(t, p, new) /\ (~job'[t].failed => ok)
<1>1. PICK e, f : /\ job' = [job EXCEPT ![t].entries = e, ![t].failed = f]
                  /\ f = (job[t].failed \/ ~ok)
                  /\ e = Updated([r \in DOMAIN job[t].entries \ {p} |-> job[t].entries[r]], new)
  BY DEF Copied
<1>2. OnlyOf(t) /\ Same(t, {"entries", "failed"})
  BY <1>1 DEF JobsOK, OnlyOf, Same, JobFields
<1>3. job'[t].entries = e /\ job'[t].failed = f
  BY <1>1 DEF JobsOK, JobFields
<1>4. /\ DOMAIN e = (DOMAIN job[t].entries \ {p}) \cup DOMAIN new
      /\ \A r \in DOMAIN new : e[r] = new[r]
      /\ \A r \in DOMAIN job[t].entries \ ({p} \cup DOMAIN new) : e[r] = job[t].entries[r]
  BY <1>1 DEF Updated
<1>5. ~f => ~job[t].failed /\ ok
  BY <1>1
<1> QED BY <1>2, <1>3, <1>4, <1>5 DEF CopyGoneOn

\* What is still to be copied has a place to be copied to.
LEMMA CopyIs ==
    ASSUME SystemTypeOK, NEW t \in Workers, job[t].at = "copy", NEW p \in DOMAIN job[t].entries
    PROVE  /\ p \in Path \ {<<>>} /\ IsPrefix(job[t].path, p) /\ Name(p) \in STRING
           /\ Copy(t, p) \in Path \ {<<>>}
           /\ Copy(t, p) = MovedTo(job[t].path, job[t].target, p)
<1>1. /\ p \in Path /\ IsPrefix(job[t].path, p) /\ job[t].path \in Path \ {<<>>}
      /\ job[t].target \in Path \ {<<>>}
  BY DEF SystemTypeOK, CopyFits
<1>2. p # <<>>
  BY <1>1, PrefixIs, PathIs, EmptySeq DEF Path
<1>3. Name(p) \in STRING
  <2>1. Len(p) \in 1 .. Len(p)
    BY <1>1, <1>2, FrontIs, PathIs
  <2> QED BY <1>1, <2>1, PathIs DEF Name, Last
<1>4. Copy(t, p) = MovedTo(job[t].path, job[t].target, p)
  BY DEF Copy, MovedTo
<1> DEFINE c == MovedTo(job[t].path, job[t].target, p)
<1>5. c \in Path /\ IsPrefix(job[t].target, c)
  BY <1>1, MovedToIs
<1> HIDE DEF c
<1>6. c # <<>>
  BY <1>1, <1>5, PrefixIs, PathIs, EmptySeq DEF Path
<1> QED BY <1>1, <1>2, <1>3, <1>4, <1>5, <1>6 DEF c

\* Nothing is removed, and the tree stays one.
Grown == SameFs \/ (\E q, v : Added(q, v)) \/ \E q : DirsAdded(q)

\* What a step of a copy does with p: a directory is made and its entries are to be
\* copied, something else is copied, or there was an error.
Copies(t, p, new) ==
    /\ CopyGoneOn(t, p, new) /\ Grown /\ DOMAIN new \subseteq {p} \cup Entries(p)
    /\ \/ job[t].entries[p] = "made" /\ DOMAIN new = {}
       \/ job'[t].failed
       \/ ~IsDir(p) /\ DOMAIN new = {} /\ Copy(t, p) \in DOMAIN fs'
       \/ /\ IsDir(p) /\ DOMAIN new = {p} \cup Entries(p)
          /\ \A r \in Entries(p) \ {p} : new[r] # "made"

LEMMA NoEntries == DOMAIN <<>> = {}
OBVIOUS

\* A directory is made.
LEMMA CopyDirectoryIs ==
    ASSUME SystemTypeOK, NEW t \in Workers, CopyDirectory(t)
    PROVE  job[t].at = "copy" /\ \E p \in DOMAIN job[t].entries : \E new : Copies(t, p, new)
<1>1. PICK p \in Listed(t, "dir") :
          LET q == Copy(t, p)
              ok == IsDir(p) /\ ~Exists(q) /\ \A d \in Above(q) : Exists(d) => IsDir(d)
              new == [r \in {p} \cup Entries(p) |-> IF r = p THEN "made" ELSE Kind(r)]
          IN  /\ IF ok THEN SetFs(Updated(fs, All({q} \cup Above(q), Dir))) ELSE SameFs
              /\ Copied(t, p, IF ok THEN new ELSE <<>>, ok)
  BY DEF CopyDirectory
<1>2. p \in DOMAIN job[t].entries /\ job[t].at = "copy" /\ JobsOK
  BY DEF Listed, SystemTypeOK
<1>3. Copy(t, p) \in Path \ {<<>>}
  BY <1>2, CopyIs
<1>4. PICK q : q = Copy(t, p)
  OBVIOUS
<1>5. PICK ok \in BOOLEAN :
        ok = (IsDir(p) /\ ~Exists(q) /\ \A d \in Above(q) : Exists(d) => IsDir(d))
  OBVIOUS
<1>6. PICK new : new = [r \in {p} \cup Entries(p) |-> IF r = p THEN "made" ELSE Kind(r)]
  OBVIOUS
<1>7. CASE ok
  <2>1. /\ SetFs(Updated(fs, All({q} \cup Above(q), Dir))) /\ Copied(t, p, new, TRUE)
    BY <1>1, <1>4, <1>5, <1>6, <1>7
  <2>2. \A d \in {q} \cup Above(q) : d \in DOMAIN fs => fs[d] = Dir
    <3>1. Above(q) \subseteq Path \ {<<>>}
      BY <1>3, <1>4, AboveIs
    <3> QED BY <1>5, <1>7, <3>1 DEF Exists, IsDir
  <2>3. DirsAdded(q)
    BY <1>3, <1>4, <2>1, <2>2 DEF DirsAdded
  <2>4. CopyGoneOn(t, p, new)
    BY <1>2, <2>1, CopiedIs
  <2>5. \A r \in Entries(p) \ {p} : new[r] # "made"
    BY <1>6 DEF Kind
  <2>6. DOMAIN new = {p} \cup Entries(p)
    BY <1>6
  <2>7. IsDir(p)
    BY <1>5, <1>7
  <2> QED BY <1>2, <2>3, <2>4, <2>5, <2>6, <2>7 DEF Copies, Grown
<1>8. CASE ~ok
  <2>1. SameFs /\ Copied(t, p, <<>>, FALSE)
    BY <1>1, <1>4, <1>5, <1>6, <1>8
  <2>2. CopyGoneOn(t, p, <<>>) /\ job'[t].failed
    BY <1>2, <2>1, CopiedIs
  <2> QED BY <1>2, <2>1, <2>2, NoEntries DEF Copies, Grown
<1> QED BY <1>7, <1>8

\* A link is made.
LEMMA CopyLinkIs ==
    ASSUME SystemTypeOK, NEW t \in Workers, CopyLink(t)
    PROVE  job[t].at = "copy" /\ \E p \in DOMAIN job[t].entries : \E new : Copies(t, p, new)
<1>1. PICK p \in Listed(t, "link") :
          LET q == Copy(t, p)
              ok == Exists(p) /\ Kind(p) = "link" /\ ~Exists(q) /\ IsDir(Front(q))
          IN  /\ IF ok THEN SetFs(Updated(fs, All({q}, fs[p]))) ELSE SameFs
              /\ Copied(t, p, <<>>, ok)
  BY DEF CopyLink
<1>2. p \in DOMAIN job[t].entries /\ job[t].at = "copy" /\ JobsOK
  BY DEF Listed, SystemTypeOK
<1>3. Copy(t, p) \in Path \ {<<>>}
  BY <1>2, CopyIs
<1>4. PICK q : q = Copy(t, p)
  OBVIOUS
<1>5. PICK ok \in BOOLEAN : ok = (Exists(p) /\ Kind(p) = "link" /\ ~Exists(q) /\ IsDir(Front(q)))
  OBVIOUS
<1>6. CASE ok
  <2>1. SetFs(Updated(fs, All({q}, fs[p]))) /\ Copied(t, p, <<>>, TRUE)
    BY <1>1, <1>4, <1>5, <1>6
  <2>2. Added(q, fs[p])
    BY <1>3, <1>4, <1>5, <1>6, <2>1 DEF Added, Exists
  <2>3. CopyGoneOn(t, p, <<>>)
    BY <1>2, <2>1, CopiedIs
  <2>4. q \in DOMAIN fs'
    BY <2>2, AddedIs, ZenonT(40)
  <2>5. ~IsDir(p)
    <3>1. Kind(p) = "link" /\ <<>> \notin DOMAIN fs
      BY <1>5, <1>6 DEF SystemTypeOK, TreeOK
    <3> QED BY <3>1, JobsAssumption DEF Kind, IsDir
  <2> QED BY <1>2, <1>4, <2>2, <2>3, <2>4, <2>5, NoEntries DEF Copies, Grown
<1>7. CASE ~ok
  <2>1. SameFs /\ Copied(t, p, <<>>, FALSE)
    BY <1>1, <1>4, <1>5, <1>7
  <2>2. CopyGoneOn(t, p, <<>>) /\ job'[t].failed
    BY <1>2, <2>1, CopiedIs
  <2> QED BY <1>2, <2>1, <2>2, NoEntries DEF Copies, Grown
<1> QED BY <1>6, <1>7

\* A file is copied, into a directory if one is in its place.
LEMMA CopyFileIs ==
    ASSUME SystemTypeOK, NEW t \in Workers, CopyFile(t)
    PROVE  job[t].at = "copy" /\ \E p \in DOMAIN job[t].entries : \E new : Copies(t, p, new)
<1>1. PICK p \in Listed(t, "file") :
        LET q == IF IsDir(Copy(t, p)) THEN Append(Copy(t, p), Name(p)) ELSE Copy(t, p)
            f == IF Exists(q) THEN fs[q] ELSE <<t, q>>
            ok == /\ Exists(p) /\ ~IsDir(p) /\ fs[p] # f
                  /\ ~IsDir(q) /\ IsDir(Front(q))
        IN  /\ IF ok THEN SetFs(Updated(fs, All({q}, f))) ELSE SameFs
            /\ Copied(t, p, <<>>, ok)
  BY DEF CopyFile
<1>2. p \in DOMAIN job[t].entries /\ job[t].at = "copy" /\ JobsOK
  BY DEF Listed, SystemTypeOK
<1>3. Copy(t, p) \in Path \ {<<>>} /\ Name(p) \in STRING
  BY <1>2, CopyIs
<1>4. PICK q : q = IF IsDir(Copy(t, p)) THEN Append(Copy(t, p), Name(p)) ELSE Copy(t, p)
  OBVIOUS
<1>5. PICK f : f = IF Exists(q) THEN fs[q] ELSE <<t, q>>
  OBVIOUS
<1>6. PICK ok \in BOOLEAN :
        ok = (/\ Exists(p) /\ ~IsDir(p) /\ fs[p] # f
              /\ ~IsDir(q) /\ IsDir(Front(q)))
  OBVIOUS
<1>7. q \in Path \ {<<>>}
  BY <1>3, <1>4, AppendIs
<1>8. CASE ok
  <2>1. SetFs(Updated(fs, All({q}, f))) /\ Copied(t, p, <<>>, TRUE)
    BY <1>1, <1>4, <1>5, <1>6, <1>8
  <2>2. Added(q, f)
    BY <1>5, <1>6, <1>7, <1>8, <2>1 DEF Added, Exists
  <2>3. CopyGoneOn(t, p, <<>>)
    BY <1>2, <2>1, CopiedIs
  <2>4. Copy(t, p) \in DOMAIN fs'
    BY <1>3, <1>4, <2>2, AddedIs DEF IsDir
  <2>5. ~IsDir(p)
    BY <1>6, <1>8
  <2> QED BY <1>2, <2>2, <2>3, <2>4, <2>5, NoEntries DEF Copies, Grown
<1>9. CASE ~ok
  <2>1. SameFs /\ Copied(t, p, <<>>, FALSE)
    BY <1>1, <1>4, <1>5, <1>6, <1>9
  <2>2. CopyGoneOn(t, p, <<>>) /\ job'[t].failed
    BY <1>2, <2>1, CopiedIs
  <2> QED BY <1>2, <2>1, <2>2, NoEntries DEF Copies, Grown
<1> QED BY <1>8, <1>9

\* The attributes of a directory.
LEMMA CopyStatIs ==
    ASSUME SystemTypeOK, NEW t \in Workers, CopyStat(t)
    PROVE  job[t].at = "copy" /\ \E p \in DOMAIN job[t].entries : \E new : Copies(t, p, new)
<1>1. PICK p \in Listed(t, "made") : Copied(t, p, <<>>, Exists(p) /\ Exists(Copy(t, p)))
  BY DEF CopyStat
<1>2. p \in DOMAIN job[t].entries /\ job[t].at = "copy" /\ JobsOK /\ job[t].entries[p] = "made"
  BY DEF Listed, SystemTypeOK
<1>3. SameFs
  BY DEF CopyStat
<1>4. PICK ok \in BOOLEAN : ok = (Exists(p) /\ Exists(Copy(t, p)))
  OBVIOUS
<1>5. Copied(t, p, <<>>, ok)
  BY <1>1, <1>4
<1>6. CopyGoneOn(t, p, <<>>)
  BY <1>2, <1>5, CopiedIs
<1> QED BY <1>2, <1>3, <1>6, NoEntries DEF Copies, Grown

Copying(t) == CopyDirectory(t) \/ CopyLink(t) \/ CopyFile(t) \/ CopyStat(t)

\* A step of a copy.
LEMMA CopyingIs ==
    ASSUME SystemTypeOK, NEW t \in Workers, Copying(t)
    PROVE  job[t].at = "copy" /\ \E p \in DOMAIN job[t].entries : \E new : Copies(t, p, new)
BY CopyDirectoryIs, CopyLinkIs, CopyFileIs, CopyStatIs DEF Copying

\* When all is copied, the source is to be removed, unless there was an error.
LEMMA EndCopyIs ==
    ASSUME JobsOK, NEW t \in Workers, EndCopy(t)
    PROVE  /\ OnlyOf(t) /\ Same(t, {"at", "result"}) /\ SameFs /\ data' = data
           /\ job[t].at = "copy" /\ DOMAIN job[t].entries = {}
           /\ \/ job'[t].at = "done" /\ job'[t].result = "OSError"
              \/ /\ ~job[t].failed /\ job'[t].at = job[t].removal
                 /\ job'[t].result = job[t].result
<1>1. SameFs /\ data' = data /\ job[t].at = "copy" /\ DOMAIN job[t].entries = {}
  BY DEF EndCopy
<1>2. CASE job[t].failed
  <2>1. Stop(t, "OSError")
    BY <1>2 DEF EndCopy
  <2> QED BY <1>1, <2>1, StopIs
<1>3. CASE ~job[t].failed
  <2>1. Goto(t, job[t].removal)
    BY <1>3 DEF EndCopy
  <2>2. OnlyOf(t) /\ Same(t, {"at"}) /\ job'[t].at = job[t].removal
    BY <2>1, GotoIs
  <2>3. Same(t, {"at", "result"}) /\ job'[t].result = job[t].result
    BY <2>2 DEF Same, JobFields
  <2> QED BY <1>1, <1>3, <2>2, <2>3
<1> QED BY <1>2, <1>3

\* An archive that is whole is extracted and will be renamed; else some of it is.
LEMMA UntarIs ==
    ASSUME SystemTypeOK, NEW t \in Workers, Untar(t)
    PROVE  /\ OnlyOf(t) /\ Args(t).op = "install"
           /\ \/ /\ ~Extractable(t) /\ SameFs /\ data' = data /\ Same(t, {"at", "result"})
                 /\ job'[t].at = "done" /\ job'[t].result = "OSError"
              \/ /\ Extractable(t) /\ Extract(t, Args(t).files, "new") /\ Same(t, {"at", "path"})
                 /\ job'[t].at = "rename" /\ job'[t].path = Package(t)
              \/ /\ Extractable(t) /\ \E S \in SUBSET Args(t).files : Extract(t, S, "cut")
                 /\ Retry(t)
<1>1. JobsOK
  BY DEF SystemTypeOK
<1>2. Args(t).op = "install"
  BY DEF Untar, At
<1>3. CASE ~Extractable(t)
  <2>1. Stop(t, "OSError") /\ SameFs /\ data' = data
    BY <1>3 DEF Untar
  <2> QED BY <1>1, <1>2, <1>3, <2>1, StopIs
<1>4. CASE Extractable(t) /\ data[fs[Archive(t)]] = "whole"
  <2>1. /\ Extract(t, Args(t).files, "new")
        /\ job' = [job EXCEPT ![t].at = "rename", ![t].path = Package(t)]
    BY <1>4 DEF Untar
  <2>2. OnlyOf(t) /\ Same(t, {"at", "path"}) /\ job'[t].at = "rename" /\ job'[t].path = Package(t)
    BY <1>1, <2>1 DEF JobsOK, OnlyOf, Same, JobFields
  <2> QED BY <1>2, <1>4, <2>1, <2>2
<1>5. CASE Extractable(t) /\ ~(data[fs[Archive(t)]] = "whole")
  <2>1. (\E S \in SUBSET Args(t).files : Extract(t, S, "cut")) /\ Retry(t)
    BY <1>5 DEF Untar
  <2> QED BY <1>1, <1>2, <1>5, <2>1, RetryIs
<1> QED BY <1>3, <1>4, <1>5

\* The contents of the file that is open.
LEMMA FillIs ==
    ASSUME JobsOK, NEW t \in Workers, Fill(t)
    PROVE  /\ OnlyOf(t) /\ Same(t, {"at", "result"}) /\ SameFs
           /\ job'[t].at = "done" /\ job'[t].result = "ok" /\ job[t].at = "fill"
           /\ Args(t).op \in {"write", "make"}
           /\ data' = [data EXCEPT ![job[t].file] = Contents(job[t].file, Args(t).contents)]
BY StopIs DEF Fill

\* What comes over the connection.
LEMMA DownloadIs ==
    ASSUME JobsOK, NEW t \in Workers, Download(t)
    PROVE  /\ OnlyOf(t) /\ Same(t, {"at", "result", "attempt"}) /\ SameFs
           /\ Args(t).op = "install" /\ job[t].at = "fill"
           /\ \E c : data' = [data EXCEPT ![job[t].file] = c]
           /\ \/ job'[t].at \in {"untar", "start"} /\ job'[t].result = job[t].result
              \/ job'[t].at = "done" /\ job'[t].result \in {"callback", "ConnectionError"}
<1>1. SameFs /\ Args(t).op = "install" /\ job[t].at = "fill"
  BY DEF Download, At
<1>2. ASSUME NEW c, data' = [data EXCEPT ![job[t].file] = c], Goto(t, "untar")
      PROVE  /\ OnlyOf(t) /\ Same(t, {"at", "result", "attempt"})
             /\ job'[t].at = "untar" /\ job'[t].result = job[t].result
  BY <1>2, GotoIs DEF Same, JobFields
<1>3. ASSUME Retry(t)
      PROVE  /\ OnlyOf(t) /\ Same(t, {"at", "result", "attempt"})
             /\ \/ job'[t].at = "start" /\ job'[t].result = job[t].result
                \/ job'[t].at = "done" /\ job'[t].result \in {"callback", "ConnectionError"}
  BY <1>3, RetryIs
<1>4. /\ \E c : data' = [data EXCEPT ![job[t].file] = c]
      /\ (\E c : data' = [data EXCEPT ![job[t].file] = c] /\ Goto(t, "untar")) \/ Retry(t)
  BY DEF Download
<1> QED BY <1>1, <1>2, <1>3, <1>4

\* A search begins with its roots.
LEMMA StartSearchIs ==
    ASSUME JobsOK, NEW t \in Workers, StartSearch(t)
    PROVE  /\ OnlyOf(t) /\ Same(t, {"at", "todo"}) /\ SameFs /\ data' = data
           /\ Args(t).op = "search" /\ job[t].at = "start"
           /\ job'[t].at = "walk" /\ job'[t].todo = Args(t).roots
<1>1. /\ job' = [job EXCEPT ![t].at = "walk", ![t].todo = Args(t).roots]
      /\ SameFs /\ data' = data /\ Args(t).op = "search" /\ job[t].at = "start"
  BY DEF StartSearch, At
<1> QED BY <1>1 DEF JobsOK, OnlyOf, Same, JobFields

\* The matching files of a directory, and its directories.
MatchesIn(d) == {p \in Entries(d) : ~IsDir(p) /\ Name(p) \in Matching}
Subdirs(d) == {p \in Entries(d) : IsDir(p)}

\* A directory is listed, or none is left.
LEMMA WalkIs ==
    ASSUME JobsOK, NEW t \in Workers, Walk(t)
    PROVE  /\ OnlyOf(t) /\ Same(t, {"at", "todo", "names", "result"}) /\ SameFs /\ data' = data
           /\ Args(t).op = "search" /\ job[t].at = "walk" /\ job[t].names = {}
           /\ \/ /\ job[t].todo = <<>> /\ job'[t].at = "done" /\ job'[t].result = "ok"
                 /\ job'[t].names = job[t].names
              \/ /\ job[t].todo # <<>> /\ job'[t].at = "walk" /\ job'[t].result = job[t].result
                 /\ job'[t].names = MatchesIn(Head(job[t].todo))
                 /\ job'[t].todo = SetToSeq(Subdirs(Head(job[t].todo))) \o Tail(job[t].todo)
<1>1. SameFs /\ data' = data /\ Args(t).op = "search" /\ job[t].at = "walk" /\ job[t].names = {}
  BY DEF Walk, At
<1>2. CASE job[t].todo = <<>>
  <2>1. Stop(t, "ok")
    BY <1>2 DEF Walk
  <2> QED BY <1>1, <1>2, <2>1, StopIs DEF Same, JobFields
<1>3. CASE job[t].todo # <<>>
  <2>1. PICK n, s : /\ job' = [job EXCEPT ![t].names = n, ![t].todo = s]
                    /\ n = MatchesIn(Head(job[t].todo))
                    /\ s = SetToSeq(Subdirs(Head(job[t].todo))) \o Tail(job[t].todo)
    BY <1>3 DEF Walk, MatchesIn, Subdirs
  <2>2. /\ OnlyOf(t) /\ Same(t, {"todo", "names"}) /\ job'[t].names = n /\ job'[t].todo = s
        /\ job'[t].at = job[t].at /\ job'[t].result = job[t].result
    BY <2>1 DEF JobsOK, OnlyOf, Same, JobFields
  <2> QED BY <1>1, <1>3, <2>1, <2>2 DEF Same
<1> QED BY <1>2, <1>3

\* A file is looked at, or is gone.
LEMMA StatIs ==
    ASSUME JobsOK, NEW t \in Workers, Stat(t)
    PROVE  /\ OnlyOf(t) /\ Same(t, {"at", "names", "found", "result"}) /\ SameFs /\ data' = data
           /\ Args(t).op = "search" /\ job[t].at = "walk"
           /\ \E p \in job[t].names :
                 \/ /\ Exists(p) /\ job'[t].at = "walk" /\ job'[t].names = job[t].names \ {p}
                    /\ job'[t].found = IF Name(p) \in Ignored THEN job[t].found
                                       ELSE job[t].found \cup {p}
                 \/ /\ ~Exists(p) /\ job'[t].at = "done" /\ job'[t].result = "OSError"
                    /\ job'[t].names = {p}
<1>1. SameFs /\ data' = data /\ Args(t).op = "search" /\ job[t].at = "walk"
  BY DEF Stat, At
<1>2. PICK p \in job[t].names :
          job' = IF Exists(p)
                 THEN [job EXCEPT ![t].names = @ \ {p},
                                  ![t].found = IF Name(p) \in Ignored THEN @ ELSE @ \cup {p}]
                 ELSE [job EXCEPT ![t].names = {p}, ![t].at = "done", ![t].result = "OSError"]
  BY DEF Stat
<1>3. CASE Exists(p)
  <2>1. PICK n, s : /\ job' = [job EXCEPT ![t].names = n, ![t].found = s]
                    /\ n = job[t].names \ {p}
                    /\ s = IF Name(p) \in Ignored THEN job[t].found ELSE job[t].found \cup {p}
    BY <1>2, <1>3
  <2>2. /\ OnlyOf(t) /\ Same(t, {"names", "found"}) /\ job'[t].names = n /\ job'[t].found = s
        /\ job'[t].at = job[t].at
    BY <2>1 DEF JobsOK, OnlyOf, Same, JobFields
  <2> QED BY <1>1, <1>3, <2>1, <2>2 DEF Same
<1>4. CASE ~Exists(p)
  <2>1. job' = [job EXCEPT ![t].names = {p}, ![t].at = "done", ![t].result = "OSError"]
    BY <1>2, <1>4
  <2>2. OnlyOf(t) /\ Same(t, {"at", "names", "result"})
    BY <2>1 DEF JobsOK, OnlyOf, Same, JobFields
  <2>3. job'[t].at = "done" /\ job'[t].result = "OSError" /\ job'[t].names = {p}
    BY <2>1 DEF JobsOK, JobFields
  <2> QED BY <1>1, <1>4, <2>2, <2>3 DEF Same
<1> QED BY <1>3, <1>4

\* The steps that only decide how a call goes on.
Decision(t) == StartMake(t) \/ Request(t) \/ StartCommand(t) \/ Spawn(t)

\* A decision moves the call on, or ends it.
LEMMA DecisionIs ==
    ASSUME JobsOK, NEW t \in Workers, Decision(t)
    PROVE  /\ OnlyOf(t) /\ Same(t, {"at", "result", "attempt"}) /\ SameFs /\ data' = data
           /\ \/ Args(t).op = "make" /\ job'[t].at \in {"open", "done"}
              \/ /\ Args(t).op = "install" /\ job[t].at = "start"
                 /\ \/ job'[t].at \in {"start", "open"} /\ job'[t].result = job[t].result
                    \/ job'[t].at = "done" /\ job'[t].result \in {"callback", "ConnectionError"}
              \/ Args(t).op = "run" /\ job'[t].at \in {"spawn", "done"}
<1>1. SameFs /\ data' = data
  BY DEF Decision, StartMake, Request, StartCommand, Spawn
<1>2. ASSUME NEW a, Goto(t, a)
      PROVE  /\ OnlyOf(t) /\ Same(t, {"at", "result", "attempt"}) /\ job'[t].at = a
             /\ job'[t].result = job[t].result
  BY <1>2, GotoIs DEF Same, JobFields
<1>3. ASSUME NEW r, Stop(t, r)
      PROVE  /\ OnlyOf(t) /\ Same(t, {"at", "result", "attempt"}) /\ job'[t].at = "done"
             /\ job'[t].result = r
  BY <1>3, StopIs DEF Same
<1>4. CASE StartMake(t)
  <2>1. Args(t).op = "make" /\ (Goto(t, "open") \/ Stop(t, "false"))
    BY <1>4 DEF StartMake, At
  <2> QED BY <1>1, <1>2, <1>3, <2>1
<1>5. CASE Request(t)
  <2>1. Args(t).op = "install" /\ job[t].at = "start" /\ (Retry(t) \/ Goto(t, "open"))
    BY <1>5 DEF Request, At
  <2> QED BY <1>1, <1>2, <2>1, RetryIs
<1>6. CASE StartCommand(t)
  <2>1. Args(t).op = "run" /\ (Goto(t, "spawn") \/ Stop(t, "CommandError"))
    BY <1>6 DEF StartCommand, At
  <2> QED BY <1>1, <1>2, <1>3, <2>1
<1>7. CASE Spawn(t)
  <2>1. Args(t).op = "run" /\ \E r : Stop(t, r)
    BY <1>7 DEF Spawn, At
  <2> QED BY <1>1, <1>3, <2>1
<1> QED BY <1>4, <1>5, <1>6, <1>7 DEF Decision

\* A step that stays with its call keeps the call right.
LEMMA KeepsCall ==
    ASSUME NEW t \in Workers, CallFits(t), OnlyOf(t),
           Same(t, {"at", "names", "found", "todo", "file", "attempt", "source", "link",
               "target", "entries", "failed", "removal", "result"}), job'[t].at # "mkdir"
    PROVE  CallFits(t)' /\ Args(t)' = Args(t)
<1>1. job'[t].path = job[t].path
  BY DEF Same, JobFields
<1> QED BY <1>1, CallStays DEF OnlyOf, Args

\* Nothing is copied after a step from a place where nothing is.
LEMMA NothingToCopy ==
    ASSUME NEW t \in Workers, CopyFits(t), job'[t].removal = job[t].removal, job'[t].at # "copy",
           job[t].at \notin {"copy", "unlink", "rmtree", "rmdir", "done"}
    PROVE  CopyFits(t)' /\ job[t].removal = ""
<1>1. job[t].removal = ""
  BY DEF CopyFits
<1> QED BY <1>1 DEF CopyFits

\* The tree stays a tree, and the call of the thread remains what it was for.
StepFits(t) ==
    TreeOK' /\ StableKept /\ OnlyOf(t) /\ AtFits(t)' /\ CallFits(t)' /\ CopyFits(t)'

\* The steps of a write leave a tree and calls that fit.
LEMMA WritesFit ==
    ASSUME SystemTypeOK, NEW t \in Workers,
           StartWrite(t) \/ MakeDirectory(t) \/ Open(t) \/ Fill(t)
    PROVE  StepFits(t)
<1>1. TreeOK /\ JobsOK /\ stable \subseteq DOMAIN fs /\ AtFits(t) /\ CallFits(t) /\ CopyFits(t)
  BY DEF SystemTypeOK
<1>2. CASE StartWrite(t)
  <2>1. /\ OnlyOf(t) /\ Same(t, {"at", "todo"}) /\ SameFs /\ Args(t).op = "write"
        /\ job[t].at = "start"
        /\ \/ job'[t].at = "open"
           \/ /\ job'[t].at = "mkdir"
              /\ \E k \in 0 .. Len(Args(t).path) - 2 : job'[t].todo = ToMake(Args(t).path, k)
    BY <1>1, <1>2, StartWriteIs DEF StartWrite, At
  <2>2. /\ Args(t)' = Args(t) /\ job'[t].path = job[t].path
        /\ job'[t].removal = job[t].removal
    BY <2>1 DEF OnlyOf, Args, Same, JobFields
  <2>3. CallFits(t)' /\ AtFits(t)'
    BY <1>1, <2>1, <2>2 DEF CallFits, AtFits
  <2>4. CopyFits(t)'
    BY <1>1, <2>1, <2>2, NothingToCopy
  <2> QED BY <1>1, <2>1, <2>3, <2>4, SameTree, FsStable DEF StepFits
<1>3. CASE MakeDirectory(t)
  <2>1. PICK k \in 0 .. Len(Args(t).path) - 2 : job[t].todo = ToMake(Args(t).path, k)
    BY <1>3, MkdirWhere DEF MakeDirectory, MkDir
  <2>2. /\ OnlyOf(t) /\ Same(t, {"at", "todo", "result"})
        /\ SameFs \/ \E d : Added(d, Dir)
        /\ job'[t].at = "done" \/ MadeTo(t, k)
    BY <1>3, <2>1, MakeDirectoryIs
  <2>3. /\ Args(t)' = Args(t) /\ job'[t].path = job[t].path /\ Args(t).op = "write"
        /\ Args(t).path \in Path /\ Len(Args(t).path) \in Nat
        /\ job[t].at = "mkdir" /\ job'[t].removal = job[t].removal
    BY <1>3, <2>2, MkdirWhere DEF OnlyOf, Args, Same, JobFields, MakeDirectory, MkDir
  <2>4. k < Len(Args(t).path) - 2 => k + 1 \in 0 .. Len(Args(t).path) - 2
    BY <2>3
  <2>5. \/ job'[t].at \in {"done", "open"}
        \/ /\ job'[t].at = "mkdir"
           /\ \E l \in 0 .. Len(Args(t).path) - 2 : job'[t].todo = ToMake(Args(t).path, l)
    BY <2>2, <2>4 DEF MadeTo
  <2>6. CallFits(t)' /\ AtFits(t)'
    BY <1>1, <2>2, <2>3, <2>5 DEF CallFits, AtFits
  <2>7. TreeOK' /\ StableKept
    BY <1>1, <2>2, SameTree, AddedTree, FsStable DEF Added
  <2>8. CopyFits(t)'
    BY <1>1, <2>3, <2>5, NothingToCopy
  <2> QED BY <2>2, <2>6, <2>7, <2>8 DEF StepFits
<1>4. CASE Open(t)
  <2>1. /\ OnlyOf(t) /\ Same(t, {"at", "result", "file"})
        /\ SameFs \/ Added(Args(t).path, FileAt(t))
        /\ job'[t].at \in {"fill", "done"}
    BY <1>4, OpenIs
  <2>2. job[t].at = "open" /\ job'[t].removal = job[t].removal
    BY <1>4, <2>1 DEF Open, Same, JobFields
  <2>3. CallFits(t)' /\ Args(t)' = Args(t)
    BY <1>1, <2>1, KeepsCall DEF Same
  <2>4. AtFits(t)'
    BY <1>1, <2>1, <2>2, <2>3 DEF AtFits
  <2>5. TreeOK' /\ StableKept
    BY <1>1, <2>1, SameTree, AddedTree, FsStable DEF Added
  <2>6. CopyFits(t)'
    BY <1>1, <2>1, <2>2, NothingToCopy
  <2> QED BY <2>1, <2>3, <2>4, <2>5, <2>6 DEF StepFits
<1>5. CASE Fill(t)
  <2>1. /\ OnlyOf(t) /\ Same(t, {"at", "result"}) /\ SameFs /\ job'[t].at = "done"
        /\ job[t].at = "fill"
    BY <1>1, <1>5, FillIs
  <2>2. CallFits(t)' /\ Args(t)' = Args(t)
    BY <1>1, <2>1, KeepsCall DEF Same
  <2>3. AtFits(t)'
    BY <1>1, <2>1, <2>2 DEF AtFits
  <2>4. CopyFits(t)'
    BY <1>1, <2>1, NothingToCopy DEF Same, JobFields
  <2> QED BY <1>1, <2>1, <2>2, <2>3, <2>4, SameTree, FsStable DEF StepFits
<1> QED BY <1>2, <1>3, <1>4, <1>5

\* So do those of a rename or a removal,
LEMMA RenamesFit ==
    ASSUME SystemTypeOK, NEW t \in Workers,
           \/ StartRename(t) \/ CheckTarget(t)
           \/ RemoveFile(t) \/ RmTree(t) \/ RmDir(t) \/ Move(t)
    PROVE  StepFits(t)
<1>1. TreeOK /\ JobsOK /\ stable \subseteq DOMAIN fs /\ AtFits(t) /\ CallFits(t) /\ CopyFits(t)
  BY DEF SystemTypeOK
<1>2. CASE StartRename(t) \/ CheckTarget(t)
  <2>1. /\ OnlyOf(t) /\ Same(t, {"at", "result", "link", "source"}) /\ SameFs
        /\ job'[t].at \in {"done", "exists", "unlink", "rmtree", "move"}
        /\ Args(t).op \in {"rename", "install"}
        /\ job[t].at \in {"start", "rename", "exists"}
    <3>1. CASE StartRename(t)
      BY <1>1, <3>1, BeginRenameIs DEF StartRename, BeginRename, At
    <3>2. CASE CheckTarget(t)
      BY <1>1, <3>2, CheckTargetIs DEF AtFits, Same
    <3> QED BY <1>2, <3>1, <3>2
  <2>2. CallFits(t)' /\ Args(t)' = Args(t)
    BY <1>1, <2>1, KeepsCall DEF Same
  <2>3. AtFits(t)'
    BY <1>1, <2>1, <2>2 DEF AtFits
  <2>4. CopyFits(t)'
    BY <1>1, <2>1, NothingToCopy DEF Same, JobFields
  <2> QED BY <1>1, <2>1, <2>2, <2>3, <2>4, SameTree, FsStable DEF StepFits
<1>3. CASE RemoveFile(t) \/ RmTree(t) \/ RmDir(t)
  <2>1. /\ OnlyOf(t) /\ Same(t, {"at", "result"}) /\ (SameFs \/ \E S : Removed(S))
        /\ \/ job'[t].at \in {"done", "rmdir"}
           \/ job'[t].at = "move" /\ job[t].at \in {"unlink", "rmdir"} /\ job[t].removal = ""
        /\ job'[t].at = "rmdir" => job[t].at = "rmtree"
    <3>1. CASE RemoveFile(t)
      <4>1. job[t].at = "unlink" \/ (Args(t).op = "remove" /\ job[t].at = "start")
        BY <3>1 DEF RemoveFile, At
      <4>2. \/ job'[t].at = "done"
            \/ job'[t].at = "move" /\ Args(t).op # "remove" /\ job[t].removal = ""
        BY <3>1, RemoveFileIs DEF Cleared, RemovesLast
      <4> QED BY <3>1, <4>1, <4>2, RemoveFileIs
    <3>2. CASE RmTree(t)
      BY <3>2, RmTreeIs
    <3>3. CASE RmDir(t)
      <4>1. job'[t].at = "done" \/ (job'[t].at = "move" /\ job[t].removal = "")
        BY <3>3, RmDirIs DEF Cleared, RemovesLast
      <4> QED BY <3>3, <4>1, RmDirIs
    <3> QED BY <1>3, <3>1, <3>2, <3>3
  <2>2. CallFits(t)' /\ Args(t)' = Args(t)
    BY <1>1, <2>1, KeepsCall DEF Same
  <2>3. AtFits(t)'
    BY <1>1, <2>1, <2>2 DEF AtFits
  <2>4. TreeOK' /\ StableKept
    BY <1>1, <2>1, SameTree, RemovedTree, FsStable DEF Removed
  <2>5. /\ job'[t].removal = job[t].removal /\ job'[t].path = job[t].path
        /\ job'[t].target = job[t].target /\ To(t)' = To(t)
    BY <2>1, <2>2 DEF Same, JobFields, To
  <2>6. CopyFits(t)'
    BY <1>1, <2>1, <2>5 DEF CopyFits
  <2> QED BY <2>1, <2>2, <2>3, <2>4, <2>6 DEF StepFits
<1>4. CASE Move(t)
  <2>1. /\ OnlyOf(t) /\ Same(t, {"at", "result", "target", "entries", "removal"})
        /\ job[t].at = "move" /\ job'[t].at \in {"done", "copy"}
        /\ SameFs \/ Relocated(job[t].path, Target(t))
    BY <1>4, MoveIs
  <2>2. CallFits(t)' /\ Args(t)' = Args(t)
    BY <1>1, <2>1, KeepsCall DEF Same
  <2>3. AtFits(t)'
    BY <1>1, <2>1, <2>2 DEF AtFits
  <2>4. TreeOK' /\ StableKept
    BY <1>1, <2>1, SameTree, RelocatedTree, FsStable DEF Relocated
  <2>5. job'[t].path = job[t].path /\ To(t)' = To(t)
    BY <2>1, <2>2 DEF Same, JobFields, To
  <2>6. CASE job'[t].at = "done"
    <3>1. job'[t].removal = job[t].removal
      BY <1>4, <2>6, MoveIs DEF Same, JobFields
    <3> QED BY <1>1, <2>1, <2>2, <2>3, <2>4, <2>6, <3>1, NothingToCopy DEF StepFits
  <2>7. CASE job'[t].at = "copy"
    <3>1. /\ Movable(t) /\ job'[t].target = Target(t) /\ job'[t].removal \in {"unlink", "rmtree"}
          /\ job'[t].entries = [r \in {job[t].path} |-> Kind(r)]
      BY <1>4, <2>7, MoveIs
    <3>2. \A p \in DOMAIN job'[t].entries : p \in Path /\ IsPrefix(job[t].path, p)
      BY <3>1, PrefixesCompare DEF Movable
    <3>3. CopyFits(t)'
      BY <2>5, <2>7, <3>1, <3>2 DEF CopyFits, Movable
    <3> QED BY <2>1, <2>2, <2>3, <2>4, <3>3 DEF StepFits
  <2> QED BY <2>1, <2>6, <2>7
<1> QED BY <1>2, <1>3, <1>4

\* What only grows stays a tree.
LEMMA GrownIs ==
    ASSUME TreeOK, stable \subseteq DOMAIN fs, Grown
    PROVE  TreeOK' /\ StableKept /\ \A q \in DOMAIN fs : q \in DOMAIN fs' /\ fs'[q] = fs[q]
<1>1. CASE SameFs
  BY <1>1, SameTree, FsStable DEF SameFs
<1>2. ASSUME NEW q, NEW v, Added(q, v)
      PROVE  TreeOK' /\ StableKept /\ \A r \in DOMAIN fs : r \in DOMAIN fs' /\ fs'[r] = fs[r]
  BY <1>2, AddedTree, AddedIs, FsStable DEF Added
<1>3. ASSUME NEW q, DirsAdded(q)
      PROVE  TreeOK' /\ StableKept /\ \A r \in DOMAIN fs : r \in DOMAIN fs' /\ fs'[r] = fs[r]
  BY <1>3, DirsAddedTree, DirsAddedIs, FsStable DEF DirsAdded
<1> QED BY <1>1, <1>2, <1>3 DEF Grown

\* those of a copy,
LEMMA CopiesFit ==
    ASSUME SystemTypeOK, NEW t \in Workers, Copying(t) \/ EndCopy(t)
    PROVE  StepFits(t)
<1>1. TreeOK /\ JobsOK /\ stable \subseteq DOMAIN fs /\ AtFits(t) /\ CallFits(t) /\ CopyFits(t)
  BY DEF SystemTypeOK
<1>2. CASE EndCopy(t)
  <2>1. /\ OnlyOf(t) /\ Same(t, {"at", "result"}) /\ SameFs /\ job[t].at = "copy"
        /\ job'[t].at \in {"done", job[t].removal}
    BY <1>1, <1>2, EndCopyIs
  <2>2. job[t].removal \in {"unlink", "rmtree"}
    BY <1>1, <2>1 DEF CopyFits
  <2>3. CallFits(t)' /\ Args(t)' = Args(t)
    BY <1>1, <2>1, <2>2, KeepsCall DEF Same
  <2>4. AtFits(t)'
    BY <1>1, <2>1, <2>2, <2>3 DEF AtFits
  <2>5. /\ job'[t].removal = job[t].removal /\ job'[t].path = job[t].path
        /\ job'[t].target = job[t].target /\ To(t)' = To(t)
    BY <2>1, <2>3 DEF Same, JobFields, To
  <2>6. CopyFits(t)'
    BY <1>1, <2>1, <2>2, <2>5 DEF CopyFits
  <2> QED BY <1>1, <2>1, <2>3, <2>4, <2>6, SameTree, FsStable DEF StepFits
<1>3. CASE Copying(t)
  <2>a. PICK p \in DOMAIN job[t].entries : job[t].at = "copy" /\ \E new : Copies(t, p, new)
    BY <1>3, CopyingIs
  <2>1. PICK new : job[t].at = "copy" /\ Copies(t, p, new)
    BY <2>a
  <2>2. /\ OnlyOf(t) /\ Same(t, {"entries", "failed"}) /\ Grown
        /\ DOMAIN job'[t].entries \subseteq DOMAIN job[t].entries \cup ({p} \cup Entries(p))
    BY <2>1 DEF Copies, CopyGoneOn
  <2>3. /\ job'[t].at = "copy" /\ job'[t].removal = job[t].removal
        /\ job'[t].path = job[t].path /\ job'[t].target = job[t].target
    BY <2>1, <2>2 DEF Same, JobFields
  <2>4. CallFits(t)' /\ Args(t)' = Args(t) /\ To(t)' = To(t)
    BY <1>1, <2>2, <2>3, KeepsCall DEF Same, To
  <2>5. AtFits(t)'
    BY <1>1, <2>1, <2>3, <2>4 DEF AtFits
  <2>6. ASSUME NEW r \in Entries(p) PROVE r \in Path /\ IsPrefix(job[t].path, r)
    <3>1. r \in Path \ {<<>>} /\ Front(r) = p
      BY <1>1 DEF Entries, TreeOK
    <3>2. p \in Path /\ IsPrefix(job[t].path, p) /\ job[t].path \in Path
      BY <1>1, <2>1 DEF CopyFits
    <3>3. IsPrefix(p, r)
      BY <3>1, <3>2, FrontPrefix, PrefixesCompare
    <3> QED BY <3>1, <3>2, <3>3, PrefixesCompare
  <2>7. \A r \in DOMAIN job'[t].entries : r \in Path /\ IsPrefix(job[t].path, r)
    BY <1>1, <2>1, <2>2, <2>6 DEF CopyFits
  <2>8. CopyFits(t)'
    BY <1>1, <2>1, <2>3, <2>4, <2>7 DEF CopyFits
  <2>9. TreeOK' /\ StableKept
    BY <1>1, <2>2, GrownIs
  <2> QED BY <2>2, <2>4, <2>5, <2>8, <2>9 DEF StepFits
<1> QED BY <1>2, <1>3

\* those of an installation,
LEMMA InstallsFit ==
    ASSUME SystemTypeOK, NEW t \in Workers, Download(t) \/ Untar(t)
    PROVE  StepFits(t)
<1>1. TreeOK /\ JobsOK /\ stable \subseteq DOMAIN fs /\ AtFits(t) /\ CallFits(t) /\ CopyFits(t)
  BY DEF SystemTypeOK
<1>2. CASE Download(t)
  <2>1. /\ OnlyOf(t) /\ Same(t, {"at", "result", "attempt"}) /\ SameFs /\ Args(t).op = "install"
        /\ job'[t].at \in {"untar", "start", "done"} /\ job[t].at = "fill"
    BY <1>1, <1>2, DownloadIs
  <2>2. CallFits(t)' /\ Args(t)' = Args(t)
    BY <1>1, <2>1, KeepsCall DEF Same
  <2>3. AtFits(t)'
    BY <1>1, <2>1, <2>2 DEF AtFits
  <2>4. CopyFits(t)'
    BY <1>1, <2>1, NothingToCopy DEF Same, JobFields
  <2> QED BY <1>1, <2>1, <2>2, <2>3, <2>4, SameTree, FsStable DEF StepFits
<1>3. CASE Untar(t)
  <2>1. /\ OnlyOf(t) /\ Args(t).op = "install" /\ Args(t)' = Args(t) /\ job[t].at = "untar"
    BY <1>3, UntarIs DEF OnlyOf, Args, Untar, At
  <2>2. job'[t].at \in {"done", "rename", "start"}
    BY <1>1, <1>3, UntarIs, RetryIs
  <2>3. /\ job'[t].path = job[t].path \/ job'[t].path = Package(t)
        /\ job'[t].removal = job[t].removal
    <3>1. \/ Same(t, {"at", "result"})
          \/ job'[t].path = Package(t) /\ Same(t, {"at", "path"})
          \/ Retry(t)
      BY <1>3, UntarIs
    <3>2. Retry(t) => Same(t, {"at", "result", "attempt"})
      BY <1>1, RetryIs
    <3> QED BY <3>1, <3>2 DEF Same, JobFields
  <2>4. Package(t) \in Path
    BY <1>1, <2>1, PackagePaths
  <2>5. CallFits(t)' /\ AtFits(t)'
    BY <1>1, <2>1, <2>2, <2>3, <2>4 DEF CallFits, AtFits
  <2>6. SameFs \/ (Extractable(t) /\ \E S \in SUBSET Args(t).files : \E c : Extract(t, S, c))
    BY <1>3, UntarIs
  <2>7. TreeOK'
    BY <1>1, <2>1, <2>6, SameTree, ExtractTree
  <2>8. StableKept
    BY <1>1, <2>6, FsStable DEF Extract
  <2>9. CopyFits(t)'
    BY <1>1, <2>1, <2>2, <2>3, NothingToCopy
  <2> QED BY <2>1, <2>5, <2>7, <2>8, <2>9 DEF StepFits
<1> QED BY <1>2, <1>3

\* and all others.
LEMMA OthersFit ==
    ASSUME SystemTypeOK, NEW t \in Workers,
           StartSearch(t) \/ Walk(t) \/ Stat(t) \/ Decision(t)
    PROVE  StepFits(t)
<1>1. TreeOK /\ JobsOK /\ stable \subseteq DOMAIN fs /\ AtFits(t) /\ CallFits(t) /\ CopyFits(t)
  BY DEF SystemTypeOK
<1>2. /\ OnlyOf(t) /\ SameFs
      /\ Same(t, {"at", "names", "found", "todo", "file", "attempt", "source", "result"})
      /\ job[t].at \in {"start", "walk", "spawn"}
      /\ \/ job'[t].at \in {"done", "start"}
         \/ job'[t].at = "walk" /\ Args(t).op = "search"
         \/ job'[t].at = "open" /\ Args(t).op \in {"make", "install"}
         \/ job'[t].at = "spawn" /\ Args(t).op = "run"
  <2>1. CASE StartSearch(t)
    BY <1>1, <2>1, StartSearchIs DEF Same
  <2>2. CASE Walk(t)
    BY <1>1, <2>2, WalkIs DEF Same
  <2>3. CASE Stat(t)
    BY <1>1, <2>3, StatIs DEF Same
  <2>4. CASE Decision(t)
    <3>1. job[t].at \in {"start", "spawn"}
      BY <2>4 DEF Decision, StartMake, Request, StartCommand, Spawn, At
    <3> QED BY <1>1, <2>4, <3>1, DecisionIs DEF Same
  <2> QED BY <2>1, <2>2, <2>3, <2>4
<1>3. CallFits(t)' /\ Args(t)' = Args(t)
  BY <1>1, <1>2, KeepsCall DEF Same
<1>4. AtFits(t)'
  BY <1>1, <1>2, <1>3 DEF AtFits
<1>5. CopyFits(t)'
  BY <1>1, <1>2, NothingToCopy DEF Same, JobFields
<1> QED BY <1>1, <1>2, <1>3, <1>4, <1>5, SameTree, FsStable DEF StepFits

\* Every step leaves a tree and a call that fits, and the calls of the other threads.
LEMMA StepsFit == ASSUME SystemTypeOK, NEW t \in Workers, Step(t) PROVE StepFits(t)
BY WritesFit, RenamesFit, CopiesFit, InstallsFit, OthersFit DEF Step, Decision, Copying

\* The type invariant is kept,
LEMMA SystemTypeNext == ASSUME SystemTypeOK, [SystemNext]_systemVars PROVE SystemTypeOK'
<1>1. CASE UNCHANGED systemVars
  BY <1>1, ZenonT(40)
  DEF systemVars, SystemTypeOK, TreeOK, Above, JobsOK, AtFits, CallFits, CopyFits, Args, To
<1>2. ASSUME NEW t \in Workers, Step(t) PROVE SystemTypeOK'
  <2>1. StepFits(t)
    BY <1>2, StepsFit
  <2>2. /\ DOMAIN job' = Workers /\ DOMAIN job'[t] = JobFields
        /\ \A u \in Workers \ {t} : job'[u] = job[u]
    BY <2>1 DEF StepFits, OnlyOf
  <2>3. JobsOK'
    BY <2>2 DEF SystemTypeOK, JobsOK
  <2>4. ASSUME NEW u \in Workers \ {t} PROVE AtFits(u)' /\ CallFits(u)' /\ CopyFits(u)'
    <3>1. job'[u] = job[u] /\ AtFits(u) /\ CallFits(u) /\ CopyFits(u)
      BY <2>2 DEF SystemTypeOK
    <3>2. AtFits(u)'
      BY <3>1 DEF AtFits, Args
    <3>3. CallFits(u)'
      BY <3>1 DEF CallFits, Args
    <3>4. CopyFits(u)'
      BY <3>1 DEF CopyFits, Args, To
    <3> QED BY <3>2, <3>3, <3>4
  <2> QED BY <2>1, <2>3, <2>4 DEF StepFits, StableKept, SystemTypeOK
<1> QED BY <1>1, <1>2 DEF SystemNext

\* and holds in the beginning.
LEMMA SystemTypeInit == ASSUME SystemInit PROVE SystemTypeOK
<1>1. PICK j \in Jobs :
        /\ fs = j.fs /\ stable = DOMAIN j.fs
        /\ job = [t \in Workers |->
                    [args |-> j.calls[t], at |-> "start", path |-> j.calls[t].path,
                     todo |-> <<>>, names |-> {}, found |-> {}, file |-> <<>>,
                     attempt |-> 0, source |-> Files(j.fs, j.calls[t].to),
                     link |-> FALSE, target |-> <<>>, entries |-> <<>>, failed |-> FALSE,
                     removal |-> "", result |-> "none"]]
  BY DEF SystemInit
<1>2. IsTree(j.fs) /\ \A t \in Workers : IsCall(j.fs, j.calls[t])
  BY JobsAssumption
<1>3. TreeOK
  <2>1. DOMAIN fs \subseteq Path \ {<<>>} /\ IsFiniteSet(DOMAIN fs)
    BY <1>1, <1>2 DEF IsTree
  <2>2. ASSUME NEW p \in DOMAIN fs, NEW d \in Above(p) PROVE d \in DOMAIN fs /\ fs[d] = Dir
    <3>1. PICK i \in 1 .. Len(p) - 1 : d = SubSeq(p, 1, i)
      BY DEF Above
    <3>2. SubSeq(p, 1, i) \in DOMAIN fs /\ fs[SubSeq(p, 1, i)] = Dir
      BY <1>1, <1>2 DEF IsTree
    <3> QED BY <3>1, <3>2
  <2> QED BY <2>1, <2>2 DEF TreeOK
<1>4. JobsOK
  BY <1>1 DEF JobsOK, JobFields
<1>5. ASSUME NEW t \in Workers PROVE AtFits(t) /\ CallFits(t) /\ CopyFits(t)
  <2>1. /\ job[t].at = "start" /\ job[t].args = j.calls[t] /\ job[t].path = j.calls[t].path
        /\ job[t].removal = ""
    BY <1>1
  <2>2. job[t].path \in Path
    BY <1>2, <2>1 DEF IsCall
  <2> QED BY <1>2, <2>1, <2>2 DEF AtFits, CallFits, CopyFits, Args
<1> QED BY <1>1, <1>3, <1>4, <1>5 DEF SystemTypeOK

\* A call begins with nothing done.
LEMMA CallBegins ==
    ASSUME SystemInit, NEW t \in Workers
    PROVE  /\ job[t].at = "start" /\ job[t].names = {} /\ job[t].result = "none"
           /\ job[t].removal = ""
<1>1. PICK j \in Jobs :
        job = [u \in Workers |->
                    [args |-> j.calls[u], at |-> "start", path |-> j.calls[u].path,
                     todo |-> <<>>, names |-> {}, found |-> {}, file |-> <<>>,
                     attempt |-> 0, source |-> Files(j.fs, j.calls[u].to),
                     link |-> FALSE, target |-> <<>>, entries |-> <<>>, failed |-> FALSE,
                     removal |-> "", result |-> "none"]]
  BY DEF SystemInit
<1> QED BY <1>1

-----------------------------------------------------------------------------
(* Searches                                                                *)

In(s, x) == \E i \in 1 .. Len(s) : s[i] = x

\* A sequence of elements of a set is one of elements of a larger set.
LEMMA SeqOfMore ==
    ASSUME NEW S, NEW T, S \subseteq T, NEW s \in Seq(S)
    PROVE  s \in Seq(T)
<1>1. PICK n \in Nat : s \in [1 .. n -> S]
  BY LenProperties
<1>2. s \in [1 .. n -> T]
  BY <1>1
<1> QED BY <1>2

\* The members of a concatenation.
LEMMA InConcat ==
    ASSUME NEW S, NEW s \in Seq(S), NEW r \in Seq(S), NEW x, In(s, x) \/ In(r, x)
    PROVE  In(s \o r, x)
<1> DEFINE c == s \o r
<1>1. /\ Len(c) = Len(s) + Len(r) /\ Len(s) \in Nat /\ Len(r) \in Nat
      /\ \A i \in 1 .. Len(s) + Len(r) : c[i] = IF i <= Len(s) THEN s[i] ELSE r[i - Len(s)]
  BY ConcatProperties, LenProperties
<1> HIDE DEF c
<1>2. ASSUME NEW i \in 1 .. Len(s), s[i] = x PROVE In(c, x)
  <2>1. i \in 1 .. Len(s) + Len(r) /\ i <= Len(s)
    BY <1>1
  <2> QED BY <1>1, <1>2, <2>1 DEF In
<1>3. ASSUME NEW i \in 1 .. Len(r), r[i] = x PROVE In(c, x)
  <2>1. PICK k : k = Len(s) + i
    OBVIOUS
  <2>2. k \in 1 .. Len(s) + Len(r) /\ ~(k <= Len(s)) /\ k - Len(s) = i
    BY <1>1, <2>1
  <2>3. c[k] = x
    BY <1>1, <1>3, <2>2
  <2> QED BY <1>1, <2>2, <2>3 DEF In
<1>4. In(c, x)
  BY <1>2, <1>3 DEF In
<1> QED BY <1>4 DEF c

\* A set as a sequence has all its elements.
LEMMA SetToSeqIs ==
    ASSUME NEW S, IsFiniteSet(S)
    PROVE  SetToSeq(S) \in Seq(S) /\ \A x \in S : In(SetToSeq(S), x)
<1>1. PICK n : n = Cardinality(S)
  OBVIOUS
<1>2. n \in Nat /\ ExistsBijection(1 .. n, S)
  BY <1>1, FS_CardinalityType
<1>3. PICK f : f \in Injection(1 .. n, S)
  BY <1>2 DEF ExistsBijection, Bijection
<1>4. f \in [1 .. n -> S] /\ IsInjective(f)
  BY <1>3 DEF Injection, IsInjective
<1>5. PICK g : g = SetToSeq(S)
  OBVIOUS
<1>6. g = CHOOSE h \in [1 .. n -> S] : IsInjective(h)
  BY <1>1, <1>5 DEF SetToSeq
<1>7. g \in [1 .. n -> S] /\ IsInjective(g)
  BY <1>4, <1>6
<1>8. g \in Injection(1 .. n, S)
  BY <1>7 DEF Injection, IsInjective
<1>9. Cardinality(1 .. n) = n
  BY <1>2, FS_Interval
<1>10. g \in Surjection(1 .. n, S)
  BY <1>1, <1>8, <1>9, FS_Injection
<1>11. g \in Seq(S) /\ Len(g) = n
  BY <1>2, <1>7
<1> QED BY <1>5, <1>10, <1>11 DEF Surjection, In

\* What a search has to find: what was there all the time.
ToFind(t) ==
    {p \in stable : /\ Name(p) \in Matching \ Ignored /\ ~IsDir(p)
                    /\ \E r \in ToSet(Args(t).roots) : IsStrictPrefix(r, p)}

SearchFits(t) ==
    /\ job[t].at = "start" => job[t].names = {}
    /\ job[t].at = "walk" =>
          /\ job[t].todo \in Seq(Path)
          /\ \A p \in job[t].names : Name(p) \in Matching
          /\ \A p \in ToFind(t) :
                p \in job[t].found \cup job[t].names
                   \/ \E d : In(job[t].todo, d) /\ IsStrictPrefix(d, p)
    /\ job[t].at = "done" =>
          IF job[t].result = "ok" THEN ToFind(t) \subseteq job[t].found
          ELSE \A p \in job[t].names : Name(p) \in Matching /\ p \notin stable

SearchInv == \A t \in Workers : Args(t).op = "search" => SearchFits(t)

\* What a search has to find was there all the time before the step, too.
LEMMA ToFindShrinks ==
    ASSUME SystemTypeOK, StableKept, NEW t \in Workers, Args(t)' = Args(t)
    PROVE  ToFind(t)' \subseteq ToFind(t) /\ stable' \subseteq stable
<1>1. \A p \in stable' :
        p \in stable /\ p \in DOMAIN fs /\ p \in DOMAIN fs' /\ (fs'[p] = Dir <=> fs[p] = Dir)
  BY DEF StableKept, SystemTypeOK
<1> QED BY <1>1 DEF ToFind, IsDir, Args, SystemTypeOK

\* A path below a directory is in it, or in or below a directory in it.
LEMMA NextBelow ==
    ASSUME TreeOK, NEW p \in DOMAIN fs, ~IsDir(p), NEW d \in Path, IsStrictPrefix(d, p),
           Name(p) \in Matching
    PROVE  p \in MatchesIn(d) \/ \E e \in Subdirs(d) : IsStrictPrefix(e, p)
<1>1. p \in Path /\ Len(p) \in Nat /\ Len(d) \in Nat /\ Len(d) < Len(p) /\ p # <<>>
  BY PathIs, PrefixIs DEF TreeOK
<1>2. PICK n : n = Len(d) + 1
  OBVIOUS
<1> DEFINE e == SubSeq(p, 1, n)
<1>3. n \in 0 .. Len(p) /\ n >= 1
  BY <1>1, <1>2
<1>4. e \in Path /\ Len(e) = n /\ \A i \in 1 .. n : e[i] = p[i]
  BY <1>1, <1>3, FirstNames
<1>5. IsPrefix(e, p) /\ (n < Len(p) => IsStrictPrefix(e, p))
  BY <1>1, <1>3, FirstIsPrefix
<1> HIDE DEF e
<1>6. e # <<>>
  BY <1>3, <1>4, EmptySeq
<1>7. Front(e) = d
  <2>1. \A i \in 1 .. Len(d) : d[i] = p[i]
    BY <1>1, PrefixIs
  <2>2. /\ Front(e) \in Path /\ Len(Front(e)) = Len(e) - 1
        /\ \A i \in 1 .. Len(e) - 1 : Front(e)[i] = e[i]
    BY <1>4, <1>6, FrontIs
  <2>3. Len(e) - 1 = Len(d) /\ \A i \in 1 .. Len(d) : i \in 1 .. n
    BY <1>1, <1>2, <1>4
  <2>4. Len(Front(e)) = Len(d) /\ \A i \in 1 .. Len(d) : Front(e)[i] = d[i]
    BY <1>4, <2>1, <2>2, <2>3
  <2> QED BY <2>2, <2>4, PathsEqual
<1>8. CASE n < Len(p)
  <2>1. e \in DOMAIN fs /\ fs[e] = Dir
    BY <1>1, <1>4, <1>5, <1>6, <1>8, AboveIs DEF TreeOK
  <2> QED BY <1>5, <1>6, <1>7, <1>8, <2>1 DEF Subdirs, Entries, IsDir
<1>9. CASE n = Len(p)
  <2>1. e = p
    BY <1>1, <1>4, <1>9, PathsEqual
  <2> QED BY <1>1, <1>7, <2>1 DEF MatchesIn, Entries
<1> QED BY <1>1, <1>2, <1>8, <1>9

\* When a directory is listed, what it has to find is in its files or in its subdirectories.
LEMMA WalkSearches ==
    ASSUME SystemTypeOK, NEW t \in Workers, Walk(t), SearchFits(t), StableKept
    PROVE  SearchFits(t)'
<1>1. JobsOK /\ TreeOK /\ stable \subseteq DOMAIN fs
  BY DEF SystemTypeOK
<1>2. /\ OnlyOf(t) /\ Same(t, {"at", "todo", "names", "result"})
      /\ job[t].at = "walk" /\ job[t].names = {}
      /\ \/ /\ job[t].todo = <<>> /\ job'[t].at = "done" /\ job'[t].result = "ok"
            /\ job'[t].names = job[t].names
         \/ /\ job[t].todo # <<>> /\ job'[t].at = "walk"
            /\ job'[t].names = MatchesIn(Head(job[t].todo))
            /\ job'[t].todo = SetToSeq(Subdirs(Head(job[t].todo))) \o Tail(job[t].todo)
  BY <1>1, WalkIs
<1>3. Args(t)' = Args(t) /\ job'[t].found = job[t].found
  BY <1>2 DEF OnlyOf, Args, Same, JobFields
<1>4. ToFind(t)' \subseteq ToFind(t)
  BY <1>3, ToFindShrinks
<1>5. /\ job[t].todo \in Seq(Path)
      /\ \A p \in ToFind(t) :
            p \in job[t].found \cup job[t].names
               \/ \E d : In(job[t].todo, d) /\ IsStrictPrefix(d, p)
  BY <1>2 DEF SearchFits
<1>6. CASE job[t].todo = <<>> /\ job'[t].at = "done" /\ job'[t].result = "ok"
  <2>1. \A d : ~In(job[t].todo, d)
    BY <1>6, EmptySeq DEF In
  <2>2. ToFind(t) \subseteq job[t].found
    BY <1>2, <1>5, <2>1
  <2> QED BY <1>3, <1>4, <1>6, <2>2 DEF SearchFits
<1>7. CASE job[t].todo # <<>> /\ job'[t].at = "walk"
  <2> DEFINE h == Head(job[t].todo)
             r == Tail(job[t].todo)
             s == SetToSeq(Subdirs(h))
  <2>1. h \in Path /\ r \in Seq(Path) /\ \A d : In(job[t].todo, d) => d = h \/ In(r, d)
    <3>1. /\ h \in Path /\ r \in Seq(Path) /\ Len(r) = Len(job[t].todo) - 1
          /\ \A i \in 1 .. Len(r) : r[i] = job[t].todo[i + 1]
      BY <1>5, <1>7, HeadTailProperties
    <3>2. h = job[t].todo[1] /\ Len(job[t].todo) \in Nat
      BY <1>5, <1>7, LenProperties
    <3> HIDE DEF h, r
    <3>3. ASSUME NEW i \in 1 .. Len(job[t].todo), i # 1 PROVE In(r, job[t].todo[i])
      <4>1. i - 1 \in 1 .. Len(r) /\ (i - 1) + 1 = i
        BY <3>1, <3>2, <3>3
      <4> QED BY <3>1, <4>1 DEF In
    <3> QED BY <3>1, <3>2, <3>3 DEF In
  <2>2. Subdirs(h) \subseteq DOMAIN fs /\ Subdirs(h) \subseteq Path /\ IsFiniteSet(Subdirs(h))
    BY <1>1, FS_Subset DEF Subdirs, Entries, TreeOK
  <2>3. s \in Seq(Subdirs(h)) /\ \A x \in Subdirs(h) : In(s, x)
    BY <2>2, SetToSeqIs
  <2>4. s \in Seq(Path)
    BY <2>2, <2>3, SeqOfMore
  <2>5. job'[t].todo = s \o r /\ job'[t].names = MatchesIn(h)
    BY <1>2, <1>7
  <2> HIDE DEF h, r, s
  <2>6. job'[t].todo \in Seq(Path)
    BY <2>1, <2>4, <2>5, ConcatProperties
  <2>7. \A p \in job'[t].names : Name(p) \in Matching
    BY <2>5 DEF MatchesIn
  <2>8. ASSUME NEW p \in ToFind(t)'
        PROVE  p \in job'[t].found \cup job'[t].names
                  \/ \E d : In(job'[t].todo, d) /\ IsStrictPrefix(d, p)
    <3>1. p \in ToFind(t) /\ p \in DOMAIN fs /\ ~IsDir(p) /\ Name(p) \in Matching
      BY <1>1, <1>4 DEF ToFind
    <3>2. CASE p \in job[t].found
      BY <1>3, <3>2
    <3>3. ASSUME NEW d, In(r, d), IsStrictPrefix(d, p)
          PROVE  \E e : In(job'[t].todo, e) /\ IsStrictPrefix(e, p)
      BY <2>1, <2>4, <2>5, <3>3, InConcat
    <3>4. CASE IsStrictPrefix(h, p)
      <4>1. p \in MatchesIn(h) \/ \E e \in Subdirs(h) : IsStrictPrefix(e, p)
        BY <1>1, <2>1, <3>1, <3>4, NextBelow
      <4>2. ASSUME NEW e \in Subdirs(h), IsStrictPrefix(e, p)
            PROVE  In(job'[t].todo, e)
        BY <2>1, <2>3, <2>4, <2>5, InConcat
      <4> QED BY <2>5, <4>1, <4>2
    <3> QED BY <1>2, <1>5, <2>1, <3>1, <3>2, <3>3, <3>4
  <2> QED BY <1>7, <2>6, <2>7, <2>8 DEF SearchFits
<1> QED BY <1>2, <1>6, <1>7

\* A step of a search keeps its account of what is still to be found.
LEMMA SearchSteps ==
    ASSUME SystemTypeOK, NEW t \in Workers, StartSearch(t) \/ Stat(t), SearchFits(t), StableKept
    PROVE  SearchFits(t)'
<1>1. JobsOK /\ stable \subseteq DOMAIN fs /\ CallFits(t) /\ DOMAIN fs \subseteq Path \ {<<>>}
  BY DEF SystemTypeOK, TreeOK
<1>2. CASE StartSearch(t)
  <2>1. /\ OnlyOf(t) /\ Same(t, {"at", "todo"}) /\ Args(t).op = "search"
        /\ job'[t].at = "walk" /\ job'[t].todo = Args(t).roots
    BY <1>1, <1>2, StartSearchIs
  <2>2. Args(t)' = Args(t) /\ job'[t].names = job[t].names
    BY <2>1 DEF OnlyOf, Args, Same, JobFields
  <2>3. Args(t).roots \in Seq(Path)
    BY <1>1, <2>1 DEF CallFits, IsCall
  <2>4. ToFind(t)' \subseteq ToFind(t)
    BY <2>2, ToFindShrinks
  <2>5. ASSUME NEW p \in ToFind(t)
        PROVE  \E d : In(Args(t).roots, d) /\ IsStrictPrefix(d, p)
    <3>1. PICK r \in ToSet(Args(t).roots) : IsStrictPrefix(r, p)
      BY DEF ToFind
    <3>2. DOMAIN Args(t).roots = 1 .. Len(Args(t).roots)
      BY <2>3
    <3>3. In(Args(t).roots, r)
      BY <3>2 DEF ToSet, In
    <3> QED BY <3>1, <3>3
  <2>6. job[t].names = {}
    BY <1>2 DEF StartSearch, At, SearchFits
  <2> QED BY <2>1, <2>2, <2>3, <2>4, <2>5, <2>6 DEF SearchFits
<1>3. CASE Stat(t)
  <2>1. /\ OnlyOf(t) /\ Same(t, {"at", "names", "found", "result"}) /\ SameFs
        /\ Args(t).op = "search" /\ job[t].at = "walk"
    BY <1>1, <1>3, StatIs
  <2>2. PICK p \in job[t].names :
           \/ /\ Exists(p) /\ job'[t].at = "walk" /\ job'[t].names = job[t].names \ {p}
              /\ job'[t].found = IF Name(p) \in Ignored THEN job[t].found
                                 ELSE job[t].found \cup {p}
           \/ /\ ~Exists(p) /\ job'[t].at = "done" /\ job'[t].result = "OSError"
              /\ job'[t].names = {p}
    BY <1>1, <1>3, StatIs
  <2>3. Args(t)' = Args(t) /\ job'[t].todo = job[t].todo
    BY <2>1 DEF OnlyOf, Args, Same, JobFields
  <2>4. ToFind(t)' \subseteq ToFind(t) /\ stable' \subseteq stable
    BY <2>3, ToFindShrinks
  <2>5. /\ job[t].todo \in Seq(Path)
        /\ \A q \in job[t].names : Name(q) \in Matching
        /\ \A q \in ToFind(t) :
              q \in job[t].found \cup job[t].names
                 \/ \E d : In(job[t].todo, d) /\ IsStrictPrefix(d, q)
    BY <2>1 DEF SearchFits
  <2>6. CASE ~Exists(p) /\ job'[t].at = "done" /\ job'[t].result = "OSError" /\ job'[t].names = {p}
    <3>1. p \notin stable
      BY <1>1, <2>6 DEF Exists
    <3> QED BY <2>4, <2>5, <2>6, <3>1 DEF SearchFits
  <2>7. CASE /\ job'[t].at = "walk" /\ job'[t].names = job[t].names \ {p}
             /\ job'[t].found = IF Name(p) \in Ignored THEN job[t].found ELSE job[t].found \cup {p}
    <3>1. \A q \in ToFind(t) : Name(q) \notin Ignored
      BY DEF ToFind
    <3>2. ASSUME NEW q \in ToFind(t), q \in job[t].found \cup job[t].names
          PROVE  q \in job'[t].found \cup job'[t].names
      BY <2>7, <3>1, <3>2
    <3>3. \A q \in ToFind(t)' :
             q \in job'[t].found \cup job'[t].names
                \/ \E d : In(job'[t].todo, d) /\ IsStrictPrefix(d, q)
      BY <2>3, <2>4, <2>5, <3>2
    <3>4. \A q \in job'[t].names : Name(q) \in Matching
      BY <2>5, <2>7
    <3> QED BY <2>3, <2>5, <2>7, <3>3, <3>4 DEF SearchFits
  <2> QED BY <2>2, <2>6, <2>7
<1> QED BY <1>2, <1>3

\* A step of another thread only makes a search find less.
LEMMA SearchStays ==
    ASSUME SystemTypeOK, NEW t \in Workers, job'[t] = job[t], SearchFits(t), StableKept
    PROVE  SearchFits(t)'
<1>1. Args(t)' = Args(t)
  BY DEF Args
<1>2. ToFind(t)' \subseteq ToFind(t) /\ stable' \subseteq stable
  BY <1>1, ToFindShrinks
<1> QED BY <1>2 DEF SearchFits

\* The invariant of the searches is kept,
LEMMA SearchNext == ASSUME SystemTypeOK, SearchInv, [SystemNext]_systemVars PROVE SearchInv'
<1>1. CASE UNCHANGED systemVars
  BY <1>1 DEF systemVars, SearchInv, SearchFits, ToFind, Args, IsDir
<1>2. ASSUME NEW t \in Workers, Step(t) PROVE SearchInv'
  <2>1. StableKept /\ OnlyOf(t)
    BY <1>2, StepsFit DEF StepFits
  <2>2. ASSUME NEW u \in Workers \ {t}, Args(u)'.op = "search" PROVE SearchFits(u)'
    <3>1. job'[u] = job[u] /\ Args(u)' = Args(u)
      BY <2>1 DEF OnlyOf, Args
    <3> QED BY <2>1, <2>2, <3>1, SearchStays DEF SearchInv
  <2>3. ASSUME Args(t)'.op = "search" PROVE SearchFits(t)'
    <3>1. Args(t).op = "search" /\ AtFits(t) /\ JobsOK
      BY <2>1, <2>3 DEF OnlyOf, Args, SystemTypeOK
    <3>2. job[t].at \notin {"mkdir", "open", "fill", "untar", "rename", "exists", "unlink",
                           "rmtree", "rmdir", "move", "copy", "spawn"}
      BY <3>1 DEF AtFits
    <3>3. ~Decision(t)
      BY <3>1 DEF Decision, StartMake, Request, StartCommand, Spawn, At
    <3>4. StartSearch(t) \/ Walk(t) \/ Stat(t)
      BY <1>2, <3>1, <3>2, <3>3 DEF Step, Decision, StartWrite, MakeDirectory, MkDir, Open, Fill,
             StartRename, BeginRename, CheckTarget, RemoveFile, RmTree, RmDir, Move, CopyDirectory,
             CopyLink, CopyFile, CopyStat, EndCopy, Listed, Download, Untar, At
    <3> QED BY <2>1, <3>1, <3>4, WalkSearches, SearchSteps DEF SearchInv
  <2> QED BY <2>2, <2>3 DEF SearchInv
<1> QED BY <1>1, <1>2 DEF SystemNext

\* holds in the beginning,
LEMMA SearchInit == ASSUME SystemInit PROVE SearchInv
<1>1. \A t \in Workers : job[t].at = "start" /\ job[t].names = {}
  BY CallBegins
<1> QED BY <1>1 DEF SearchInv, SearchFits

\* and says that searches are right.
LEMMA SearchesAreRight == ASSUME SystemTypeOK, SearchInv PROVE SearchSeesStable
<1> SUFFICES ASSUME NEW t \in Workers, Ended(t, "search")
             PROVE  IF job[t].result = "ok" THEN ToFind(t) \subseteq job[t].found
                    ELSE \A p \in job[t].names : Name(p) \in Matching /\ p \notin stable
  BY DEF SearchSeesStable, ToFind
<1> QED BY DEF Ended, SearchInv, SearchFits

-----------------------------------------------------------------------------
(* What a thread that writes, or only reads, does to the files             *)

\* A directory is made above the file to write.
MakesDir(t) ==
    \E p \in Path :
        /\ IsStrictPrefix(p, Args(t).path) /\ ~Exists(p) /\ Added(p, Dir)
        /\ data' = data /\ job'[t].at # "fill"

\* The file is opened.
MakesFile(t) ==
    /\ FileAt(t) # Dir /\ Added(Args(t).path, FileAt(t))
    /\ data' = Updated(data, All({FileAt(t)}, ""))
    /\ job'[t].at = "fill" /\ job'[t].file = FileAt(t)

\* The file that is open is written.
Fills(t) ==
    /\ SameFs /\ job[t].at = "fill" /\ job'[t].at # "fill"
    /\ \E c : data' = [data EXCEPT ![job[t].file] = c]

Writes(t) == Fills(t) \/ MakesDir(t) \/ MakesFile(t)

\* Nothing is written.
Reads(t) == SameFs /\ data' = data /\ job'[t].at # "fill"

\* A thread that neither moves nor removes anything only makes directories and its file.
LEMMA WriterSteps ==
    ASSUME SystemTypeOK, NEW t \in Workers, Step(t),
           Args(t).op \notin {"rename", "remove", "install"}
    PROVE  Reads(t) \/ (Args(t).op \in {"write", "make"} /\ Writes(t))
<1>1. JobsOK /\ AtFits(t) /\ CallFits(t) /\ Args(t).path \in Path
  BY DEF SystemTypeOK, CallFits, IsCall
<1>2. job[t].at \notin {"untar", "rename", "exists", "unlink", "rmtree", "rmdir", "move", "copy"}
  BY <1>1 DEF AtFits
<1>3. /\ ~Download(t) /\ ~Untar(t) /\ ~StartRename(t) /\ ~CheckTarget(t) /\ ~RemoveFile(t)
      /\ ~RmTree(t) /\ ~RmDir(t) /\ ~Move(t) /\ ~Copying(t) /\ ~EndCopy(t)
  BY <1>2 DEF Download, Untar, StartRename, BeginRename, CheckTarget, RemoveFile, RmTree, RmDir,
     Move, Copying, CopyDirectory, CopyLink, CopyFile, CopyStat, EndCopy, Listed, At
<1>4. CASE StartWrite(t) \/ StartSearch(t) \/ Walk(t) \/ Stat(t)
  BY <1>1, <1>4, StartWriteIs, StartSearchIs, WalkIs, StatIs DEF Reads
<1>5. CASE Decision(t)
  BY <1>1, <1>5, DecisionIs DEF Reads, AtFits
<1>6. CASE Fill(t)
  <2>1. /\ SameFs /\ job[t].at = "fill" /\ job'[t].at = "done" /\ Args(t).op \in {"write", "make"}
        /\ data' = [data EXCEPT ![job[t].file] = Contents(job[t].file, Args(t).contents)]
    BY <1>1, <1>6, FillIs
  <2> QED BY <2>1 DEF Fills, Writes
<1>7. CASE MakeDirectory(t)
  <2>1. PICK k \in 0 .. Len(Args(t).path) - 2 : job[t].todo = ToMake(Args(t).path, k)
    BY <1>7, MkdirWhere DEF MakeDirectory, MkDir
  <2> DEFINE d == SubSeq(Args(t).path, 1, k + 1)
  <2>2. /\ d \in Path /\ data' = data
        /\ \/ Exists(d) /\ SameFs /\ MadeTo(t, k)
           \/ ~Exists(d) /\ Added(d, Dir) /\ MadeTo(t, k)
           \/ SameFs /\ job'[t].at = "done"
    BY <1>7, <2>1, MakeDirectoryIs
  <2>3. IsStrictPrefix(d, Args(t).path)
    <3>1. k + 1 \in 0 .. Len(Args(t).path) /\ k + 1 < Len(Args(t).path)
      BY <1>1, PathIs
    <3> QED BY <1>1, <3>1, FirstIsPrefix
  <2>4. Args(t).op = "write"
    BY <1>1, <1>7 DEF AtFits, MakeDirectory, MkDir
  <2>5. MadeTo(t, k) => job'[t].at # "fill"
    BY DEF MadeTo
  <2> HIDE DEF d
  <2> QED BY <2>2, <2>3, <2>4, <2>5 DEF MakesDir, Writes, Reads
<1>8. CASE Open(t)
  <2>1. Args(t).op \in {"write", "make"}
    BY <1>1, <1>8 DEF AtFits, Open
  <2>2. \/ /\ Added(Args(t).path, FileAt(t)) /\ FileAt(t) # Dir
           /\ job'[t].at = "fill" /\ job'[t].file = FileAt(t)
           /\ data' = Updated(data, All({FileAt(t)}, ""))
        \/ job'[t].at = "done" /\ data' = data /\ SameFs
    BY <1>8, OpenIs
  <2> QED BY <2>1, <2>2 DEF MakesFile, Writes, Reads
<1> QED BY <1>3, <1>4, <1>5, <1>6, <1>7, <1>8 DEF Step, Decision, Copying

\* What is there stays as it is.
FilesStay == \A q \in DOMAIN fs : q \in DOMAIN fs' /\ fs'[q] = fs[q]

\* What it makes takes nothing away.
LEMMA WritersAdd ==
    ASSUME SystemTypeOK, NEW t \in Workers, Step(t),
           Args(t).op \notin {"rename", "remove", "install"}
    PROVE  FilesStay
<1>1. CASE SameFs
  BY <1>1 DEF SameFs, FilesStay
<1>2. ASSUME NEW p, NEW v, Added(p, v) PROVE FilesStay
  BY <1>2, AddedIs DEF FilesStay
<1> QED BY <1>1, <1>2, WriterSteps DEF Reads, Writes, Fills, MakesDir, MakesFile

-----------------------------------------------------------------------------
(* Renames                                                                 *)

\* A rename that nobody comes in the way of.
Undisturbed(t) ==
    /\ Args(t).op = "rename" /\ ~IsStrictPrefix(To(t), Args(t).path)
    /\ ~IsStrictPrefix(Args(t).path, To(t))
    /\ \A u \in Others(t) : Harmless(u, Args(t).path)

\* The files that were at the source when the rename began are at p.
AllAt(t, p) ==
    \A q \in DOMAIN job[t].source :
        LET r == MovedTo(Args(t).path, p, q)
        IN  r \in DOMAIN fs /\ fs[r] = job[t].source[q]

\* All of the source has a copy.
CopiedAll(t) ==
    \A q \in DOMAIN job[t].source : MovedTo(Args(t).path, job[t].target, q) \in DOMAIN fs

\* Something that is still to be copied is q or above it.
ToCopy(t, q) == \E e \in DOMAIN job[t].entries : job[t].entries[e] # "made" /\ IsPrefix(e, q)

\* Of a source that is copied: without an error, what has no copy is still to be
\* copied; its removal begins when all of it has; and nothing is made in it then.
CopyGoesOn(t) ==
    /\ (job[t].at = "copy" /\ ~job[t].failed) =>
          \A q \in DOMAIN job[t].source :
             ToCopy(t, q) \/ MovedTo(Args(t).path, job[t].target, q) \in DOMAIN fs
    /\ (job[t].removal # "" /\ job[t].at \in {"unlink", "rmtree"}) => CopiedAll(t)
    /\ (job[t].removal # "" /\ job[t].at = "rmdir") =>
          IsDir(Args(t).path) /\ Below(Args(t).path) = {}

\* Where the files of the source are.
SourceWhere(t) ==
    IF SourceIsRemoved(t) THEN CopiedAll(t)
    ELSE IF job[t].result = "ok"
    THEN \E p \in {To(t), Append(To(t), Name(Args(t).path))} : AllAt(t, p)
    ELSE AllAt(t, Args(t).path)

RenameFits(t) ==
    /\ job[t].at # "done" => job[t].result # "ok"
    /\ job[t].at \notin {"start", "done"} => Args(t).path # To(t)
    /\ job[t].at # "start" =>
          /\ \A q \in DOMAIN job[t].source :
                q \in Path /\ IsPrefix(Args(t).path, q) /\ job[t].source[q] # Dir
          /\ SourceWhere(t)
    /\ CopyGoesOn(t)

RenameInv == \A t \in Workers : Undisturbed(t) => RenameFits(t)

\* Moved to where it is, a path stays the same.
LEMMA MovedNowhere ==
    ASSUME NEW p \in Path, NEW r \in Path, IsPrefix(p, r)
    PROVE  MovedTo(p, p, r) = r
<1>1. MovedTo(p, p, MovedTo(p, p, r)) = r
  BY MovedBack
<1> DEFINE m == MovedTo(p, p, r)
<1>2. /\ Len(p) \in Nat /\ Len(r) \in Nat /\ Len(p) <= Len(r)
      /\ \A i \in 1 .. Len(p) : p[i] = r[i]
  BY PathIs, PrefixIs
<1>3. /\ m \in Path /\ Len(m) = Len(p) + (Len(r) - Len(p))
      /\ \A i \in 1 .. Len(p) : m[i] = p[i]
      /\ \A i \in 1 .. Len(r) - Len(p) : m[Len(p) + i] = r[Len(p) + i]
  BY MovedToIs
<1> HIDE DEF m
<1>4. ASSUME NEW i \in 1 .. Len(r) PROVE m[i] = r[i]
  <2>1. CASE i <= Len(p)
    <3>1. i \in 1 .. Len(p)
      BY <1>2, <2>1
    <3> QED BY <1>2, <1>3, <3>1
  <2>2. CASE ~(i <= Len(p))
    <3>1. i - Len(p) \in 1 .. Len(r) - Len(p) /\ Len(p) + (i - Len(p)) = i
      BY <1>2, <2>2
    <3> QED BY <1>3, <3>1
  <2> QED BY <2>1, <2>2
<1>5. m = r
  BY <1>2, <1>3, <1>4, PathsEqual
<1> QED BY <1>5 DEF m

\* The source of a rename is where it is when the rename begins.
LEMMA SourceIs ==
    ASSUME SystemTypeOK, NEW t \in Workers, StartRename(t), Args(t).op = "rename"
    PROVE  /\ \A q \in DOMAIN job'[t].source :
                 q \in Path /\ IsPrefix(Args(t).path, q) /\ job'[t].source[q] # Dir
           /\ \A q \in DOMAIN job'[t].source :
                 MovedTo(Args(t).path, Args(t).path, q) = q /\ q \in DOMAIN fs
                 /\ fs[q] = job'[t].source[q]
<1>1. JobsOK /\ CallFits(t) /\ DOMAIN fs \subseteq Path
  BY DEF SystemTypeOK, TreeOK
<1>2. job[t].path = Args(t).path /\ Args(t).path \in Path
  BY <1>1 DEF CallFits, IsCall
<1>3. job'[t].source = Files(fs, Args(t).path)
  BY <1>1, <1>2, BeginRenameIs
<1>4. \A q \in DOMAIN job'[t].source :
         /\ q \in DOMAIN fs /\ IsPrefix(Args(t).path, q) /\ job'[t].source[q] = fs[q]
         /\ fs[q] # Dir
  BY <1>3 DEF Files
<1> QED BY <1>1, <1>2, <1>4, MovedNowhere

\* What AllAt needs of a step: the source is the same, and what is at p.
LEMMA StaysAt ==
    ASSUME NEW t \in Workers, NEW p, AllAt(t, p), job'[t].source = job[t].source,
           Args(t)' = Args(t), NEW S,
           \A q \in DOMAIN fs \ S : q \in DOMAIN fs' /\ fs'[q] = fs[q],
           \A q \in DOMAIN job[t].source : MovedTo(Args(t).path, p, q) \notin S
    PROVE  \A q \in DOMAIN job'[t].source :
              LET r == MovedTo(Args(t).path, p, q) IN r \in DOMAIN fs' /\ fs'[r] = job'[t].source[q]
BY DEF AllAt

\* What a step of a rename is about.
RenameCall(t) ==
    /\ JobsOK /\ TreeOK /\ CopyFits(t) /\ Args(t).op = "rename"
    /\ ~IsStrictPrefix(To(t), Args(t).path) /\ ~IsStrictPrefix(Args(t).path, To(t))
    /\ Args(t).path \in Path /\ To(t) \in Path /\ job[t].path = Args(t).path
    /\ OnlyOf(t) /\ Args(t)' = Args(t) /\ To(t)' = To(t) /\ CopyFits(t)'

LEMMA RenameCallIs ==
    ASSUME SystemTypeOK, NEW t \in Workers, Step(t), Undisturbed(t)
    PROVE  RenameCall(t)
<1>1. /\ JobsOK /\ TreeOK /\ CallFits(t) /\ CopyFits(t) /\ Args(t).op = "rename"
      /\ ~IsStrictPrefix(To(t), Args(t).path) /\ ~IsStrictPrefix(Args(t).path, To(t))
  BY DEF SystemTypeOK, Undisturbed
<1>2. Args(t).path \in Path /\ To(t) \in Path /\ job[t].path = Args(t).path
  BY <1>1 DEF CallFits, IsCall, To
<1>3. OnlyOf(t) /\ Args(t)' = Args(t) /\ To(t)' = To(t) /\ CopyFits(t)'
  BY StepsFit DEF StepFits, OnlyOf, Args, To
<1> QED BY <1>1, <1>2, <1>3 DEF RenameCall

\* When a rename goes on, where its source is and what is still to be copied say it all.
LEMMA RenameGoesOn ==
    ASSUME NEW t \in Workers, RenameFits(t), RenameCall(t), job'[t].source = job[t].source,
           job[t].at \notin {"start", "done"}, job'[t].at # "start",
           job'[t].at # "done" => job'[t].result # "ok", SourceWhere(t)', CopyGoesOn(t)'
    PROVE  RenameFits(t)'
<1>1. Args(t)' = Args(t) /\ To(t)' = To(t)
  BY DEF RenameCall
<1>2. /\ Args(t).path # To(t)
      /\ \A q \in DOMAIN job[t].source :
            q \in Path /\ IsPrefix(Args(t).path, q) /\ job[t].source[q] # Dir
  BY DEF RenameFits
<1> QED BY <1>1, <1>2 DEF RenameFits

\* In the middle of a rename, and before a removal of its source, this is at its place.
LEMMA SourceInPlace ==
    ASSUME NEW t \in Workers, RenameFits(t), RenameCall(t), job[t].at \notin {"start", "done"},
           ~(job[t].removal # "" /\ job[t].at = "rmdir")
    PROVE  /\ job[t].result # "ok" /\ Args(t).path # To(t) /\ AllAt(t, Args(t).path)
           /\ \A q \in DOMAIN job[t].source :
                 /\ MovedTo(Args(t).path, Args(t).path, q) = q /\ q \in Path
                 /\ IsPrefix(Args(t).path, q) /\ job[t].source[q] # Dir
                 /\ q \in DOMAIN fs /\ fs[q] = job[t].source[q]
<1>1. job[t].result # "ok" /\ Args(t).path # To(t)
  BY DEF RenameFits
<1>2. ~SourceIsRemoved(t)
  BY <1>1 DEF SourceIsRemoved
<1>3. AllAt(t, Args(t).path)
  BY <1>1, <1>2 DEF RenameFits, SourceWhere
<1>4. \A q \in DOMAIN job[t].source :
         q \in Path /\ IsPrefix(Args(t).path, q) /\ job[t].source[q] # Dir
  BY DEF RenameFits
<1>5. \A q \in DOMAIN job[t].source : MovedTo(Args(t).path, Args(t).path, q) = q
  BY <1>4, MovedNowhere DEF RenameCall
<1> QED BY <1>1, <1>3, <1>4, <1>5 DEF AllAt

\* The target and what is below it are not at the source.
LEMMA TargetBeside ==
    ASSUME NEW t \in Workers, RenameCall(t), Args(t).path # To(t),
           NEW q \in Path, IsPrefix(Args(t).path, q)
    PROVE  q # To(t) /\ q \notin Below(To(t))
<1>1. /\ Args(t).path \in Path /\ To(t) \in Path
      /\ ~IsPrefix(Args(t).path, To(t)) /\ ~IsPrefix(To(t), Args(t).path)
  BY PrefixesCompare DEF RenameCall
<1> QED BY <1>1, PrefixesCompare DEF Below

\* The copies are not at the source.
LEMMA CopiesBeside ==
    ASSUME NEW t \in Workers, RenameCall(t), job[t].removal # "",
           NEW q \in Path, IsPrefix(Args(t).path, q)
    PROVE  LET r == MovedTo(Args(t).path, job[t].target, q)
           IN  r # Args(t).path /\ r \notin Below(Args(t).path)
<1> DEFINE a == Args(t).path
           b == job[t].target
           r == MovedTo(a, b, q)
<1>1. /\ a \in Path /\ b \in Path /\ To(t) \in Path /\ ~IsPrefix(a, b) /\ IsPrefix(To(t), b)
      /\ ~IsStrictPrefix(To(t), a)
  BY DEF RenameCall, CopyFits
<1>2. r \in Path /\ IsPrefix(b, r)
  BY <1>1, MovedToIs
<1> HIDE DEF a, b, r
<1>3. ~IsPrefix(a, r)
  <2> SUFFICES ASSUME IsPrefix(a, r) PROVE FALSE
    OBVIOUS
  <2>1. IsStrictPrefix(b, a)
    BY <1>1, <1>2, PrefixesCompare
  <2>2. IsStrictPrefix(To(t), a)
    BY <1>1, <2>1, PrefixesCompare
  <2> QED BY <1>1, <2>2
<1>4. r # a /\ r \notin Below(a)
  BY <1>1, <1>2, <1>3, PrefixesCompare DEF Below
<1> QED BY <1>4 DEF a, b, r

\* A rename begins.
LEMMA RenameBegins ==
    ASSUME SystemTypeOK, NEW t \in Workers, RenameFits(t), RenameCall(t), StartRename(t)
    PROVE  RenameFits(t)'
<1>1. /\ JobsOK /\ CopyFits(t) /\ Args(t).op = "rename" /\ job[t].path = Args(t).path
      /\ Args(t)' = Args(t) /\ To(t)' = To(t)
  BY DEF RenameCall
<1>2. /\ Same(t, {"at", "result", "link", "source"}) /\ SameFs
      /\ \/ SamePath(t) /\ job'[t].at = "done" /\ job'[t].result = "ok"
         \/ ~SamePath(t) /\ job'[t].at = "exists" /\ job'[t].result = job[t].result
  BY <1>1, BeginRenameIs
<1>3. job[t].at = "start" /\ job[t].result # "ok"
  BY <1>1 DEF StartRename, BeginRename, At, RenameFits
<1>4. job'[t].removal = ""
  BY <1>1, <1>2, <1>3 DEF CopyFits, Same, JobFields
<1>5. PICK a : a = Args(t).path
  OBVIOUS
<1>6. /\ \A q \in DOMAIN job'[t].source : q \in Path /\ IsPrefix(a, q) /\ job'[t].source[q] # Dir
      /\ \A q \in DOMAIN job'[t].source :
            MovedTo(a, a, q) = q /\ q \in DOMAIN fs /\ fs[q] = job'[t].source[q]
  BY <1>1, <1>5, SourceIs
<1>7. AllAt(t, a)'
  BY <1>1, <1>2, <1>5, <1>6 DEF AllAt, SameFs
<1>8. SamePath(t) <=> a = To(t)
  BY <1>1, <1>5 DEF SamePath
<1>9. ~SourceIsRemoved(t)' /\ CopyGoesOn(t)'
  BY <1>2, <1>4 DEF SourceIsRemoved, CopyGoesOn
<1>10. SourceWhere(t)'
  <2>1. CASE job'[t].result = "ok"
    <3>1. a \in {To(t)', Append(To(t)', Name(Args(t)'.path))}
      BY <1>1, <1>2, <1>3, <1>8, <2>1
    <3> QED BY <1>7, <1>9, <2>1, <3>1 DEF SourceWhere
  <2>2. CASE job'[t].result # "ok"
    <3>1. a = Args(t)'.path
      BY <1>1, <1>5
    <3>2. AllAt(t, Args(t).path)'
      BY <1>7, <3>1 DEF AllAt
    <3> QED BY <1>9, <2>2, <3>2 DEF SourceWhere
  <2> QED BY <2>1, <2>2
<1>11. job'[t].at # "done" => job'[t].result # "ok" /\ a # To(t)
  BY <1>2, <1>3, <1>8
<1> QED BY <1>1, <1>5, <1>6, <1>9, <1>10, <1>11 DEF RenameFits

\* A rename whose source is not removed goes on.
LEMMA RenameWithSource ==
    ASSUME NEW t \in Workers, RenameFits(t), RenameCall(t), job'[t].source = job[t].source,
           job[t].at \notin {"start", "done"}, ~(job[t].removal # "" /\ job[t].at = "rmdir"),
           \A q \in DOMAIN fs :
              IsPrefix(Args(t).path, q) /\ q \in DOMAIN job[t].source =>
                 q \in DOMAIN fs' /\ fs'[q] = fs[q],
           job'[t].at # "start", job'[t].result # "ok",
           ~(job'[t].removal # "" /\ job'[t].at = "rmdir"), CopyGoesOn(t)'
    PROVE  RenameFits(t)'
<1>1. /\ AllAt(t, Args(t).path)
      /\ \A q \in DOMAIN job[t].source :
            /\ MovedTo(Args(t).path, Args(t).path, q) = q /\ IsPrefix(Args(t).path, q)
            /\ q \in DOMAIN fs /\ fs[q] = job[t].source[q]
  BY SourceInPlace
<1>2. Args(t)' = Args(t)
  BY DEF RenameCall
<1>3. AllAt(t, Args(t).path)'
  BY <1>1, <1>2 DEF AllAt
<1>4. ~SourceIsRemoved(t)'
  BY DEF SourceIsRemoved
<1>5. SourceWhere(t)'
  BY <1>3, <1>4 DEF SourceWhere
<1> QED BY <1>5, RenameGoesOn

\* The target is looked at and removed.
LEMMA RenameClears ==
    ASSUME SystemTypeOK, NEW t \in Workers, RenameFits(t), RenameCall(t), job[t].removal = "",
           CheckTarget(t) \/ RemoveFile(t) \/ RmTree(t) \/ RmDir(t)
    PROVE  RenameFits(t)'
<1>1. JobsOK /\ Args(t).op = "rename" /\ Args(t).path \in Path
  BY DEF RenameCall
<1>2. job[t].at \in {"exists", "unlink", "rmtree", "rmdir"}
  BY <1>1 DEF CheckTarget, RemoveFile, RmTree, RmDir, At
<1>3. job[t].result # "ok" /\ Doomed(t) = To(t) /\ ~RemovesLast(t) /\ Args(t).path # To(t)
  BY <1>1, <1>2 DEF RenameFits, Doomed, RemovesLast
<1>4. /\ Same(t, {"at", "result"}) /\ (SameFs \/ Removed({To(t)}) \/ Removed(Below(To(t))))
      /\ job'[t].at \in {"unlink", "rmtree", "rmdir", "move", "done"}
      /\ job'[t].result \in {job[t].result, "OSError"}
  <2>1. CASE CheckTarget(t)
    BY <1>1, <2>1, CheckTargetIs DEF Same, JobFields
  <2>2. CASE RemoveFile(t)
    BY <1>3, <2>2, RemoveFileIs DEF Cleared
  <2>3. CASE RmTree(t)
    BY <1>3, <2>3, RmTreeIs
  <2>4. CASE RmDir(t)
    BY <1>3, <2>4, RmDirIs DEF Cleared
  <2> QED BY <2>1, <2>2, <2>3, <2>4
<1>5. job'[t].source = job[t].source /\ job'[t].removal = ""
  BY <1>4 DEF Same, JobFields
<1>6. ASSUME NEW q \in DOMAIN fs, IsPrefix(Args(t).path, q), q \in DOMAIN job[t].source
      PROVE  q \in DOMAIN fs' /\ fs'[q] = fs[q]
  <2>1. q \in Path
    BY DEF SystemTypeOK, TreeOK
  <2>2. q # To(t) /\ q \notin Below(To(t))
    BY <1>3, <1>6, <2>1, TargetBeside
  <2>3. CASE SameFs
    BY <2>3 DEF SameFs
  <2>4. CASE Removed({To(t)})
    BY <2>2, <2>4, RemovedIs, ZenonT(40)
  <2>5. CASE Removed(Below(To(t)))
    BY <2>2, <2>5, RemovedIs
  <2> QED BY <1>4, <2>3, <2>4, <2>5
<1>7. CopyGoesOn(t)'
  BY <1>4, <1>5 DEF CopyGoesOn
<1> QED BY <1>2, <1>3, <1>4, <1>5, <1>6, <1>7, RenameWithSource

\* The source is moved, or is to be copied.
LEMMA RenameMoves ==
    ASSUME SystemTypeOK, NEW t \in Workers, RenameFits(t), RenameCall(t), Move(t)
    PROVE  RenameFits(t)'
<1> DEFINE a == Args(t).path
<1>1. /\ JobsOK /\ TreeOK /\ CopyFits(t) /\ Args(t).op = "rename" /\ a \in Path
      /\ job[t].path = a /\ Args(t)' = Args(t) /\ To(t)' = To(t) /\ job[t].at = "move"
  BY DEF RenameCall, Move
<1>2. Same(t, {"at", "result", "target", "entries", "removal"}) /\ job[t].removal = ""
  BY <1>1, MoveIs DEF CopyFits
<1>3. job'[t].source = job[t].source
  BY <1>2 DEF Same, JobFields
<1>4. /\ job[t].result # "ok" /\ a # To(t) /\ AllAt(t, a)
      /\ \A q \in DOMAIN job[t].source :
            /\ MovedTo(a, a, q) = q /\ q \in Path /\ IsPrefix(a, q) /\ job[t].source[q] # Dir
            /\ q \in DOMAIN fs /\ fs[q] = job[t].source[q]
  BY <1>1, <1>2, SourceInPlace
<1>5. CASE /\ Same(t, {"at", "result"}) /\ Relocated(a, Target(t))
           /\ job'[t].at = "done" /\ job'[t].result = "ok"
  <2>1. PICK p \in {To(t), Append(To(t), Name(a))} : p = Target(t)
    BY <1>1 DEF Target
  <2>2. \A r \in DOMAIN fs : IsPrefix(a, r) =>
           MovedTo(a, p, r) \in DOMAIN fs' /\ fs'[MovedTo(a, p, r)] = fs[r]
    BY <1>1, <1>5, <2>1, RelocatedIs
  <2>3. AllAt(t, p)'
    BY <1>1, <1>3, <1>4, <2>2 DEF AllAt
  <2>4. p \in {To(t)', Append(To(t)', Name(Args(t)'.path))}
    BY <1>1, <2>1
  <2>5. job'[t].removal = ""
    BY <1>2, <1>5 DEF Same, JobFields
  <2>6. ~SourceIsRemoved(t)' /\ CopyGoesOn(t)'
    BY <1>5, <2>5 DEF SourceIsRemoved, CopyGoesOn
  <2>7. SourceWhere(t)'
    BY <1>5, <2>3, <2>4, <2>6 DEF SourceWhere
  <2> QED BY <1>1, <1>3, <1>5, <2>6, <2>7, RenameGoesOn
<1>6. CASE /\ Same(t, {"at", "result"}) /\ SameFs
           /\ job'[t].at = "done" /\ job'[t].result = "OSError"
  <2>1. CopyGoesOn(t)'
    BY <1>6 DEF CopyGoesOn
  <2>2. \A q \in DOMAIN fs : q \in DOMAIN fs' /\ fs'[q] = fs[q]
    BY <1>6 DEF SameFs
  <2> QED BY <1>1, <1>2, <1>3, <1>6, <2>1, <2>2, RenameWithSource
<1>7. CASE /\ SameFs /\ job'[t].at = "copy" /\ job'[t].result = job[t].result
           /\ job'[t].entries = [r \in {a} |-> Kind(r)]
  <2>1. a \in DOMAIN job'[t].entries /\ job'[t].entries[a] # "made"
    BY <1>7 DEF Kind
  <2>2. \A q \in DOMAIN job'[t].source : ToCopy(t, q)'
    BY <1>3, <1>4, <2>1 DEF ToCopy
  <2>3. CopyGoesOn(t)'
    BY <1>7, <2>2 DEF CopyGoesOn
  <2>4. \A q \in DOMAIN fs : q \in DOMAIN fs' /\ fs'[q] = fs[q]
    BY <1>7 DEF SameFs
  <2> QED BY <1>1, <1>2, <1>3, <1>4, <1>7, <2>3, <2>4, RenameWithSource
<1> QED BY <1>1, <1>5, <1>6, <1>7, MoveIs

\* What is below a directory is in or below an entry of it.
LEMMA NextEntry ==
    ASSUME TreeOK, NEW q \in DOMAIN fs, NEW d \in Path, IsStrictPrefix(d, q)
    PROVE  \E e \in Entries(d) : IsPrefix(e, q) /\ e # d
<1>1. q \in Path /\ Len(q) \in Nat /\ Len(d) \in Nat /\ Len(d) < Len(q)
  BY PathIs, PrefixIs DEF TreeOK
<1>2. PICK n : n = Len(d) + 1
  OBVIOUS
<1> DEFINE e == SubSeq(q, 1, n)
<1>3. n \in 0 .. Len(q) /\ n >= 1
  BY <1>1, <1>2
<1>4. e \in Path /\ Len(e) = n /\ \A i \in 1 .. n : e[i] = q[i]
  BY <1>1, <1>3, FirstNames
<1>5. IsPrefix(e, q) /\ (n < Len(q) => IsStrictPrefix(e, q))
  BY <1>1, <1>3, FirstIsPrefix
<1> HIDE DEF e
<1>6. e # <<>>
  BY <1>3, <1>4, EmptySeq
<1>7. Front(e) = d
  <2>1. \A i \in 1 .. Len(d) : d[i] = q[i]
    BY <1>1, PrefixIs
  <2>2. /\ Front(e) \in Path /\ Len(Front(e)) = Len(e) - 1
        /\ \A i \in 1 .. Len(e) - 1 : Front(e)[i] = e[i]
    BY <1>4, <1>6, FrontIs
  <2>3. Len(e) - 1 = Len(d) /\ \A i \in 1 .. Len(d) : i \in 1 .. n
    BY <1>1, <1>2, <1>4
  <2>4. Len(Front(e)) = Len(d) /\ \A i \in 1 .. Len(d) : Front(e)[i] = d[i]
    BY <1>4, <2>1, <2>2, <2>3
  <2> QED BY <2>2, <2>4, PathsEqual
<1>8. e \in DOMAIN fs
  <2>1. CASE n < Len(q)
    BY <1>1, <1>4, <1>5, <1>6, <2>1, AboveIs DEF TreeOK
  <2>2. CASE n = Len(q)
    BY <1>1, <1>4, <2>2, PathsEqual
  <2> QED BY <1>1, <1>2, <2>1, <2>2
<1>9. e # d
  BY <1>1, <1>2, <1>4
<1> QED BY <1>5, <1>6, <1>7, <1>8, <1>9 DEF Entries

\* What a step of a copy leaves to be copied, or copies.
LEMMA CopyCovers ==
    ASSUME SystemTypeOK, NEW t \in Workers, RenameFits(t), RenameCall(t),
           NEW p \in DOMAIN job[t].entries, NEW new, Copies(t, p, new), job[t].at = "copy",
           ~job'[t].failed, NEW q \in DOMAIN job[t].source
    PROVE  ToCopy(t, q)' \/ MovedTo(Args(t).path, job[t].target, q) \in DOMAIN fs'
<1>1. /\ TreeOK /\ stable \subseteq DOMAIN fs /\ job[t].path = Args(t).path /\ CopyGoneOn(t, p, new)
      /\ ~job[t].failed /\ DOMAIN new \subseteq {p} \cup Entries(p)
  BY DEF SystemTypeOK, RenameCall, Copies, CopyGoneOn
<1>2. q \in Path /\ q \in DOMAIN fs /\ fs[q] # Dir
  <2>1. q \in DOMAIN fs /\ fs[q] = job[t].source[q] /\ job[t].source[q] # Dir
    BY SourceInPlace
  <2> QED BY <1>1, <2>1 DEF TreeOK
<1>3. ToCopy(t, q) \/ MovedTo(Args(t).path, job[t].target, q) \in DOMAIN fs
  BY <1>1 DEF RenameFits, CopyGoesOn
<1>4. CASE MovedTo(Args(t).path, job[t].target, q) \in DOMAIN fs
  BY <1>1, <1>4, GrownIs DEF Copies
<1>5. p \in Path \ {<<>>} /\ Copy(t, p) = MovedTo(Args(t).path, job[t].target, p)
  BY <1>1, CopyIs
<1>6. ASSUME NEW e \in DOMAIN job[t].entries, job[t].entries[e] # "made", IsPrefix(e, q), e # p
      PROVE  ToCopy(t, q)'
  <2>1. e \in DOMAIN job'[t].entries
    BY <1>1, <1>6 DEF CopyGoneOn
  <2>2. job'[t].entries[e] # "made"
    <3>1. CASE e \in DOMAIN new
      <4>1. new[e] # "made"
        BY <1>1, <1>6, <3>1 DEF Copies
      <4> QED BY <1>1, <3>1, <4>1 DEF CopyGoneOn
    <3>2. CASE e \notin DOMAIN new
      BY <1>1, <1>6, <3>2 DEF CopyGoneOn
    <3> QED BY <3>1, <3>2
  <2> QED BY <1>6, <2>1, <2>2 DEF ToCopy
<1>7. CASE IsPrefix(p, q) /\ job[t].entries[p] # "made"
  <2>1. CASE ~IsDir(p) /\ Copy(t, p) \in DOMAIN fs'
    <3>1. p = q
      <4> SUFFICES ASSUME p # q PROVE FALSE
        OBVIOUS
      <4>1. p \in Above(q)
        BY <1>2, <1>5, <1>7, AboveIs, PrefixesCompare
      <4> QED BY <1>1, <1>2, <2>1, <4>1 DEF TreeOK, IsDir
    <3> QED BY <1>5, <2>1, <3>1
  <2>2. CASE /\ IsDir(p) /\ DOMAIN new = {p} \cup Entries(p)
             /\ \A r \in Entries(p) \ {p} : new[r] # "made"
    <3>1. IsStrictPrefix(p, q)
      BY <1>2, <1>5, <1>7, <2>2, PrefixesCompare DEF IsDir
    <3>2. PICK e \in Entries(p) : IsPrefix(e, q) /\ e # p
      BY <1>1, <1>2, <1>5, <3>1, NextEntry
    <3>3. e \in DOMAIN job'[t].entries /\ job'[t].entries[e] # "made"
      BY <1>1, <2>2, <3>2 DEF CopyGoneOn
    <3> QED BY <3>2, <3>3 DEF ToCopy
  <2> QED BY <1>7, <2>1, <2>2 DEF Copies
<1> QED BY <1>3, <1>4, <1>6, <1>7 DEF ToCopy

\* A step of a copy, or its end.
LEMMA RenameCopies ==
    ASSUME SystemTypeOK, NEW t \in Workers, RenameFits(t), RenameCall(t),
           Copying(t) \/ EndCopy(t)
    PROVE  RenameFits(t)'
<1>1. /\ TreeOK /\ stable \subseteq DOMAIN fs /\ JobsOK /\ CopyFits(t)
      /\ Args(t)' = Args(t)
  BY DEF SystemTypeOK, RenameCall
<1>2. CASE Copying(t)
  <2>1. PICK p \in DOMAIN job[t].entries : job[t].at = "copy" /\ \E new : Copies(t, p, new)
    BY <1>2, CopyingIs
  <2>2. PICK new : job[t].at = "copy" /\ Copies(t, p, new)
    BY <2>1
  <2>3. Same(t, {"entries", "failed"}) /\ Grown
    BY <2>2 DEF Copies, CopyGoneOn
  <2>4. /\ job'[t].source = job[t].source /\ job'[t].at = "copy"
        /\ job'[t].result = job[t].result /\ job'[t].target = job[t].target
    BY <2>2, <2>3 DEF Same, JobFields
  <2>5. \A q \in DOMAIN fs : q \in DOMAIN fs' /\ fs'[q] = fs[q]
    BY <1>1, <2>3, GrownIs
  <2>6. job[t].result # "ok"
    BY <2>2 DEF RenameFits
  <2>7. CopyGoesOn(t)'
    <3>1. ASSUME ~job'[t].failed, NEW q \in DOMAIN job[t].source
          PROVE  ToCopy(t, q)' \/ MovedTo(Args(t)'.path, job'[t].target, q) \in DOMAIN fs'
      BY <1>1, <2>2, <2>4, <3>1, CopyCovers
    <3> QED BY <2>4, <3>1 DEF CopyGoesOn
  <2> QED BY <2>2, <2>4, <2>5, <2>6, <2>7, RenameWithSource
<1>3. CASE EndCopy(t)
  <2>1. /\ Same(t, {"at", "result"}) /\ SameFs /\ job[t].at = "copy"
        /\ DOMAIN job[t].entries = {}
        /\ \/ job'[t].at = "done" /\ job'[t].result = "OSError"
           \/ /\ ~job[t].failed /\ job'[t].at = job[t].removal
              /\ job'[t].result = job[t].result
    BY <1>1, <1>3, EndCopyIs
  <2>2. /\ job'[t].source = job[t].source /\ job'[t].target = job[t].target
        /\ job[t].removal \in {"unlink", "rmtree"}
    BY <1>1, <2>1 DEF Same, JobFields, CopyFits
  <2>3. \A q \in DOMAIN fs : q \in DOMAIN fs' /\ fs'[q] = fs[q]
    BY <2>1 DEF SameFs
  <2>4. job[t].result # "ok"
    BY <2>1 DEF RenameFits
  <2>5. ~job[t].failed => CopiedAll(t)
    BY <2>1 DEF RenameFits, CopyGoesOn, ToCopy, CopiedAll
  <2>6. ~job[t].failed => CopiedAll(t)'
    BY <1>1, <2>1, <2>2, <2>5 DEF CopiedAll, SameFs
  <2>7. CopyGoesOn(t)'
    BY <2>1, <2>2, <2>6 DEF CopyGoesOn
  <2> QED BY <2>1, <2>2, <2>3, <2>4, <2>7, RenameWithSource
<1> QED BY <1>2, <1>3

\* What was copied is removed, to its end.
LEMMA RenameEnds ==
    ASSUME SystemTypeOK, NEW t \in Workers, RenameFits(t), RenameCall(t), job[t].removal # "",
           RemoveFile(t) \/ RmTree(t) \/ RmDir(t)
    PROVE  RenameFits(t)'
<1> DEFINE a == Args(t).path
<1>1. /\ JobsOK /\ TreeOK /\ Args(t).op = "rename" /\ a \in Path /\ job[t].path = a
      /\ Args(t)' = Args(t)
  BY DEF RenameCall
<1>2. job[t].at \in {"unlink", "rmtree", "rmdir"}
  BY <1>1 DEF RemoveFile, RmTree, RmDir, At
<1>3. /\ job[t].result # "ok" /\ Doomed(t) = a /\ RemovesLast(t)
      /\ \A q \in DOMAIN job[t].source : q \in Path /\ IsPrefix(a, q)
  BY <1>1, <1>2 DEF RenameFits, Doomed, RemovesLast
<1>4. CopiedAll(t)
  BY <1>2 DEF RenameFits, CopyGoesOn, SourceWhere, SourceIsRemoved
<1>5. ASSUME Removed({a}) \/ Removed(Below(a)), Same(t, {"at", "result"}) PROVE CopiedAll(t)'
  <2>1. job'[t].source = job[t].source /\ job'[t].target = job[t].target
    BY <1>5 DEF Same, JobFields
  <2>2. ASSUME NEW q \in DOMAIN job[t].source
        PROVE  MovedTo(a, job[t].target, q) \in DOMAIN fs'
    <3>1. MovedTo(a, job[t].target, q) \in DOMAIN fs
      BY <1>4 DEF CopiedAll
    <3>2. MovedTo(a, job[t].target, q) # a /\ MovedTo(a, job[t].target, q) \notin Below(a)
      BY <1>3, CopiesBeside
    <3> HIDE DEF a
    <3> QED BY <1>5, <3>1, <3>2, RemovedIs, ZenonT(40)
  <2> QED BY <1>1, <2>1, <2>2 DEF CopiedAll
<1>6. ASSUME Same(t, {"at", "result"}), SameFs, job'[t].at = "done", job'[t].result = "OSError",
             job[t].at # "rmdir"
      PROVE  RenameFits(t)'
  <2>1. CopyGoesOn(t)'
    BY <1>6 DEF CopyGoesOn
  <2>2. \A q \in DOMAIN fs : q \in DOMAIN fs' /\ fs'[q] = fs[q]
    BY <1>6 DEF SameFs
  <2>3. job'[t].source = job[t].source
    BY <1>6 DEF Same, JobFields
  <2> QED BY <1>2, <1>6, <2>1, <2>2, <2>3, RenameWithSource
<1>7. ASSUME Same(t, {"at", "result"}), Removed({a}), job'[t].at = "done", job'[t].result = "ok"
      PROVE  RenameFits(t)'
  <2>1. job'[t].source = job[t].source /\ job'[t].removal # ""
    BY <1>7 DEF Same, JobFields
  <2>2. CopyGoesOn(t)'
    BY <1>7 DEF CopyGoesOn
  <2>3. SourceWhere(t)'
    BY <1>5, <1>7, <2>1 DEF SourceWhere, SourceIsRemoved
  <2> QED BY <1>2, <1>7, <2>1, <2>2, <2>3, RenameGoesOn
<1>8. CASE RemoveFile(t)
  <2>1. job[t].at # "rmdir"
    BY <1>1, <1>8 DEF RemoveFile, At
  <2> QED BY <1>3, <1>6, <1>7, <1>8, <2>1, RemoveFileIs DEF Cleared
<1>9. CASE RmTree(t)
  <2>1. CASE /\ Same(t, {"at", "result"}) /\ IsDir(a) /\ Removed(Below(a))
             /\ job'[t].at = "rmdir" /\ job'[t].result = job[t].result
    <3>1. job'[t].source = job[t].source /\ job'[t].removal # ""
      BY <2>1, <1>2 DEF Same, JobFields
    <3>2. SourceWhere(t)' /\ CopiedAll(t)'
      BY <1>5, <2>1, <3>1 DEF SourceWhere, SourceIsRemoved
    <3>3. IsDir(a)' /\ Below(a)' = {}
      <4>1. DOMAIN fs' = DOMAIN fs \ Below(a) /\ \A q \in DOMAIN fs' : fs'[q] = fs[q]
        BY <2>1, RemovedIs
      <4>2. a \notin Below(a)
        BY <1>1, PrefixesCompare DEF Below
      <4>3. Below(a)' = {}
        BY <4>1, <1>1 DEF Below
      <4> QED BY <1>1, <2>1, <4>1, <4>2, <4>3 DEF IsDir
    <3>4. CopyGoesOn(t)'
      BY <1>1, <2>1, <3>3 DEF CopyGoesOn
    <3> QED BY <1>2, <1>3, <2>1, <3>1, <3>2, <3>4, RenameGoesOn
  <2>2. CASE /\ Same(t, {"at", "result"}) /\ SameFs
             /\ job'[t].at = "done" /\ job'[t].result = "OSError"
    BY <1>6, <1>9, <2>2 DEF RmTree
  <2> QED BY <1>3, <1>9, <2>1, <2>2, RmTreeIs
<1>10. CASE RmDir(t)
  <2>1. job[t].at = "rmdir"
    BY <1>10 DEF RmDir
  <2>2. IsDir(a) /\ Below(a) = {}
    BY <2>1 DEF RenameFits, CopyGoesOn
  <2> QED BY <1>3, <1>7, <1>10, <2>2, RmDirIs DEF Cleared
<1> QED BY <1>8, <1>9, <1>10

\* A step of a rename keeps the files of its source.
LEMMA RenameSteps ==
    ASSUME SystemTypeOK, NEW t \in Workers, Step(t), Undisturbed(t), RenameFits(t)
    PROVE  RenameFits(t)'
<1>1. RenameCall(t) /\ AtFits(t) /\ Args(t).op = "rename"
  BY RenameCallIs DEF SystemTypeOK, Undisturbed
<1>2. \/ StartRename(t) \/ CheckTarget(t) \/ RemoveFile(t) \/ RmTree(t) \/ RmDir(t) \/ Move(t)
      \/ Copying(t) \/ EndCopy(t)
  <2>1. job[t].at \notin {"mkdir", "open", "fill", "untar", "rename", "walk", "spawn"}
    BY <1>1 DEF AtFits
  <2>2. ~Decision(t)
    BY <1>1 DEF Decision, StartMake, Request, StartCommand, Spawn, At
  <2> QED BY <1>1, <2>1, <2>2 DEF Step, Decision, Copying, StartWrite, MakeDirectory, MkDir, Open,
             Fill, Download, Untar, StartSearch, Walk, Stat, At
<1>3. CheckTarget(t) => job[t].removal = ""
  BY <1>1 DEF CheckTarget, RenameCall, CopyFits
<1> QED BY <1>1, <1>2, <1>3, RenameBegins, RenameClears, RenameMoves, RenameCopies, RenameEnds

\* Another thread only adds to the files, nothing in the source.
LEMMA RenameStays ==
    ASSUME SystemTypeOK, NEW t \in Workers, NEW u \in Workers \ {t}, Step(u), Undisturbed(t),
           RenameFits(t)
    PROVE  RenameFits(t)'
<1> DEFINE a == Args(t).path
<1>1. OnlyOf(u) /\ job'[t] = job[t]
  BY StepsFit DEF StepFits, OnlyOf
<1>2. Args(t)' = Args(t) /\ To(t)' = To(t) /\ a \in Path /\ Args(u).path \in Path
  BY <1>1 DEF Args, To, SystemTypeOK, CallFits, IsCall
<1>3. Args(u).op \notin {"rename", "remove", "install"}
  BY DEF Undisturbed, Others, Harmless
<1>4. FilesStay
  BY <1>3, WritersAdd
<1>5. ASSUME NEW p, AllAt(t, p) PROVE AllAt(t, p)'
  BY <1>1, <1>2, <1>4, <1>5 DEF AllAt, FilesStay
<1>6. CopiedAll(t) => CopiedAll(t)'
  BY <1>1, <1>2, <1>4 DEF CopiedAll, FilesStay
<1>7. ASSUME IsDir(a), Below(a) = {} PROVE IsDir(a)' /\ Below(a)' = {}
  <2>1. IsDir(a)'
    BY <1>2, <1>4, <1>7 DEF IsDir, FilesStay
  <2>2. CASE SameFs
    BY <1>2, <1>7, <2>1, <2>2 DEF SameFs, Below
  <2>3. ASSUME NEW p \in Path, NEW v, Added(p, v), IsPrefix(p, Args(u).path),
               Args(u).op \in {"write", "make"}
        PROVE  Below(a)' = {}
    <3>1. ~IsPrefix(a, Args(u).path)
      BY <2>3 DEF Undisturbed, Others, Harmless
    <3>2. ~IsStrictPrefix(a, p)
      BY <1>2, <2>3, <3>1, PrefixesCompare
    <3>3. DOMAIN fs' = DOMAIN fs \cup {p}
      BY <2>3, AddedIs
    <3> QED BY <1>2, <1>7, <3>2, <3>3 DEF Below
  <2>4. IsPrefix(Args(u).path, Args(u).path)
    BY <1>2, PrefixesCompare
  <2>5. \A p \in Path : IsStrictPrefix(p, Args(u).path) => IsPrefix(p, Args(u).path)
    BY <1>2, PrefixesCompare
  <2> QED BY <1>2, <1>3, <2>1, <2>2, <2>3, <2>4, <2>5, WriterSteps
          DEF Reads, Writes, Fills, MakesDir, MakesFile
<1>8. CopyGoesOn(t)'
  <2>1. \A q : ToCopy(t, q)' <=> ToCopy(t, q)
    BY <1>1 DEF ToCopy
  <2>2. CopyGoesOn(t)
    BY DEF RenameFits
  <2>3. (job'[t].removal # "" /\ job'[t].at \in {"unlink", "rmtree"}) => CopiedAll(t)'
    BY <1>1, <1>6, <2>2 DEF CopyGoesOn
  <2>4. (job'[t].removal # "" /\ job'[t].at = "rmdir") => IsDir(a)' /\ Below(a)' = {}
    BY <1>1, <1>7, <2>2 DEF CopyGoesOn
  <2>5. (job'[t].at = "copy" /\ ~job'[t].failed) =>
           \A q \in DOMAIN job'[t].source :
              ToCopy(t, q)' \/ MovedTo(Args(t)'.path, job'[t].target, q) \in DOMAIN fs'
    BY <1>1, <1>2, <1>4, <2>1, <2>2 DEF CopyGoesOn, FilesStay
  <2> QED BY <1>2, <2>3, <2>4, <2>5 DEF CopyGoesOn
<1>9. ASSUME job[t].at # "start" PROVE SourceWhere(t)'
  <2>1. SourceWhere(t) /\ (SourceIsRemoved(t)' <=> SourceIsRemoved(t))
    BY <1>1, <1>9 DEF RenameFits, SourceIsRemoved
  <2>2. CASE SourceIsRemoved(t)
    BY <1>6, <2>1, <2>2 DEF SourceWhere
  <2>3. CASE ~SourceIsRemoved(t) /\ job[t].result = "ok"
    <3>1. PICK p \in {To(t), Append(To(t), Name(Args(t).path))} : AllAt(t, p)
      BY <2>1, <2>3 DEF SourceWhere
    <3>2. p \in {To(t)', Append(To(t)', Name(Args(t)'.path))} /\ AllAt(t, p)'
      BY <1>2, <1>5, <3>1
    <3> QED BY <1>1, <2>1, <2>3, <3>2 DEF SourceWhere
  <2>4. CASE ~SourceIsRemoved(t) /\ job[t].result # "ok"
    <3>1. PICK b : b = Args(t).path
      OBVIOUS
    <3>2. AllAt(t, b)
      BY <2>1, <2>4, <3>1 DEF SourceWhere
    <3>3. AllAt(t, b)' /\ b = Args(t)'.path
      BY <1>2, <1>5, <3>1, <3>2
    <3>4. AllAt(t, Args(t).path)'
      BY <3>3 DEF AllAt
    <3> QED BY <1>1, <2>1, <2>4, <3>4 DEF SourceWhere
  <2> QED BY <2>2, <2>3, <2>4
<1> QED BY <1>1, <1>2, <1>8, <1>9 DEF RenameFits

\* The invariant of the renames is kept,
LEMMA RenameNext == ASSUME SystemTypeOK, RenameInv, [SystemNext]_systemVars PROVE RenameInv'
<1>1. CASE UNCHANGED systemVars
  <2>1. fs' = fs /\ job' = job /\ \A t \in Workers : Args(t)' = Args(t) /\ To(t)' = To(t)
    BY <1>1 DEF systemVars, Args, To
  <2>2. ASSUME NEW t \in Workers, Undisturbed(t)' PROVE RenameFits(t)'
    <3>1. Undisturbed(t)
      BY <2>1, <2>2 DEF Undisturbed, Others, Harmless
    <3>2. RenameFits(t)
      BY <3>1 DEF RenameInv
    <3>3. /\ CopiedAll(t)' <=> CopiedAll(t)
          /\ SourceIsRemoved(t)' <=> SourceIsRemoved(t)
          /\ \A p : AllAt(t, p)' <=> AllAt(t, p)
          /\ \A q : ToCopy(t, q)' <=> ToCopy(t, q)
          /\ IsDir(Args(t).path)' <=> IsDir(Args(t).path)
          /\ Below(Args(t).path)' = Below(Args(t).path)
      BY <2>1 DEF CopiedAll, SourceIsRemoved, AllAt, ToCopy, IsDir, Below
    <3>4. AllAt(t, Args(t).path)' <=> AllAt(t, Args(t).path)
      BY <2>1 DEF AllAt
    <3>5. SourceWhere(t)' <=> SourceWhere(t)
      BY <2>1, <3>3, <3>4 DEF SourceWhere
    <3>6. CopyGoesOn(t)' <=> CopyGoesOn(t)
      BY <2>1, <3>3 DEF CopyGoesOn
    <3> QED BY <2>1, <3>2, <3>5, <3>6 DEF RenameFits
  <2> QED BY <2>2 DEF RenameInv
<1>2. ASSUME NEW u \in Workers, Step(u) PROVE RenameInv'
  <2>1. OnlyOf(u)
    BY <1>2, StepsFit DEF StepFits
  <2>2. \A t \in Workers : Args(t)' = Args(t) /\ To(t)' = To(t)
    BY <2>1 DEF OnlyOf, Args, To
  <2>3. ASSUME NEW t \in Workers, Undisturbed(t)' PROVE RenameFits(t)'
    <3>1. Undisturbed(t)
      BY <2>2, <2>3 DEF Undisturbed, Others, Harmless
    <3>2. RenameFits(t)
      BY <3>1 DEF RenameInv
    <3> QED BY <1>2, <3>1, <3>2, RenameSteps, RenameStays
  <2> QED BY <2>3 DEF RenameInv
<1> QED BY <1>1, <1>2 DEF SystemNext

\* holds in the beginning,
LEMMA RenameInit == ASSUME SystemInit PROVE RenameInv
<1>1. \A t \in Workers : job[t].at = "start" /\ job[t].result = "none" /\ job[t].removal = ""
  BY CallBegins
<1> QED BY <1>1 DEF RenameInv, RenameFits, CopyGoesOn

\* and says that no source is lost.
LEMMA SourcesAreKept == ASSUME SystemTypeOK, RenameInv PROVE SourceIsKept
<1> SUFFICES ASSUME NEW t \in Workers, Args(t).op = "rename", job[t].at # "start",
                    ~IsStrictPrefix(To(t), job[t].path), ~IsStrictPrefix(job[t].path, To(t)),
                    \A u \in Others(t) : Harmless(u, job[t].path)
             PROVE  \E p \in IF job[t].result = "ok" \/ SourceIsRemoved(t)
                             THEN {To(t), Append(To(t), Name(job[t].path))} ELSE {job[t].path} :
                       \A q \in DOMAIN job[t].source :
                          LET r == p \o SubSeq(q, Len(job[t].path) + 1, Len(q))
                          IN  /\ r \in DOMAIN fs
                              /\ SourceIsRemoved(t) \/ fs[r] = job[t].source[q]
  BY DEF SourceIsKept
<1>1. job[t].path = Args(t).path
  BY DEF SystemTypeOK, CallFits
<1>2. Undisturbed(t)
  BY <1>1 DEF Undisturbed
<1>3. SourceWhere(t)
  BY <1>2 DEF RenameInv, RenameFits
<1>4. CASE SourceIsRemoved(t)
  <2>1. job[t].target \in {To(t), Append(To(t), Name(job[t].path))}
    BY <1>4 DEF SystemTypeOK, CopyFits, SourceIsRemoved
  <2>2. CopiedAll(t)
    BY <1>3, <1>4 DEF SourceWhere
  <2> QED BY <1>1, <1>4, <2>1, <2>2 DEF CopiedAll, MovedTo
<1>5. CASE ~SourceIsRemoved(t) /\ job[t].result = "ok"
  <2>1. PICK p \in {To(t), Append(To(t), Name(Args(t).path))} : AllAt(t, p)
    BY <1>3, <1>5 DEF SourceWhere
  <2> QED BY <1>1, <1>5, <2>1 DEF AllAt, MovedTo
<1>6. CASE ~SourceIsRemoved(t) /\ job[t].result # "ok"
  <2>1. AllAt(t, Args(t).path)
    BY <1>3, <1>6 DEF SourceWhere
  <2> QED BY <1>1, <1>6, <2>1 DEF AllAt, MovedTo
<1> QED BY <1>4, <1>5, <1>6

-----------------------------------------------------------------------------
(* The numbers of the files, as long as no file is moved                   *)

Calm == \A t \in Workers : Args(t).op \notin {"rename", "remove", "install"}

\* A file has one path, and a number that says which, if a thread made it and it
\* was not moved, which is possible only in d; the file that a thread has open is
\* where its call says.
Numbered(d, moved) ==
    /\ \A p, q \in DOMAIN fs : fs[p] = fs[q] /\ fs[p] # Dir => p = q
    /\ \A p \in DOMAIN fs, t \in Workers, q \in Path :
          fs[p] = <<t, q>> => p = q \/ (moved /\ IsPrefix(d, p) /\ IsPrefix(d, q))
    /\ \A t \in Workers : job[t].at = "fill" =>
          /\ Args(t).path \in DOMAIN fs /\ fs[Args(t).path] = job[t].file
          /\ job[t].file # Dir

NumberInv == Calm => Numbered(<<>>, FALSE)

\* A thread that writes elsewhere gives a file a number that no other has.
LEMMA NumbersKept ==
    ASSUME NEW d, NEW moved \in BOOLEAN, Numbered(d, moved), NEW t \in Workers, OnlyOf(t),
           Args(t).path \in Path,
           Reads(t) \/ (Writes(t) /\ (moved => ~IsPrefix(d, Args(t).path)))
    PROVE  Numbered(d, moved)'
<1>1. \A u \in Workers : Args(u)' = Args(u)
  BY DEF OnlyOf, Args
<1> DEFINE Held(u) == /\ Args(u).path \in DOMAIN fs' /\ fs'[Args(u).path] = job'[u].file
                      /\ job'[u].file # Dir
<1>2. FilesStay
  <2>1. CASE SameFs
    BY <2>1 DEF SameFs, FilesStay
  <2>2. ASSUME NEW p, NEW v, Added(p, v) PROVE FilesStay
    BY <2>2, AddedIs DEF FilesStay
  <2> QED BY <2>1, <2>2 DEF Reads, Writes, Fills, MakesDir, MakesFile
<1>3. ASSUME NEW u \in Workers \ {t}, job'[u].at = "fill" PROVE Held(u)
  <2>1. job'[u] = job[u]
    BY DEF OnlyOf
  <2> QED BY <1>2, <1>3, <2>1 DEF Numbered, FilesStay
<1> DEFINE Unique == \A p, q \in DOMAIN fs' : fs'[p] = fs'[q] /\ fs'[p] # Dir => p = q
           Named == \A p \in DOMAIN fs', u \in Workers, q \in Path :
                       fs'[p] = <<u, q>> => p = q \/ (moved /\ IsPrefix(d, p) /\ IsPrefix(d, q))
           Open_ == \A u \in Workers : job'[u].at = "fill" => Held(u)
<1>4. ASSUME DOMAIN fs' = DOMAIN fs, \A q \in DOMAIN fs' : fs'[q] = fs[q] PROVE Unique /\ Named
  <2>1. ASSUME NEW p \in DOMAIN fs', NEW q \in DOMAIN fs', fs'[p] = fs'[q],
               fs'[p] # Dir
        PROVE  p = q
    BY <1>4, <2>1 DEF Numbered
  <2>2. ASSUME NEW p \in DOMAIN fs', NEW u \in Workers, NEW q \in Path, fs'[p] = <<u, q>>
        PROVE  p = q \/ (moved /\ IsPrefix(d, p) /\ IsPrefix(d, q))
    <3>1. p \in DOMAIN fs /\ fs[p] = <<u, q>>
      BY <1>4, <2>2
    <3>2. \A x \in DOMAIN fs, v \in Workers, y \in Path :
             fs[x] = <<v, y>> => x = y \/ (moved /\ IsPrefix(d, x) /\ IsPrefix(d, y))
      BY DEF Numbered
    <3> QED BY <3>1, <3>2
  <2> QED BY <2>1, <2>2
<1>5. ASSUME NEW p \in Path, NEW v, Added(p, v), p \notin DOMAIN fs,
             v = Dir \/ (v = <<t, p>> /\ v # Dir),
             v = Dir \/ ~moved \/ ~IsPrefix(d, p)
      PROVE  Unique /\ Named
  <2>1. /\ DOMAIN fs' = DOMAIN fs \cup {p} /\ fs'[p] = v
        /\ \A q \in DOMAIN fs : fs'[q] = fs[q]
    BY <1>5, AddedIs
  <2>2. Dir \notin Workers \X Path
    BY JobsAssumption
  <2>3. \A q \in DOMAIN fs : v = fs[q] => v = Dir
    BY <1>5 DEF Numbered
  <2>4. ASSUME NEW r \in DOMAIN fs', NEW q \in DOMAIN fs', fs'[r] = fs'[q],
               fs'[r] # Dir
        PROVE  r = q
    BY <2>1, <2>3, <2>4 DEF Numbered
  <2>5. ASSUME NEW r \in DOMAIN fs', NEW u \in Workers, NEW q \in Path, fs'[r] = <<u, q>>
        PROVE  r = q \/ (moved /\ IsPrefix(d, r) /\ IsPrefix(d, q))
    <3>1. CASE r = p
      BY <1>5, <2>1, <2>2, <2>5, <3>1
    <3>2. CASE r # p
      <4>1. r \in DOMAIN fs /\ fs[r] = <<u, q>>
        BY <2>1, <2>5, <3>2
      <4>2. \A x \in DOMAIN fs, w \in Workers, y \in Path :
               fs[x] = <<w, y>> => x = y \/ (moved /\ IsPrefix(d, x) /\ IsPrefix(d, y))
        BY DEF Numbered
      <4> QED BY <4>1, <4>2
    <3> QED BY <3>1, <3>2
  <2> QED BY <2>4, <2>5
<1>6. ASSUME Unique, Named, Open_ PROVE Numbered(d, moved)'
  BY <1>1, <1>6 DEF Numbered
<1>7. CASE SameFs /\ job'[t].at # "fill"
  <2>1. Unique /\ Named
    BY <1>4, <1>7 DEF SameFs
  <2> QED BY <1>3, <1>6, <1>7, <2>1
<1>8. CASE MakesDir(t)
  <2>1. PICK p \in Path : ~Exists(p) /\ Added(p, Dir) /\ job'[t].at # "fill"
    BY <1>8 DEF MakesDir
  <2>2. Unique /\ Named
    BY <1>5, <2>1 DEF Exists
  <2> QED BY <1>3, <1>6, <2>1, <2>2
<1>9. CASE MakesFile(t)
  <2>1. /\ Added(Args(t).path, FileAt(t)) /\ FileAt(t) # Dir
        /\ job'[t].file = FileAt(t)
    BY <1>9 DEF MakesFile
  <2>2. /\ DOMAIN fs' = DOMAIN fs \cup {Args(t).path} /\ fs'[Args(t).path] = FileAt(t)
        /\ \A q \in DOMAIN fs : fs'[q] = fs[q]
    BY <2>1, AddedIs
  <2>3. Open_
    BY <1>3, <2>1, <2>2
  <2>4. CASE Args(t).path \in DOMAIN fs
    <3>1. DOMAIN fs' = DOMAIN fs /\ \A q \in DOMAIN fs' : fs'[q] = fs[q]
      BY <2>2, <2>4
    <3> QED BY <1>4, <1>6, <2>3, <3>1
  <2>5. CASE Args(t).path \notin DOMAIN fs
    <3>1. FileAt(t) = <<t, Args(t).path>>
      BY <2>5 DEF FileAt
    <3>2. ~moved \/ ~IsPrefix(d, Args(t).path)
      BY <1>9 DEF Reads, MakesFile
    <3> HIDE DEF Unique, Named
    <3>3. Unique /\ Named
      BY <1>5, <2>1, <2>5, <3>1, <3>2
    <3> QED BY <1>6, <2>3, <3>3
  <2> QED BY <2>4, <2>5
<1> QED BY <1>7, <1>8, <1>9 DEF Reads, Writes, Fills

\* The numbers are kept apart,
LEMMA NumberNext ==
    ASSUME SystemTypeOK, NumberInv, [SystemNext]_systemVars PROVE NumberInv'
<1>1. CASE UNCHANGED systemVars
  BY <1>1 DEF systemVars, NumberInv, Calm, Numbered, Args
<1>2. ASSUME NEW t \in Workers, Step(t) PROVE NumberInv'
  <2>1. OnlyOf(t) /\ \A u \in Workers : Args(u)' = Args(u)
    BY <1>2, StepsFit DEF StepFits, OnlyOf, Args
  <2> SUFFICES ASSUME Calm' PROVE Numbered(<<>>, FALSE)'
    BY DEF NumberInv
  <2>2. Calm /\ Numbered(<<>>, FALSE)
    BY <2>1 DEF Calm, NumberInv
  <2>3. Reads(t) \/ Writes(t)
    BY <1>2, <2>2, WriterSteps DEF Calm
  <2>4. Args(t).path \in Path
    BY DEF SystemTypeOK, CallFits, IsCall
  <2> QED BY <2>1, <2>2, <2>3, <2>4, NumbersKept
<1> QED BY <1>1, <1>2 DEF SystemNext

\* as they are in the beginning.
LEMMA NumberInit == ASSUME SystemInit PROVE NumberInv
<1>1. PICK j \in Jobs : fs = j.fs
  BY DEF SystemInit
<1>2. IsTree(fs) /\ \A t \in Workers : job[t].at = "start"
  BY <1>1, JobsAssumption, CallBegins
<1> QED BY <1>2 DEF IsTree, NumberInv, Numbered

-----------------------------------------------------------------------------
(* Writes                                                                  *)

\* A write that nobody comes in the way of, except to make the same directories.
WriteAlone(t) ==
    Args(t).op = "write" /\ \A u \in Others(t) : Harmless(u, Args(t).path)

Written(t, contents) ==
    LET f == fs[Args(t).path]
    IN  Args(t).path \in DOMAIN fs /\ f \in DOMAIN data /\ data[f] = contents

WriteFits(t) ==
    /\ job[t].at = "mkdir" =>
          \E k \in 0 .. Len(Args(t).path) - 2 :
              job[t].todo = ToMake(Args(t).path, k) /\ Exists(SubSeq(Args(t).path, 1, k))
    /\ job[t].at = "open" => Exists(Front(Args(t).path))
    /\ job[t].at = "fill" =>
          /\ Writable(Args(t).path) /\ Written(t, "") /\ job[t].file = fs[Args(t).path]
    /\ job[t].at = "done" =>
          \/ /\ job[t].result = "ok" /\ Writable(Args(t).path)
             /\ Written(t, Args(t).contents)
          \/ job[t].result = "OSError" /\ ~Writable(Args(t).path)

WriteInv == \A t \in Workers : WriteAlone(t) => WriteFits(t)

\* Around a write that is alone nothing is moved or removed.
LEMMA WriteAloneCalm == ASSUME NEW t \in Workers, WriteAlone(t) PROVE Calm
BY DEF WriteAlone, Others, Harmless, Calm

\* Whether a file can be written does not change when another file, or a directory,
\* is added.
LEMMA WritableStays ==
    ASSUME NEW a \in Path, NEW p, NEW v, Added(p, v), p # a, v = Dir \/ p \notin Above(a)
    PROVE  (Writable(a)' <=> Writable(a)) /\ (a \in DOMAIN fs' <=> a \in DOMAIN fs)
<1>1. /\ DOMAIN fs' = DOMAIN fs \cup {p} /\ fs'[p] = v
      /\ \A q \in DOMAIN fs : fs'[q] = fs[q]
  BY AddedIs
<1>2. \A d \in Above(a) : d \in Above(a)'
  BY DEF Above
<1>3. /\ p \in DOMAIN fs => fs[p] = v
      /\ p # <<>>
  BY DEF Added
<1>4. ASSUME NEW d \in Above(a)
      PROVE  (d = <<>> \/ (d \in DOMAIN fs' => fs'[d] = Dir)) \/ ~(Exists(d) => IsDir(d))
  BY <1>1, <1>3 DEF Exists, IsDir
<1>5. ASSUME Writable(a) PROVE Writable(a)'
  BY <1>1, <1>2, <1>3, <1>4, <1>5 DEF Writable, Above, Exists, IsDir
<1>6. ASSUME Writable(a)' PROVE Writable(a)
  BY <1>1, <1>2, <1>3, <1>6 DEF Writable, Above, Exists, IsDir
<1> QED BY <1>1, <1>5, <1>6

\* What another thread does while one writes.
LEMMA WriteStays ==
    ASSUME SystemTypeOK, NumberInv, NEW t \in Workers, NEW u \in Workers \ {t}, Step(u),
           WriteAlone(t), WriteFits(t)
    PROVE  WriteFits(t)'
<1>a. PICK a, b : a = Args(t).path /\ b = Args(u).path
  OBVIOUS
<1>1. OnlyOf(u) /\ job'[t] = job[t] /\ Args(t)' = Args(t) /\ TreeOK /\ Args(t)'.path = a
  BY <1>a, StepsFit DEF StepFits, OnlyOf, SystemTypeOK, Args
<1>2. a \in Path /\ b \in Path
  BY <1>a DEF SystemTypeOK, CallFits, IsCall
<1>3. Calm /\ Numbered(<<>>, FALSE)
  BY WriteAloneCalm DEF NumberInv
<1>4. FilesStay
  BY <1>3, WritersAdd DEF Calm
<1>5. \/ SameFs /\ data' = data
      \/ ~IsPrefix(a, b) /\ ~IsPrefix(b, a) /\ (Fills(u) \/ MakesDir(u) \/ MakesFile(u))
  BY <1>3, <1>a, WriterSteps DEF Reads, Writes, Calm, WriteAlone, Others, Harmless
<1>6. (Writable(a)' <=> Writable(a)) /\ (a \in DOMAIN fs' <=> a \in DOMAIN fs)
  <2>1. CASE SameFs
    BY <2>1 DEF SameFs, Writable, Above, Exists, IsDir
  <2>2. CASE ~IsPrefix(a, b) /\ ~IsPrefix(b, a) /\ MakesDir(u)
    <3>1. PICK p \in Path : IsStrictPrefix(p, b) /\ Added(p, Dir)
      BY <1>a, <2>2 DEF MakesDir
    <3>2. p # a
      BY <1>2, <2>2, <3>1, PrefixesCompare
    <3> QED BY <1>2, <3>1, <3>2, WritableStays
  <2>3. CASE ~IsPrefix(a, b) /\ ~IsPrefix(b, a) /\ MakesFile(u)
    <3>1. b # a /\ b \notin Above(a)
      BY <1>2, <2>3, PrefixesCompare, AboveIs
    <3> QED BY <1>2, <2>3, <3>1, <1>a, WritableStays DEF MakesFile
  <2> QED BY <1>5, <2>1, <2>2, <2>3 DEF Fills
<1>7. ASSUME NEW c, Written(t, c) PROVE Written(t, c)'
  <2>1. a \in DOMAIN fs /\ fs[a] \in DOMAIN data /\ data[fs[a]] = c
    BY <1>a, <1>7 DEF Written
  <2>2. a \in DOMAIN fs' /\ fs'[a] = fs[a]
    BY <1>4, <2>1 DEF FilesStay
  <2>3. fs[a] \in DOMAIN data' /\ data'[fs[a]] = c
    <3>1. CASE data' = data
      BY <2>1, <3>1
    <3>2. CASE ~IsPrefix(a, b) /\ ~IsPrefix(b, a) /\ Fills(u)
      <4>1. /\ b \in DOMAIN fs /\ fs[b] = job[u].file /\ job[u].file # Dir
        BY <1>a, <1>3, <3>2 DEF Numbered, Fills
      <4>2. a # b
        BY <1>2, <3>2, PrefixesCompare
      <4>3. fs[a] # job[u].file
        BY <1>3, <2>1, <4>1, <4>2 DEF Numbered
      <4> QED BY <2>1, <3>2, <4>3 DEF Fills
    <3>3. CASE ~IsPrefix(a, b) /\ ~IsPrefix(b, a) /\ MakesFile(u)
      <4>1. a # b
        BY <1>2, <3>3, PrefixesCompare
      <4>2. fs[a] # FileAt(u)
        <5>1. CASE b \in DOMAIN fs
          BY <1>a, <1>3, <2>1, <3>3, <4>1, <5>1 DEF Numbered, FileAt, MakesFile
        <5>2. CASE b \notin DOMAIN fs
          BY ZenonT(40), <1>a, <1>2, <1>3, <2>1, <4>1, <5>2 DEF Numbered, FileAt
        <5> QED BY <5>1, <5>2
      <4> QED BY <2>1, <3>3, <4>2 DEF MakesFile, Updated, All
    <3> QED BY <1>5, <3>1, <3>2, <3>3 DEF MakesDir
  <2> QED BY <1>1, <2>2, <2>3 DEF Written
<1>8. ASSUME NEW p, Exists(p) PROVE Exists(p)'
  BY <1>4, <1>8 DEF Exists, FilesStay
<1>9. ASSUME Written(t, "") PROVE fs'[a] = fs[a]
  BY <1>a, <1>4, <1>9 DEF Written, FilesStay
<1> QED BY <1>a, <1>1, <1>6, <1>7, <1>8, <1>9 DEF WriteFits

\* What a step of the write itself does.
LEMMA WriteSteps ==
    ASSUME SystemTypeOK, NEW t \in Workers, Step(t), Args(t).op = "write", WriteFits(t)
    PROVE  WriteFits(t)'
<1>a. PICK a : a = Args(t).path
  OBVIOUS
<1>1. OnlyOf(t) /\ Args(t)' = Args(t) /\ TreeOK /\ JobsOK /\ Args(t)'.path = a /\ AtFits(t)
  BY <1>a, StepsFit DEF StepFits, OnlyOf, SystemTypeOK, Args
<1>2. a \in Path /\ a # <<>> /\ Len(a) \in Nat
  BY <1>a, PathIs DEF SystemTypeOK, CallFits, IsCall
<1>3. StartWrite(t) \/ MakeDirectory(t) \/ Open(t) \/ Fill(t)
  <2>1. job[t].at \notin {"untar", "rename", "exists", "unlink", "rmtree", "rmdir", "move", "copy",
                         "walk", "spawn"}
    BY <1>1 DEF AtFits
  <2>2. ~Decision(t)
    BY <1>1 DEF Decision, StartMake, Request, StartCommand, Spawn, At
  <2> QED BY <1>1, <2>1, <2>2 DEF Step, Decision, StartRename, BeginRename, CheckTarget, RemoveFile,
             RmTree, RmDir, Move, CopyDirectory, CopyLink, CopyFile, CopyStat, EndCopy, Listed,
             Download, Untar, StartSearch, Walk, Stat, At
<1>4. CASE StartWrite(t)
  <2>1. /\ SameFs
        /\ \/ Exists(Front(a)) /\ job'[t].at = "open"
           \/ /\ job'[t].at = "mkdir"
              /\ \E k \in 0 .. Len(a) - 2 :
                    /\ Exists(SubSeq(a, 1, k))
                    /\ job'[t].todo = ToMake(a, k)
    BY <1>a, <1>1, <1>4, StartWriteIs DEF SystemTypeOK
  <2>2. \A p : Exists(p) => Exists(p)'
    BY <2>1 DEF SameFs, Exists
  <2> QED BY <1>1, <2>1, <2>2 DEF WriteFits
<1>5. CASE MakeDirectory(t)
  <2>1. PICK k \in 0 .. Len(a) - 2 : job[t].todo = ToMake(a, k) /\ Exists(SubSeq(a, 1, k))
    BY <1>a, <1>5 DEF WriteFits, MakeDirectory, MkDir
  <2> DEFINE d == SubSeq(a, 1, k + 1)
  <2>2. /\ Front(d) = SubSeq(a, 1, k)
        /\ \/ Exists(d) /\ SameFs /\ MadeTo(t, k)
           \/ ~Exists(d) /\ Added(d, Dir) /\ MadeTo(t, k)
           \/ /\ ~Exists(d) /\ ~IsDir(Front(d)) /\ SameFs
              /\ job'[t].at = "done" /\ job'[t].result = "OSError"
    BY <1>a, <1>5, <2>1, MakeDirectoryIs
  <2>3. k \in Nat /\ k <= Len(a) - 2 /\ Front(a) = SubSeq(a, 1, Len(a) - 1)
    BY <1>2, FrontIs
  <2>4. ASSUME ~IsDir(Front(d)), SameFs PROVE ~Writable(a)'
    <3>1. Front(d) # <<>> /\ Exists(Front(d))
      BY <2>1, <2>2, <2>4 DEF IsDir
    <3>2. k # 0
      <4> SUFFICES ASSUME k = 0 PROVE FALSE
        OBVIOUS
      <4>1. 0 \in 0 .. Len(a)
        BY <1>2
      <4>2. SubSeq(a, 1, 0) = <<>>
        BY <1>2, <4>1, FirstNames, EmptySeq DEF Path
      <4> QED BY <2>2, <3>1, <4>2
    <3>3. k \in 1 .. Len(a) - 1
      BY <1>2, <2>3, <3>2
    <3>4. Front(d) \in Above(a)
      BY <2>2, <3>3 DEF Above
    <3>5. ~Writable(a)
      BY <2>4, <3>1, <3>4 DEF Writable
    <3> QED BY <2>4, <3>5 DEF SameFs, Writable, Above, Exists, IsDir
  <2>5. ASSUME MadeTo(t, k), Exists(d)' PROVE WriteFits(t)'
    <3>1. CASE job'[t].at = "open" /\ k = Len(a) - 2
      <4>1. Len(a) - 2 + 1 = Len(a) - 1
        BY <1>2
      <4>2. Exists(Front(a))'
        BY <2>3, <2>5, <3>1, <4>1
      <4> QED BY <1>1, <3>1, <4>2 DEF WriteFits
    <3>2. CASE /\ job'[t].at = "mkdir" /\ job'[t].todo = ToMake(a, k + 1)
               /\ k < Len(a) - 2
      <4>1. k + 1 \in 0 .. Len(a) - 2
        BY <1>2, <2>3, <3>2
      <4> QED BY <1>1, <2>5, <3>2, <4>1 DEF WriteFits
    <3> QED BY <1>a, <2>5, <3>1, <3>2 DEF MadeTo
  <2>6. (Exists(d) /\ SameFs) \/ Added(d, Dir) => Exists(d)'
    <3>1. ASSUME Exists(d), SameFs PROVE Exists(d)'
      BY <3>1 DEF SameFs, Exists
    <3> HIDE DEF d
    <3>2. ASSUME Added(d, Dir) PROVE d \in DOMAIN fs'
      BY <3>2, AddedIs
    <3> QED BY <3>1, <3>2 DEF Exists, d
  <2>7. ASSUME ~IsDir(Front(d)), SameFs, job'[t].at = "done", job'[t].result = "OSError"
        PROVE  WriteFits(t)'
    BY <1>1, <2>4, <2>7 DEF WriteFits
  <2> QED BY <2>2, <2>5, <2>6, <2>7
<1>6. CASE Open(t)
  <2>1. \/ /\ Added(a, FileAt(t)) /\ FileAt(t) # Dir
           /\ job'[t].at = "fill" /\ data' = Updated(data, All({FileAt(t)}, ""))
        \/ /\ IsDir(a) \/ ~IsDir(Front(a))
           /\ job'[t].at = "done" /\ job'[t].result = "OSError" /\ SameFs
    BY <1>a, <1>6, OpenIs
  <2>2. CASE /\ Added(a, FileAt(t)) /\ FileAt(t) # Dir
             /\ job'[t].at = "fill" /\ data' = Updated(data, All({FileAt(t)}, ""))
    <3>1. PICK f : f = FileAt(t)
      OBVIOUS
    <3>2. /\ DOMAIN fs' = DOMAIN fs \cup {a} /\ fs'[a] = f
          /\ \A q \in DOMAIN fs : fs'[q] = fs[q]
      BY <2>2, <3>1, AddedIs
    <3>3. \A d \in Above(a) : d \in DOMAIN fs /\ fs[d] = Dir
      BY <1>1, <1>2, <2>2, AboveDirectory DEF Added
    <3>4. Writable(a)'
      <4>1. ~IsDir(a)'
        BY <1>2, <2>2, <3>1, <3>2 DEF IsDir
      <4>2. \A d \in Above(a) : IsDir(d)'
        BY <3>2, <3>3 DEF IsDir
      <4> QED BY <4>1, <4>2 DEF Writable
    <3>5. f \in DOMAIN data' /\ data'[f] = ""
      BY <2>2, <3>1 DEF Updated, All
    <3>6. Written(t, "")'
      BY <1>1, <3>2, <3>5 DEF Written
    <3>7. job'[t].file = fs'[a]
      BY <1>a, <1>1, <1>6, <2>2, <3>1, <3>2, OpenIs
    <3> QED BY <1>1, <2>2, <3>4, <3>6, <3>7 DEF WriteFits
  <2>3. CASE /\ IsDir(a) \/ ~IsDir(Front(a))
             /\ job'[t].at = "done" /\ job'[t].result = "OSError" /\ SameFs
    <3>1. Exists(Front(a))
      BY <1>a, <1>6 DEF WriteFits, Open
    <3>2. ASSUME ~IsDir(Front(a)) PROVE ~Writable(a)
      <4>1. Front(a) \in Path /\ Front(a) # <<>> /\ IsStrictPrefix(Front(a), a)
        BY <1>2, <3>2, FrontIs, FrontPrefix DEF IsDir
      <4>2. Front(a) \in Above(a)
        BY <1>2, <4>1, AboveIs
      <4> QED BY <3>1, <3>2, <4>2 DEF Writable
    <3>3. ~Writable(a)
      BY <1>2, <2>3, <3>2 DEF Writable, IsDir
    <3>4. ~Writable(a)'
      BY <2>3, <3>3 DEF SameFs, Writable, Above, Exists, IsDir
    <3> QED BY <1>1, <2>3, <3>4 DEF WriteFits
  <2> QED BY <2>1, <2>2, <2>3
<1>7. CASE Fill(t)
  <2>1. /\ SameFs /\ job[t].at = "fill" /\ job'[t].at = "done" /\ job'[t].result = "ok"
        /\ data' = [data EXCEPT ![job[t].file] = Contents(job[t].file, Args(t).contents)]
    BY <1>1, <1>7, FillIs
  <2>2. /\ Writable(a) /\ a \in DOMAIN fs /\ fs[a] \in DOMAIN data /\ data[fs[a]] = ""
        /\ fs[a] = job[t].file
    BY <1>a, <2>1 DEF WriteFits, Written
  <2>3. Writable(a)'
    BY <2>1, <2>2 DEF SameFs, Writable, Above, Exists, IsDir
  <2>4. Written(t, Args(t).contents)'
    BY <1>1, <2>1, <2>2 DEF SameFs, Written, Contents
  <2> QED BY <1>1, <2>1, <2>3, <2>4 DEF WriteFits
<1> QED BY <1>3, <1>4, <1>5, <1>6, <1>7

\* The invariant of the writes is kept,
LEMMA WriteNext ==
    ASSUME SystemTypeOK, NumberInv, WriteInv, [SystemNext]_systemVars PROVE WriteInv'
<1>1. CASE UNCHANGED systemVars
  <2>1. fs' = fs /\ data' = data /\ job' = job /\ \A t \in Workers : Args(t)' = Args(t)
    BY <1>1 DEF systemVars, Args
  <2>2. ASSUME NEW t \in Workers, WriteAlone(t)' PROVE WriteFits(t)'
    <3>1. WriteAlone(t)
      BY <2>1, <2>2 DEF WriteAlone, Others, Harmless
    <3>2. WriteFits(t)
      BY <3>1 DEF WriteInv
    <3>3. \A p : (Exists(p)' <=> Exists(p)) /\ (Writable(p)' <=> Writable(p))
      BY <2>1 DEF Writable, Above, Exists, IsDir
    <3>4. \A c : Written(t, c)' <=> Written(t, c)
      BY <2>1 DEF Written
    <3>5. /\ Args(t)' = Args(t) /\ Exists(Front(Args(t).path))' = Exists(Front(Args(t).path))
          /\ Writable(Args(t).path)' = Writable(Args(t).path)
      BY <2>1 DEF Writable, Above, Exists, IsDir
    <3>6. Written(t, Args(t).contents)' = Written(t, Args(t).contents)
      BY <2>1 DEF Written
    <3> QED BY <2>1, <3>2, <3>3, <3>4, <3>5, <3>6 DEF WriteFits
  <2> QED BY <2>2 DEF WriteInv
<1>2. ASSUME NEW u \in Workers, Step(u) PROVE WriteInv'
  <2>1. OnlyOf(u)
    BY <1>2, StepsFit DEF StepFits
  <2>2. \A t \in Workers : Args(t)' = Args(t)
    BY <2>1 DEF OnlyOf, Args
  <2>3. ASSUME NEW t \in Workers, WriteAlone(t)' PROVE WriteFits(t)'
    <3>1. WriteAlone(t)
      BY <2>2, <2>3 DEF WriteAlone, Others, Harmless
    <3>2. WriteFits(t) /\ Args(t).op = "write"
      BY <3>1 DEF WriteInv, WriteAlone
    <3> QED BY <1>2, <3>1, <3>2, WriteSteps, WriteStays
  <2> QED BY <2>3 DEF WriteInv
<1> QED BY <1>1, <1>2 DEF SystemNext

\* holds in the beginning,
LEMMA WriteInit == ASSUME SystemInit PROVE WriteInv
<1>1. \A t \in Workers : job[t].at = "start"
  BY CallBegins
<1> QED BY <1>1 DEF WriteInv, WriteFits

\* and says that writes succeed if they can.
LEMMA WritesAreDone == ASSUME WriteInv PROVE WritesSucceed
BY DEF WriteInv, WriteAlone, WriteFits, Written, WritesSucceed, Ended

-----------------------------------------------------------------------------
(* Installations                                                           *)

\* There is a file at q, with contents c.
Holds(q, c) == q \in DOMAIN fs /\ fs[q] \in DOMAIN data /\ data[fs[q]] = c

\* What is at d and below it stays as it is, with its contents.
Unchanged(d) ==
    \A q \in Path : IsPrefix(d, q) =>
        /\ q \in DOMAIN fs' <=> q \in DOMAIN fs
        /\ q \in DOMAIN fs => fs'[q] = fs[q]
        /\ \A c : Holds(q, c) => Holds(q, c)'

\* A thread that writes elsewhere leaves a directory as it is.
LEMMA ElsewhereUnchanged ==
    ASSUME NEW d \in Path, NEW moved \in BOOLEAN, Numbered(d, moved), NEW t \in Workers,
           NEW b \in Path, b = Args(t).path, Reads(t) \/ (Writes(t) /\ ~IsPrefix(d, b))
    PROVE  Unchanged(d)
<1> SUFFICES ASSUME NEW q \in Path, IsPrefix(d, q)
             PROVE  /\ q \in DOMAIN fs' <=> q \in DOMAIN fs
                    /\ q \in DOMAIN fs => fs'[q] = fs[q]
                    /\ \A c : Holds(q, c) => Holds(q, c)'
  BY DEF Unchanged
<1>0. CASE Reads(t)
  BY <1>0 DEF Reads, SameFs, Holds
<1> SUFFICES ASSUME Writes(t), ~IsPrefix(d, b)
             PROVE  /\ q \in DOMAIN fs' <=> q \in DOMAIN fs
                    /\ q \in DOMAIN fs => fs'[q] = fs[q]
                    /\ \A c : Holds(q, c) => Holds(q, c)'
  BY <1>0
<1>1. ~IsPrefix(q, b)
  BY PrefixesCompare
<1>2. ASSUME NEW p, NEW v, Added(p, v), p # q
      PROVE  (q \in DOMAIN fs' <=> q \in DOMAIN fs) /\ (q \in DOMAIN fs => fs'[q] = fs[q])
  <2>1. /\ DOMAIN fs' = DOMAIN fs \cup {p} /\ \A r \in DOMAIN fs : fs'[r] = fs[r]
    BY <1>2, AddedIs
  <2> QED BY <1>2, <2>1
<1>3. (q \in DOMAIN fs' <=> q \in DOMAIN fs) /\ (q \in DOMAIN fs => fs'[q] = fs[q])
  <2>1. CASE SameFs
    BY <2>1 DEF SameFs
  <2>2. CASE MakesDir(t)
    <3>1. PICK p \in Path : IsStrictPrefix(p, b) /\ Added(p, Dir)
      BY <2>2 DEF MakesDir
    <3>2. p # q
      BY <1>1, <3>1, PrefixesCompare
    <3> QED BY <1>2, <3>1, <3>2
  <2>3. CASE MakesFile(t)
    <3>1. b # q
      BY <1>1, PrefixesCompare
    <3> QED BY <1>2, <2>3, <3>1 DEF MakesFile
  <2> QED BY <2>1, <2>2, <2>3 DEF Reads, Writes, Fills
<1>4. ASSUME NEW c, Holds(q, c) PROVE Holds(q, c)'
  <2>1. q \in DOMAIN fs /\ fs[q] \in DOMAIN data /\ data[fs[q]] = c
    BY <1>4 DEF Holds
  <2>2. b # q
    BY <1>1, PrefixesCompare
  <2>3. fs[q] \in DOMAIN data' /\ data'[fs[q]] = c
    <3>1. CASE data' = data
      BY <2>1, <3>1
    <3>2. CASE Fills(t)
      <4>1. /\ b \in DOMAIN fs /\ fs[b] = job[t].file /\ job[t].file # Dir
        BY <3>2 DEF Numbered, Fills
      <4>2. fs[q] # job[t].file
        BY <2>1, <2>2, <4>1 DEF Numbered
      <4> QED BY <2>1, <3>2, <4>2 DEF Fills
    <3>3. CASE MakesFile(t)
      <4>1. fs[q] # FileAt(t)
        <5>1. CASE b \in DOMAIN fs
          BY <2>1, <2>2, <3>3, <5>1 DEF Numbered, FileAt, MakesFile
        <5>2. CASE b \notin DOMAIN fs
          <6>1. FileAt(t) = <<t, b>>
            BY <5>2 DEF FileAt
          <6>2. fs[q] = <<t, b>> => q = b \/ IsPrefix(d, b)
            BY <2>1 DEF Numbered
          <6> QED BY <2>2, <6>1, <6>2
        <5> QED BY <5>1, <5>2
      <4> QED BY <2>1, <3>3, <4>1 DEF MakesFile, Updated, All
    <3> QED BY <3>1, <3>2, <3>3 DEF Reads, Writes, MakesDir
  <2> QED BY <1>3, <2>1, <2>3 DEF Holds
<1> QED BY <1>3, <1>4

\* The package and the place where it is to be are beside each other.
LEMMA PackageBeside ==
    ASSUME NEW t \in Workers, CallFits(t), Args(t).op = "install", Package(t) # To(t)
    PROVE  /\ Package(t) \in Path \ {<<>>} /\ To(t) \in Path \ {<<>>} /\ Args(t).dest \in Path
           /\ IsPrefix(Args(t).dest, Package(t)) /\ IsPrefix(Args(t).dest, To(t))
           /\ ~IsPrefix(Package(t), To(t)) /\ ~IsPrefix(To(t), Package(t))
           /\ Args(t).path \in Path /\ ~IsPrefix(Args(t).dest, Args(t).path)
<1>1. /\ Args(t).dest \in Path /\ To(t) \in Path \ {<<>>} /\ Front(To(t)) = Args(t).dest
      /\ Package(t) \in Path \ {<<>>} /\ Front(Package(t)) = Args(t).dest
      /\ Args(t).path \in Path /\ ~IsPrefix(Args(t).dest, Args(t).path)
  BY PackagePaths DEF To
<1>2. ASSUME NEW p \in Path \ {<<>>}, NEW q \in Path \ {<<>>}, Front(p) = Front(q), IsPrefix(p, q)
      PROVE  p = q
  BY <1>2, FrontPrefix, PrefixesCompare
<1>3. ASSUME NEW p \in Path \ {<<>>} PROVE IsPrefix(Front(p), p)
  BY FrontIs, FrontPrefix, PrefixesCompare
<1> QED BY <1>1, <1>2, <1>3

\* What an installation has done so far, or given up.
Trying(t) ==
    \/ job[t].at \in {"start", "open", "fill", "untar"}
    \/ job[t].result \in {"callback", "ConnectionError"}

Replacing(t) == job[t].at \in {"rename", "exists", "unlink", "rmtree", "rmdir", "move"}

\* What was there is there; at the package's place there are files of earlier attempts.
OldKept(t) ==
    /\ Below(Package(t)) \subseteq InPackage(t, Args(t).files)
    /\ Files(fs, To(t)) = job[t].source
    /\ \A q \in DOMAIN job[t].source : Holds(q, "old")

\* The package is complete, but not yet where it is to be.
Ready(t) ==
    /\ job[t].path = Package(t) /\ Package(t) \in DOMAIN fs
    /\ Below(Package(t)) = InPackage(t, Args(t).files)
    /\ \A q \in InPackage(t, Args(t).files) : Holds(q, "new")

InPlace(t) ==
    /\ Below(To(t)) = {To(t) \o <<f>> : f \in Args(t).files}
    /\ \A q \in Below(To(t)) : Holds(q, "new")

InstallAlone(t) ==
    /\ Args(t).op = "install" /\ Package(t) # To(t)
    /\ \A u \in Others(t), p \in {Args(t).path, Args(t).dest} : Harmless(u, p)

InstallFits(t) ==
    /\ job[t].at # "done" => job[t].result \notin {"ok", "callback", "ConnectionError"}
    /\ job[t].removal = "" /\ Numbered(Args(t).dest, job[t].result = "ok")
    /\ Trying(t) => OldKept(t)
    /\ Replacing(t) => Ready(t)
    /\ job[t].at = "move" => To(t) \notin DOMAIN fs
    /\ job[t].result = "ok" => InPlace(t)

InstallInv == \A t \in Workers : InstallAlone(t) => InstallFits(t)

\* A step that changes nothing where packages are installed.
LEMMA InstallKept ==
    ASSUME SystemTypeOK, NEW t \in Workers, InstallAlone(t), Args(t)' = Args(t),
           job'[t].source = job[t].source, job'[t].path = job[t].path,
           Unchanged(Args(t).dest), TreeOK'
    PROVE  /\ OldKept(t) => OldKept(t)'
           /\ Ready(t) => Ready(t)'
           /\ InPlace(t) => InPlace(t)'
           /\ To(t) \notin DOMAIN fs => (To(t) \notin DOMAIN fs)'
<1>1. CallFits(t) /\ DOMAIN fs \subseteq Path /\ Args(t).op = "install" /\ Package(t) # To(t)
  BY DEF SystemTypeOK, TreeOK, InstallAlone
<1>2. PICK P, T, D, F, O : /\ P = Package(t) /\ T = To(t) /\ D = Args(t).dest
                           /\ F = InPackage(t, Args(t).files)
                           /\ O = {To(t) \o <<f>> : f \in Args(t).files}
  OBVIOUS
<1>3. /\ P = Package(t)' /\ T = To(t)' /\ F = InPackage(t, Args(t).files)'
      /\ O = {To(t)' \o <<f>> : f \in Args(t)'.files}
  BY <1>2 DEF Package, To, InPackage
<1>4. P \in Path /\ T \in Path /\ D \in Path /\ IsPrefix(D, P) /\ IsPrefix(D, T)
  BY <1>1, <1>2, PackageBeside
<1>5. \A q \in Path : IsPrefix(P, q) \/ IsPrefix(T, q) =>
        /\ q \in DOMAIN fs' <=> q \in DOMAIN fs
        /\ q \in DOMAIN fs => fs'[q] = fs[q]
        /\ \A c : Holds(q, c) => Holds(q, c)'
  BY <1>2, <1>4, PrefixesCompare DEF Unchanged
<1>6. DOMAIN fs' \subseteq Path
  BY DEF TreeOK
<1>7. Below(P)' = Below(P) /\ Below(T)' = Below(T)
  BY <1>1, <1>4, <1>5, <1>6, PrefixesCompare DEF Below
<1>8. Files(fs, T)' = Files(fs, T)
  <2>1. {q \in DOMAIN fs' : IsPrefix(T, q) /\ fs'[q] # Dir}
           = {q \in DOMAIN fs : IsPrefix(T, q) /\ fs[q] # Dir}
    BY <1>1, <1>5, <1>6
  <2>2. \A q \in {q \in DOMAIN fs : IsPrefix(T, q) /\ fs[q] # Dir} : fs'[q] = fs[q]
    BY <1>1, <1>5
  <2> QED BY <2>1, <2>2 DEF Files
<1>9. ASSUME NEW q \in DOMAIN Files(fs, T) PROVE q \in Path /\ IsPrefix(T, q) /\ q \in DOMAIN fs
  BY <1>1 DEF Files
<1>10. ASSUME OldKept(t) PROVE OldKept(t)'
  <2>1. /\ Below(P) \subseteq F /\ Files(fs, T) = job[t].source
        /\ \A q \in DOMAIN job[t].source : Holds(q, "old")
    BY <1>2, <1>10 DEF OldKept
  <2>2. \A q \in DOMAIN job[t].source : Holds(q, "old")'
    BY <1>5, <1>9, <2>1
  <2> QED BY <1>3, <1>7, <1>8, <2>1, <2>2 DEF OldKept
<1>11. ASSUME Ready(t) PROVE Ready(t)'
  <2>1. /\ job[t].path = P /\ P \in DOMAIN fs /\ Below(P) = F
        /\ \A q \in F : Holds(q, "new")
    BY <1>2, <1>11 DEF Ready
  <2>2. P \in DOMAIN fs'
    BY <1>4, <1>5, <2>1, PrefixesCompare
  <2>3. \A q \in F : q \in Path /\ IsPrefix(P, q)
    BY <1>1, <1>4, <2>1, PrefixesCompare DEF Below
  <2>4. \A q \in F : Holds(q, "new")'
    BY <1>5, <2>1, <2>3
  <2> QED BY <1>3, <1>7, <2>1, <2>2, <2>4 DEF Ready
<1>12. ASSUME InPlace(t) PROVE InPlace(t)'
  <2>1. Below(T) = O /\ \A q \in Below(T) : Holds(q, "new")
    BY <1>2, <1>12 DEF InPlace
  <2>2. \A q \in Below(T) : q \in Path /\ IsPrefix(T, q)
    BY <1>1, <1>4, PrefixesCompare DEF Below
  <2>3. \A q \in Below(T) : Holds(q, "new")'
    BY <1>5, <2>1, <2>2
  <2> QED BY <1>3, <1>7, <2>1, <2>3 DEF InPlace
<1>13. T \notin DOMAIN fs => T \notin DOMAIN fs'
  BY <1>4, <1>5, PrefixesCompare
<1> QED BY <1>2, <1>3, <1>10, <1>11, <1>12, <1>13

\* What another thread does during an installation.
LEMMA InstallStays ==
    ASSUME SystemTypeOK, NEW t \in Workers, NEW u \in Workers \ {t}, Step(u), InstallAlone(t),
           InstallFits(t)
    PROVE  InstallFits(t)'
<1>1. OnlyOf(u) /\ job'[t] = job[t] /\ Args(t)' = Args(t) /\ TreeOK' /\ CallFits(t)
  BY StepsFit DEF StepFits, OnlyOf, SystemTypeOK, Args
<1>2. PICK d, m : d = Args(t).dest /\ m = (job[t].result = "ok")
  OBVIOUS
<1>3. d \in Path /\ m \in BOOLEAN /\ Numbered(d, m)
  BY <1>1, <1>2, PackageBeside DEF InstallAlone, InstallFits
<1>4. Args(u).path \in Path
  BY DEF SystemTypeOK, CallFits, IsCall
<1>5. Reads(u) \/ (Writes(u) /\ ~IsPrefix(d, Args(u).path))
  BY <1>2, WriterSteps DEF InstallAlone, Others, Harmless
<1>6. Numbered(d, m)'
  BY <1>1, <1>3, <1>4, <1>5, NumbersKept
<1>7. Unchanged(d)
  BY <1>3, <1>4, <1>5, ElsewhereUnchanged
<1>8. /\ OldKept(t) => OldKept(t)'
      /\ Ready(t) => Ready(t)'
      /\ InPlace(t) => InPlace(t)'
      /\ To(t) \notin DOMAIN fs => (To(t) \notin DOMAIN fs)'
  BY <1>1, <1>2, <1>7, InstallKept
<1>9. Numbered(Args(t).dest, job[t].result = "ok")'
  <2>1. Args(t)'.dest = d /\ (job'[t].result = "ok" <=> m) /\ m \in BOOLEAN
    BY <1>1, <1>2
  <2>2. CASE m
    BY <1>6, <2>1, <2>2 DEF Numbered
  <2>3. CASE ~m
    BY <1>6, <2>1, <2>3 DEF Numbered
  <2> QED BY <2>1, <2>2, <2>3
<1> QED BY <1>1, <1>8, <1>9 DEF InstallFits, Trying, Replacing

\* The steps of an installation up to the end of a download.
LEMMA DownloadSteps ==
    ASSUME SystemTypeOK, NEW t \in Workers, Request(t) \/ Open(t) \/ Download(t),
           InstallAlone(t), InstallFits(t), Step(t)
    PROVE  InstallFits(t)'
<1>1. /\ OnlyOf(t) /\ Args(t)' = Args(t) /\ TreeOK' /\ CallFits(t) /\ AtFits(t) /\ JobsOK
      /\ Args(t).op = "install"
  BY StepsFit DEF StepFits, OnlyOf, SystemTypeOK, Args, InstallAlone
<1>2. PICK d, b : d = Args(t).dest /\ b = Args(t).path
  OBVIOUS
<1>3. d \in Path /\ b \in Path /\ ~IsPrefix(d, b)
  BY <1>1, <1>2, PackageBeside DEF InstallAlone
<1>4. /\ Reads(t) \/ Writes(t)
      /\ job'[t].source = job[t].source /\ job'[t].path = job[t].path
      /\ job[t].at \in {"start", "open", "fill"} /\ job'[t].removal = job[t].removal
      /\ \/ job'[t].at \in {"start", "open", "fill", "untar"} /\ job'[t].result = job[t].result
         \/ job'[t].at = "done" /\ job'[t].result \in {"callback", "ConnectionError", "OSError"}
  <2>1. CASE Request(t)
    BY <1>1, <2>1, DecisionIs DEF Decision, Request, At, Reads, Same, JobFields
  <2>2. CASE Open(t)
    <3>2. /\ Same(t, {"at", "result", "file"})
          /\ \/ /\ Added(b, FileAt(t)) /\ FileAt(t) # Dir /\ job'[t].at = "fill"
                /\ job'[t].file = FileAt(t) /\ data' = Updated(data, All({FileAt(t)}, ""))
                /\ job'[t].result = job[t].result
             \/ job'[t].at = "done" /\ job'[t].result = "OSError" /\ data' = data /\ SameFs
      BY <1>2, <2>2, OpenIs
    <3> QED BY <1>2, <2>2, <3>2 DEF Open, Reads, Writes, MakesFile, Same, JobFields
  <2>3. CASE Download(t)
    <3>1. /\ Same(t, {"at", "result", "attempt"}) /\ SameFs /\ job[t].at = "fill"
          /\ \E c : data' = [data EXCEPT ![job[t].file] = c]
          /\ \/ job'[t].at \in {"untar", "start"} /\ job'[t].result = job[t].result
             \/ job'[t].at = "done" /\ job'[t].result \in {"callback", "ConnectionError"}
      BY <1>1, <2>3, DownloadIs
    <3> QED BY <3>1 DEF Fills, Writes, Same, JobFields
  <2> QED BY <2>1, <2>2, <2>3
<1>5. job[t].result # "ok" /\ Numbered(d, FALSE) /\ OldKept(t)
  BY <1>2, <1>4 DEF InstallFits, Trying
<1>6. Numbered(d, FALSE)'
  BY <1>1, <1>2, <1>3, <1>4, <1>5, NumbersKept
<1>7. Unchanged(d)
  BY <1>2, <1>3, <1>4, <1>5, ElsewhereUnchanged
<1>8. OldKept(t)'
  BY <1>1, <1>2, <1>4, <1>5, <1>7, InstallKept
<1>9. job'[t].result # "ok" /\ Numbered(Args(t).dest, job[t].result = "ok")'
  BY <1>1, <1>2, <1>4, <1>5, <1>6 DEF Numbered
<1>10. job[t].result \notin {"callback", "ConnectionError"}
  BY <1>4 DEF InstallFits
<1> QED BY <1>4, <1>5, <1>8, <1>9, <1>10 DEF InstallFits, Trying, Replacing

\* Where an extraction puts something.
LEMMA ExtractWhere ==
    ASSUME SystemTypeOK, NEW t \in Workers, InstallAlone(t), NEW S \in SUBSET Args(t).files
    PROVE  /\ \A q \in InPackage(t, S) :
                 q \in Path /\ IsStrictPrefix(Package(t), q) /\ IsPrefix(Args(t).dest, q)
                 /\ ~IsPrefix(To(t), q)
           /\ \A q \in Dirs(t) :
                 /\ q \in Path /\ IsPrefix(q, Package(t))
                 /\ ~IsPrefix(To(t), q) /\ ~IsStrictPrefix(Package(t), q)
           /\ \A u \in Others(t) : job[u].at = "fill" =>
                 Args(u).path \notin InPackage(t, S) /\ Args(u).path \notin Dirs(t)
<1>1. CallFits(t) /\ Args(t).op = "install" /\ Package(t) # To(t)
  BY DEF SystemTypeOK, InstallAlone
<1>2. PICK P, T, D : P = Package(t) /\ T = To(t) /\ D = Args(t).dest
  OBVIOUS
<1>3. /\ P \in Path \ {<<>>} /\ T \in Path /\ D \in Path /\ IsPrefix(D, P) /\ IsPrefix(D, T)
      /\ ~IsPrefix(P, T) /\ ~IsPrefix(T, P)
  BY <1>1, <1>2, PackageBeside
<1>4. ASSUME NEW q \in InPackage(t, S)
      PROVE  q \in Path /\ IsStrictPrefix(P, q) /\ IsPrefix(D, q) /\ ~IsPrefix(T, q)
  <2>1. q \in Path \ {<<>>} /\ Front(q) = P
    BY <1>1, <1>2, FilesInPackage
  <2>2. IsStrictPrefix(P, q)
    BY <2>1, FrontPrefix
  <2> QED BY <1>3, <2>1, <2>2, PrefixesCompare
<1>5. ASSUME NEW q \in Dirs(t)
      PROVE  q \in Path /\ IsPrefix(q, P) /\ ~IsPrefix(T, q) /\ ~IsStrictPrefix(P, q)
  <2>1. q \in Path /\ IsPrefix(q, P)
    BY <1>2, <1>3, AboveIs, PrefixesCompare DEF Dirs
  <2>2. ~IsPrefix(T, q)
    BY <1>3, <2>1, PrefixesCompare
  <2>3. ~IsStrictPrefix(P, q)
    <3> SUFFICES ASSUME IsStrictPrefix(P, q) PROVE FALSE
      OBVIOUS
    <3> QED BY <1>3, <2>1, PrefixIs, PathIs
  <2> QED BY <2>1, <2>2, <2>3
<1>6. ASSUME NEW u \in Others(t), job[u].at = "fill"
      PROVE  Args(u).path \notin InPackage(t, S) /\ Args(u).path \notin Dirs(t)
  <2>1. Args(u).op \in {"write", "make", "install"} /\ Args(u).path \in Path
    BY <1>6 DEF SystemTypeOK, AtFits, CallFits, IsCall, Others
  <2>2. ~IsPrefix(Args(u).path, D) /\ ~IsPrefix(D, Args(u).path)
    BY <1>2, <2>1 DEF InstallAlone, Harmless
  <2> QED BY <1>3, <1>4, <1>5, <2>1, <2>2, PrefixesCompare
<1> QED BY <1>2, <1>4, <1>5, <1>6

\* An extraction gives its files numbers that no other has.
LEMMA ExtractNumbers ==
    ASSUME SystemTypeOK, NEW t \in Workers, InstallAlone(t), OnlyOf(t), job'[t].at # "fill",
           NEW S \in SUBSET Args(t).files, NEW c, Extract(t, S, c),
           NEW d, Numbered(d, FALSE)
    PROVE  Numbered(d, FALSE)'
<1>1. PICK F, M : F = InPackage(t, S) /\ M = Dirs(t)
  OBVIOUS
<1>2. /\ DOMAIN fs' = DOMAIN fs \cup M \cup F
      /\ \A p \in F : fs'[p] = <<t, p>>
      /\ \A p \in M \ F : fs'[p] = Dir
      /\ \A p \in DOMAIN fs \ (M \cup F) : fs'[p] = fs[p]
  BY <1>1, ExtractIs
<1>3. /\ \A p \in F : p \in Path
      /\ \A u \in Others(t) : job[u].at = "fill" => Args(u).path \notin F /\ Args(u).path \notin M
  BY <1>1, ExtractWhere
<1>4. Dir \notin Workers \X Path
  BY JobsAssumption
<1>5. /\ \A p, q \in DOMAIN fs : fs[p] = fs[q] /\ fs[p] # Dir => p = q
      /\ \A p \in DOMAIN fs, u \in Workers, q \in Path : fs[p] = <<u, q>> => p = q
  BY DEF Numbered
<1>6. ASSUME NEW p \in DOMAIN fs', NEW u \in Workers, NEW q \in Path, fs'[p] = <<u, q>>
      PROVE  p = q
  <2>1. CASE p \in F
    BY <1>2, <1>6, <2>1
  <2>2. CASE p \in M \ F
    BY <1>2, <1>4, <1>6, <2>2
  <2>3. CASE p \notin M \cup F
    <3>1. p \in DOMAIN fs /\ fs[p] = <<u, q>>
      BY <1>2, <1>6, <2>3
    <3> QED BY <1>5, <3>1
  <2> QED BY <2>1, <2>2, <2>3
<1>7. ASSUME NEW p \in DOMAIN fs', NEW q \in DOMAIN fs', fs'[p] = fs'[q], fs'[p] # Dir
      PROVE  p = q
  <2>1. CASE p \in F
    BY <1>2, <1>3, <1>6, <1>7, <2>1
  <2>2. CASE q \in F
    BY <1>2, <1>3, <1>6, <1>7, <2>2
  <2>3. CASE p \notin F /\ q \notin F
    BY <1>2, <1>5, <1>7, <2>3
  <2> QED BY <2>1, <2>2, <2>3
<1>8. ASSUME NEW u \in Workers, job'[u].at = "fill"
      PROVE  /\ Args(u)'.path \in DOMAIN fs' /\ fs'[Args(u)'.path] = job'[u].file
             /\ job'[u].file # Dir
  <2>1. u \in Others(t) /\ job'[u] = job[u] /\ Args(u)' = Args(u)
    BY <1>8 DEF Others, OnlyOf, Args
  <2>2. /\ Args(u).path \in DOMAIN fs /\ fs[Args(u).path] = job[u].file
        /\ job[u].file # Dir
    BY <1>8, <2>1 DEF Numbered
  <2> QED BY <1>2, <1>3, <1>8, <2>1, <2>2
<1> QED BY <1>6, <1>7, <1>8 DEF Numbered

\* An extraction leaves what was installed, and completes the package if it is whole.
LEMMA ExtractKeeps ==
    ASSUME SystemTypeOK, NEW t \in Workers, InstallAlone(t), Args(t)' = Args(t),
           job'[t].source = job[t].source, TreeOK', Numbered(Args(t).dest, FALSE), OldKept(t),
           NEW S \in SUBSET Args(t).files, NEW c, Extract(t, S, c)
    PROVE  /\ OldKept(t)'
           /\ S = Args(t).files =>
                 /\ (Package(t) \in DOMAIN fs)'
                 /\ (Below(Package(t)) = InPackage(t, Args(t).files))'
                 /\ \A q \in InPackage(t, Args(t).files) : Holds(q, c)'
<1>1. PICK F, A, M, P, T : /\ F = InPackage(t, S) /\ M = Dirs(t) /\ P = Package(t) /\ T = To(t)
                           /\ A = InPackage(t, Args(t).files)
  OBVIOUS
<1>2. /\ DOMAIN fs' = DOMAIN fs \cup M \cup F
      /\ \A p \in F : fs'[p] = <<t, p>>
      /\ \A p \in M \ F : fs'[p] = Dir
      /\ \A p \in DOMAIN fs \ (M \cup F) : fs'[p] = fs[p]
  BY <1>1, ExtractIs
<1>3. /\ \A q \in F : q \in Path /\ IsStrictPrefix(P, q) /\ ~IsPrefix(T, q)
      /\ \A q \in M : q \in Path /\ ~IsPrefix(T, q) /\ ~IsStrictPrefix(P, q)
  BY <1>1, ExtractWhere
<1>4. /\ P = Package(t)' /\ T = To(t)' /\ A = InPackage(t, Args(t).files)'
      /\ F \subseteq A /\ (S = Args(t).files => F = A) /\ P \in M
  BY <1>1 DEF Package, To, InPackage, Dirs
<1>5. /\ Below(P) \subseteq A /\ Files(fs, T) = job[t].source
      /\ \A q \in DOMAIN job[t].source : Holds(q, "old")
  BY <1>1 DEF OldKept
<1>6. data' = Updated(data, All({<<t, p>> : p \in F}, c))
  BY <1>1 DEF Extract
<1>7. Below(P)' \subseteq A /\ F \subseteq Below(P)'
  BY <1>2, <1>3, <1>4, <1>5 DEF Below
<1>8. \A q \in DOMAIN fs' : IsPrefix(T, q) => q \in DOMAIN fs /\ fs'[q] = fs[q]
  BY <1>2, <1>3
<1>9. \A q \in DOMAIN fs : IsPrefix(T, q) => q \in DOMAIN fs' /\ fs'[q] = fs[q]
  BY <1>2, <1>3
<1>10. Files(fs, T)' = Files(fs, T)
  <2>1. {q \in DOMAIN fs' : IsPrefix(T, q) /\ fs'[q] # Dir}
           = {q \in DOMAIN fs : IsPrefix(T, q) /\ fs[q] # Dir}
    BY <1>8, <1>9
  <2>2. \A q \in {q \in DOMAIN fs : IsPrefix(T, q) /\ fs[q] # Dir} : fs'[q] = fs[q]
    BY <1>9
  <2> QED BY <2>1, <2>2 DEF Files
<1>11. ASSUME NEW q \in DOMAIN job[t].source PROVE Holds(q, "old")'
  <2>1. q \in DOMAIN fs /\ IsPrefix(T, q)
    BY <1>5 DEF Files
  <2>2. q \in DOMAIN fs' /\ fs'[q] = fs[q]
    BY <1>9, <2>1
  <2>3. fs[q] \in DOMAIN data /\ data[fs[q]] = "old"
    BY <1>5 DEF Holds
  <2>4. ASSUME NEW p \in F, fs[q] = <<t, p>> PROVE FALSE
    <3>1. q = p
      BY <1>3, <2>1, <2>4 DEF Numbered
    <3> QED BY <1>3, <2>1, <3>1
  <2>5. fs[q] \in DOMAIN data' /\ data'[fs[q]] = "old"
    BY <1>6, <2>3, <2>4 DEF Updated, All
  <2> QED BY <2>2, <2>5 DEF Holds
<1>12. OldKept(t)'
  BY <1>4, <1>5, <1>7, <1>10, <1>11 DEF OldKept
<1>13. ASSUME S = Args(t).files
       PROVE  P \in DOMAIN fs' /\ Below(P)' = A /\ \A q \in A : Holds(q, c)'
  <2>1. ASSUME NEW q \in F PROVE Holds(q, c)'
    <3>1. q \in DOMAIN fs' /\ fs'[q] = <<t, q>>
      BY <1>2
    <3>2. <<t, q>> \in DOMAIN data' /\ data'[<<t, q>>] = c
      BY <1>6 DEF Updated, All
    <3> QED BY <3>1, <3>2 DEF Holds
  <2> QED BY <1>2, <1>4, <1>7, <1>13, <2>1
<1> QED BY <1>1, <1>4, <1>12, <1>13

\* The number of a file does not change with the way its place is named.
LEMMA NumberedSame ==
    ASSUME NEW t \in Workers, NEW d, NEW moved \in BOOLEAN, Numbered(d, moved)',
           d = Args(t)'.dest, moved <=> job'[t].result = "ok"
    PROVE  Numbered(Args(t).dest, job[t].result = "ok")'
<1>1. CASE moved
  BY <1>1 DEF Numbered
<1>2. CASE ~moved
  BY <1>2 DEF Numbered
<1> QED BY <1>1, <1>2

\* The package is complete, or the version that was there is kept.
LEMMA UntarSteps ==
    ASSUME SystemTypeOK, NEW t \in Workers, Untar(t), InstallAlone(t), InstallFits(t), Step(t)
    PROVE  InstallFits(t)'
<1>1. /\ OnlyOf(t) /\ Args(t)' = Args(t) /\ TreeOK' /\ CallFits(t) /\ JobsOK
      /\ Args(t).op = "install" /\ job[t].at = "untar"
  BY StepsFit DEF StepFits, OnlyOf, SystemTypeOK, Args, InstallAlone, Untar, At
<1>2. PICK d : d = Args(t).dest
  OBVIOUS
<1>3. /\ job[t].result \notin {"ok", "callback", "ConnectionError"}
      /\ Numbered(d, FALSE) /\ OldKept(t) /\ job[t].removal = ""
  BY <1>1, <1>2 DEF InstallFits, Trying
<1>4. CASE /\ ~Extractable(t) /\ SameFs /\ data' = data /\ Same(t, {"at", "result"})
           /\ job'[t].at = "done" /\ job'[t].result = "OSError"
  <2>1. Reads(t)
    BY <1>4 DEF Reads
  <2>2. Args(t).path \in Path
    BY <1>1, PackagePaths
  <2>3. Numbered(d, FALSE)'
    BY <1>1, <1>3, <2>1, <2>2, NumbersKept
  <2>4. Numbered(Args(t).dest, job[t].result = "ok")'
    BY <1>1, <1>2, <1>4, <2>3, NumberedSame
  <2> QED BY <1>3, <1>4, <2>4 DEF InstallFits, Trying, Replacing, Same, JobFields
<1>5. CASE /\ Extract(t, Args(t).files, "new") /\ Same(t, {"at", "path"})
           /\ job'[t].at = "rename" /\ job'[t].path = Package(t)
  <2>1. /\ job'[t].result = job[t].result /\ job'[t].source = job[t].source
        /\ job'[t].removal = job[t].removal
    BY <1>5 DEF Same, JobFields
  <2>2. Numbered(d, FALSE)'
    BY <1>1, <1>3, <1>5, ExtractNumbers
  <2>3. Numbered(Args(t).dest, job[t].result = "ok")'
    BY <1>1, <1>2, <1>3, <2>1, <2>2, NumberedSame
  <2>4. /\ (Package(t) \in DOMAIN fs)'
        /\ (Below(Package(t)) = InPackage(t, Args(t).files))'
        /\ \A q \in InPackage(t, Args(t).files) : Holds(q, "new")'
    BY <1>1, <1>2, <1>3, <1>5, <2>1, ExtractKeeps
  <2>5. InPackage(t, Args(t).files)' = InPackage(t, Args(t).files) /\ Package(t)' = Package(t)
    BY <1>1 DEF InPackage, Package
  <2>6. Ready(t)'
    BY <1>5, <2>4, <2>5 DEF Ready
  <2> QED BY <1>3, <1>5, <2>1, <2>3, <2>6 DEF InstallFits, Trying, Replacing
<1>6. CASE /\ \E S \in SUBSET Args(t).files : Extract(t, S, "cut")
           /\ Retry(t)
  <2>1. PICK S \in SUBSET Args(t).files : Extract(t, S, "cut")
    BY <1>6
  <2>2. /\ Same(t, {"at", "result", "attempt"})
        /\ \/ job'[t].at = "start" /\ job'[t].result = job[t].result
           \/ job'[t].at = "done" /\ job'[t].result \in {"callback", "ConnectionError"}
    BY <1>1, <1>6, RetryIs
  <2>3. job'[t].source = job[t].source /\ job'[t].removal = job[t].removal
    BY <2>2 DEF Same, JobFields
  <2>4. Numbered(d, FALSE)'
    BY <1>1, <1>3, <2>1, <2>2, ExtractNumbers
  <2>5. job'[t].result # "ok"
    BY <1>3, <2>2
  <2>6. Numbered(Args(t).dest, job[t].result = "ok")'
    BY <1>1, <1>2, <2>4, <2>5, NumberedSame
  <2>7. OldKept(t)'
    BY <1>1, <1>2, <1>3, <2>1, <2>3, ExtractKeeps
  <2> QED BY <1>3, <2>2, <2>3, <2>5, <2>6, <2>7 DEF InstallFits, Trying, Replacing
<1> QED BY <1>4, <1>5, <1>6, UntarIs

\* What is removed to make place for a package.
LEMMA RemovalSteps ==
    ASSUME SystemTypeOK, NEW t \in Workers, InstallAlone(t), InstallFits(t), Step(t),
           StartRename(t) \/ CheckTarget(t) \/ RemoveFile(t) \/ RmTree(t) \/ RmDir(t)
    PROVE  InstallFits(t)'
<1>1. /\ OnlyOf(t) /\ Args(t)' = Args(t) /\ TreeOK' /\ CallFits(t) /\ JobsOK /\ AtFits(t)
      /\ Args(t).op = "install" /\ Args(t).force /\ Package(t) # To(t) /\ DOMAIN fs \subseteq Path
  BY StepsFit, PackagePaths DEF StepFits, OnlyOf, SystemTypeOK, Args, InstallAlone, TreeOK
<1>2. PICK d, P, T, A : /\ d = Args(t).dest /\ P = Package(t) /\ T = To(t)
                        /\ A = InPackage(t, Args(t).files)
  OBVIOUS
<1>3. /\ d \in Path /\ P \in Path /\ T \in Path \ {<<>>} /\ IsPrefix(d, P) /\ IsPrefix(d, T)
      /\ ~IsPrefix(P, T) /\ ~IsPrefix(T, P)
  BY <1>1, <1>2, PackageBeside
<1>4. job[t].at \in {"rename", "exists", "unlink", "rmtree", "rmdir"}
  BY <1>1 DEF StartRename, BeginRename, CheckTarget, RemoveFile, RmTree, RmDir, At
<1>5. /\ job[t].result \notin {"ok", "callback", "ConnectionError"}
      /\ Numbered(d, FALSE) /\ Ready(t) /\ job[t].path = P
      /\ job[t].removal = "" /\ ~RemovesLast(t) /\ Doomed(t) = T
  BY <1>1, <1>2, <1>4 DEF InstallFits, Replacing, Ready, RemovesLast, Doomed
<1>6. /\ data' = data /\ job'[t].path = job[t].path /\ job'[t].removal = job[t].removal
      /\ SameFs \/ Removed({T}) \/ Removed(Below(T))
      /\ \/ /\ job'[t].at \in {"exists", "unlink", "rmtree", "rmdir"}
            /\ job'[t].result = job[t].result
         \/ job'[t].at = "done" /\ job'[t].result = "OSError"
         \/ job'[t].at = "move" /\ T \notin DOMAIN fs' /\ job'[t].result = job[t].result
  <2>1. CASE StartRename(t)
    <3>1. ~SamePath(t)
      BY <1>1, <1>2, <1>5 DEF SamePath
    <3> QED BY <1>1, <2>1, <3>1, BeginRenameIs DEF Same, JobFields
  <2>2. CASE CheckTarget(t)
    <3>1. /\ Same(t, {"at"}) /\ SameFs /\ data' = data
          /\ job'[t].at \in {"unlink", "rmtree"} \/ (~Exists(T) /\ job'[t].at = "move")
      BY <1>1, <1>2, <2>2, CheckTargetIs
    <3>2. ~Exists(T) => T \notin DOMAIN fs'
      BY <3>1 DEF Exists, SameFs
    <3> QED BY <3>1, <3>2 DEF Same, JobFields
  <2>3. Removed({T}) => T \notin DOMAIN fs'
    BY RemovedIs
  <2>4. CASE RemoveFile(t)
    BY <1>5, <2>3, <2>4, RemoveFileIs DEF Same, JobFields, Cleared
  <2>5. CASE RmTree(t)
    BY <1>5, <2>5, RmTreeIs DEF Same, JobFields
  <2>6. CASE RmDir(t)
    BY <1>5, <2>3, <2>6, RmDirIs DEF Same, JobFields, Cleared
  <2> QED BY <2>1, <2>2, <2>4, <2>5, <2>6
<1>7. PICK S : /\ DOMAIN fs' = DOMAIN fs \ S /\ \A q \in DOMAIN fs' : fs'[q] = fs[q]
               /\ \A q \in S : IsPrefix(T, q) /\ q \in Path
  <2>1. CASE SameFs
    <3>1. fs' = fs
      BY <2>1 DEF SameFs
    <3>2. DOMAIN fs' = DOMAIN fs \ {} /\ \A q \in DOMAIN fs' : fs'[q] = fs[q]
      BY <3>1
    <3> QED BY <3>2
  <2>2. CASE Removed({T})
    <3>1. DOMAIN fs' = DOMAIN fs \ {T} /\ \A q \in DOMAIN fs \ {T} : fs'[q] = fs[q]
      BY <2>2, RemovedIs
    <3>2. IsPrefix(T, T) /\ T \in Path
      BY <1>3, PrefixesCompare
    <3> QED BY <3>1, <3>2
  <2>3. CASE Removed(Below(T))
    <3>1. DOMAIN fs' = DOMAIN fs \ Below(T) /\ \A q \in DOMAIN fs \ Below(T) : fs'[q] = fs[q]
      BY <2>3, RemovedIs
    <3>2. \A q \in Below(T) : IsPrefix(T, q) /\ q \in Path
      BY <1>1, <1>3, PrefixesCompare DEF Below
    <3> QED BY <3>1, <3>2
  <2> QED BY <1>6, <2>1, <2>2, <2>3
<1>8. \A q \in Path : IsPrefix(P, q) => q \notin S
  BY <1>3, <1>7, PrefixesCompare
<1>9. Ready(t)'
  <2>1. P = Package(t)' /\ A = InPackage(t, Args(t).files)'
    BY <1>1, <1>2 DEF Package, InPackage
  <2>2. P \in DOMAIN fs /\ Below(P) = A /\ \A q \in A : Holds(q, "new")
    BY <1>2, <1>5 DEF Ready
  <2>3. \A q \in DOMAIN fs : IsPrefix(P, q) => q \in DOMAIN fs'
    BY <1>1, <1>7, <1>8
  <2>4. Below(P)' = Below(P)
    BY <1>1, <1>3, <1>7, <2>3, PrefixesCompare DEF Below
  <2>5. P \in DOMAIN fs'
    BY <1>3, <2>2, <2>3, PrefixesCompare
  <2>6. \A q \in A : q \in DOMAIN fs'
    BY <2>2, <2>4 DEF Below
  <2>7. \A q \in A : Holds(q, "new")'
    BY <1>6, <1>7, <2>2, <2>6 DEF Holds
  <2> QED BY <1>5, <1>6, <2>1, <2>2, <2>4, <2>5, <2>7 DEF Ready
<1>10. Numbered(d, FALSE)'
  <2>1. ASSUME NEW p \in DOMAIN fs', NEW u \in Workers, NEW q \in Path, fs'[p] = <<u, q>>
        PROVE  p = q
    <3>1. p \in DOMAIN fs /\ fs[p] = <<u, q>>
      BY <1>7, <2>1
    <3> QED BY <1>5, <3>1 DEF Numbered
  <2>2. ASSUME NEW p \in DOMAIN fs', NEW q \in DOMAIN fs', fs'[p] = fs'[q],
               fs'[p] # Dir
        PROVE  p = q
    <3>1. p \in DOMAIN fs /\ q \in DOMAIN fs /\ fs[p] = fs[q] /\ fs[p] # Dir
      BY <1>7, <2>2
    <3> QED BY <1>5, <3>1 DEF Numbered
  <2>3. ASSUME NEW u \in Workers, job'[u].at = "fill"
        PROVE  /\ Args(u)'.path \in DOMAIN fs' /\ fs'[Args(u)'.path] = job'[u].file
               /\ job'[u].file # Dir
    <3>1. u \in Others(t) /\ job'[u] = job[u] /\ Args(u)' = Args(u)
      BY <1>1, <1>6, <2>3 DEF Others, OnlyOf, Args
    <3>2. Args(u).op \in {"write", "make", "install"} /\ Args(u).path \in Path
      BY <2>3, <3>1 DEF SystemTypeOK, AtFits, CallFits, IsCall, Others
    <3>3. ~IsPrefix(d, Args(u).path)
      BY <1>2, <3>1, <3>2 DEF InstallAlone, Harmless
    <3>4. Args(u).path \notin S
      BY <1>3, <1>7, <3>2, <3>3, PrefixesCompare
    <3>5. /\ Args(u).path \in DOMAIN fs /\ fs[Args(u).path] = job[u].file
          /\ job[u].file # Dir
      BY <1>5, <2>3, <3>1 DEF Numbered
    <3> QED BY <1>7, <3>1, <3>4, <3>5
  <2> QED BY <2>1, <2>2, <2>3 DEF Numbered
<1>11. job'[t].result # "ok"
  BY <1>5, <1>6
<1>12. Numbered(Args(t).dest, job[t].result = "ok")'
  BY <1>1, <1>2, <1>10, <1>11, NumberedSame
<1>13. job'[t].at = "move" => (To(t) \notin DOMAIN fs)'
  <2>1. To(t)' = T
    BY <1>1, <1>2 DEF To
  <2> QED BY <1>6, <2>1
<1> QED BY <1>5, <1>6, <1>9, <1>11, <1>12, <1>13 DEF InstallFits, Trying, Replacing

\* The names of a file in a directory.
LEMMA OneMore ==
    ASSUME NEW p \in Path, NEW s \in STRING
    PROVE  /\ p \o <<s>> \in Path /\ Len(p \o <<s>>) = Len(p) + 1
           /\ \A i \in 1 .. Len(p) : (p \o <<s>>)[i] = p[i]
           /\ (p \o <<s>>)[Len(p) + 1] = s
           /\ IsStrictPrefix(p, p \o <<s>>)
<1>1. PICK a : a = p \o <<s>>
  OBVIOUS
<1>2. a \in Path \ {<<>>} /\ Front(a) = p /\ Last(a) = s
  BY <1>1, AppendIs
<1>3. /\ Len(a) \in Nat /\ Len(a) >= 1 /\ Len(Front(a)) = Len(a) - 1
      /\ \A i \in 1 .. Len(a) - 1 : Front(a)[i] = a[i]
  BY <1>2, FrontIs, PathIs
<1>4. IsStrictPrefix(p, a)
  BY <1>2, FrontPrefix
<1>5. Len(p) \in Nat /\ Len(a) = Len(p) + 1 /\ \A i \in 1 .. Len(p) : a[i] = p[i]
  BY <1>2, <1>3, PathIs
<1>6. a[Len(p) + 1] = s
  BY <1>2, <1>5 DEF Last
<1> QED BY <1>1, <1>2, <1>4, <1>5, <1>6

\* A directory that is moved, and a file in it.
LEMMA MovedItself ==
    ASSUME NEW p \in Path, NEW q \in Path PROVE MovedTo(p, q, p) = q
<1>1. IsPrefix(p, p) /\ Len(p) \in Nat /\ Len(q) \in Nat
  BY PrefixesCompare, PathIs
<1>2. /\ MovedTo(p, q, p) \in Path /\ Len(MovedTo(p, q, p)) = Len(q) + (Len(p) - Len(p))
      /\ \A i \in 1 .. Len(q) : MovedTo(p, q, p)[i] = q[i]
  BY <1>1, MovedToIs
<1>3. Len(MovedTo(p, q, p)) = Len(q)
  BY <1>1, <1>2
<1> QED BY <1>2, <1>3, PathsEqual

\* A file in it.
LEMMA MovedFile ==
    ASSUME NEW p \in Path, NEW q \in Path, NEW s \in STRING
    PROVE  MovedTo(p, q, p \o <<s>>) = q \o <<s>>
<1> DEFINE r == p \o <<s>>
           w == q \o <<s>>
           m == MovedTo(p, q, r)
<1>1. /\ r \in Path /\ Len(r) = Len(p) + 1 /\ r[Len(p) + 1] = s /\ IsStrictPrefix(p, r)
      /\ Len(p) \in Nat /\ Len(q) \in Nat
  BY OneMore, PathIs
<1>2. /\ w \in Path /\ Len(w) = Len(q) + 1 /\ w[Len(q) + 1] = s
      /\ \A i \in 1 .. Len(q) : w[i] = q[i]
  BY OneMore
<1> HIDE DEF r, w
<1>3. IsPrefix(p, r)
  BY <1>1, PrefixesCompare
<1>4. /\ m \in Path /\ Len(m) = Len(q) + (Len(r) - Len(p))
      /\ \A i \in 1 .. Len(q) : m[i] = q[i]
      /\ \A i \in 1 .. Len(r) - Len(p) : m[Len(q) + i] = r[Len(p) + i]
  BY <1>1, <1>3, MovedToIs
<1> HIDE DEF m
<1>5. 1 \in 1 .. Len(r) - Len(p) /\ Len(m) = Len(q) + 1
  BY <1>1, <1>4
<1>6. Len(m) = Len(w) /\ m[Len(q) + 1] = w[Len(q) + 1]
  BY <1>1, <1>2, <1>4, <1>5
<1>7. ASSUME NEW i \in 1 .. Len(m) PROVE m[i] = w[i]
  <2>1. i \in 1 .. Len(q) \/ i = Len(q) + 1
    BY <1>1, <1>2, <1>6
  <2> QED BY <1>2, <1>4, <1>6, <2>1
<1>8. m = w
  BY <1>2, <1>4, <1>6, <1>7, PathsEqual
<1> QED BY <1>8 DEF m, r, w

\* The package is moved to its place as a whole, or stays where it is.
LEMMA MoveSteps ==
    ASSUME SystemTypeOK, NEW t \in Workers, InstallAlone(t), InstallFits(t), Step(t), Move(t)
    PROVE  InstallFits(t)'
<1>1. /\ OnlyOf(t) /\ Args(t)' = Args(t) /\ CallFits(t) /\ JobsOK
      /\ Args(t).op = "install" /\ Package(t) # To(t) /\ DOMAIN fs \subseteq Path
      /\ job[t].at = "move" /\ TreeOK
  BY StepsFit DEF StepFits, OnlyOf, SystemTypeOK, Args, InstallAlone, TreeOK, Move
<1>2. PICK d, P, T, A : /\ d = Args(t).dest /\ P = Package(t) /\ T = To(t)
                        /\ A = InPackage(t, Args(t).files)
  OBVIOUS
<1>3. /\ d \in Path /\ P \in Path /\ T \in Path \ {<<>>} /\ IsPrefix(d, P) /\ IsPrefix(d, T)
      /\ ~IsPrefix(P, T) /\ ~IsPrefix(T, P)
  BY <1>1, <1>2, PackageBeside
<1>4. /\ job[t].result \notin {"ok", "callback", "ConnectionError"} /\ T \notin DOMAIN fs
      /\ Numbered(d, FALSE) /\ Ready(t) /\ job[t].path = P /\ job[t].removal = ""
  BY <1>1, <1>2 DEF InstallFits, Replacing, Ready
<1>5. Target(t) = T /\ ~Unrenamed(t)
  <2>1. Target(t) = T /\ ~Exists(T) /\ ~Across(t)
    BY <1>1, <1>2, <1>3, <1>4 DEF Target, IsDir, Exists, Across
  <2>2. P \in DOMAIN fs /\ P # <<>> /\ Front(P) = d /\ Front(T) = d
    BY <1>1, <1>2, <1>4, PackagePaths DEF Ready, To
  <2>3. IsDir(d)
    <3> SUFFICES ASSUME d # <<>> PROVE d \in DOMAIN fs /\ fs[d] = Dir
      BY DEF IsDir
    <3>1. IsStrictPrefix(d, P)
      BY <1>3, <2>2, FrontPrefix
    <3>2. d \in Above(P)
      BY <1>3, <3>1, AboveIs
    <3> QED BY <1>1, <2>2, <3>2 DEF TreeOK
  <2> QED BY <2>1, <2>2, <2>3 DEF Unrenamed
<1>6. /\ data' = data /\ job'[t].at = "done" /\ job'[t].removal = ""
      /\ \/ Relocated(P, T) /\ job'[t].result = "ok"
         \/ SameFs /\ job'[t].result = "OSError"
  BY <1>4, <1>5, MoveIs DEF Same, JobFields
<1>7. CASE SameFs /\ job'[t].result = "OSError"
  <2>1. Reads(t)
    BY <1>6, <1>7 DEF Reads
  <2>2. Args(t).path \in Path
    BY <1>1, PackagePaths
  <2>3. Numbered(d, FALSE)'
    BY <1>1, <1>4, <2>1, <2>2, NumbersKept
  <2>4. Numbered(Args(t).dest, job[t].result = "ok")'
    BY <1>1, <1>2, <1>7, <2>3, NumberedSame
  <2> QED BY <1>6, <1>7, <2>4 DEF InstallFits, Trying, Replacing
<1>8. CASE Relocated(P, T) /\ job'[t].result = "ok"
  <2>1. /\ \A r \in DOMAIN fs : IsPrefix(P, r) =>
              MovedTo(P, T, r) \in DOMAIN fs' /\ fs'[MovedTo(P, T, r)] = fs[r]
        /\ \A r \in DOMAIN fs : ~IsPrefix(P, r) =>
              r \in DOMAIN fs' /\ (~IsPrefix(T, r) => fs'[r] = fs[r])
        /\ \A m \in DOMAIN fs' :
              \/ \E r \in DOMAIN fs : IsPrefix(P, r) /\ m = MovedTo(P, T, r) /\ fs'[m] = fs[r]
              \/ m \in DOMAIN fs /\ ~IsPrefix(P, m) /\ fs'[m] = fs[m]
    BY <1>1, <1>8, RelocatedIs
  <2>2. /\ Below(P) = A /\ \A q \in A : Holds(q, "new")
        /\ A = {P \o <<f>> : f \in Args(t).files} /\ Args(t).files \subseteq STRING
    BY <1>1, <1>2, <1>4, PackagePaths DEF Ready, InPackage
  <2>3. ASSUME NEW m \in Below(T)' PROVE m \in {T \o <<f>> : f \in Args(t).files}
    <3>1. m \in DOMAIN fs' /\ IsStrictPrefix(T, m)
      BY <2>3 DEF Below
    <3>2. ASSUME m \in DOMAIN fs PROVE FALSE
      <4>1. T \in Above(m)
        BY <1>1, <1>3, <3>1, <3>2, AboveIs
      <4> QED BY <1>1, <1>4, <3>2, <4>1 DEF TreeOK
    <3>3. PICK r \in DOMAIN fs : IsPrefix(P, r) /\ m = MovedTo(P, T, r)
      BY <2>1, <3>1, <3>2
    <3>4. r # P
      <4> SUFFICES ASSUME r = P PROVE FALSE
        OBVIOUS
      <4>1. MovedTo(P, T, P) = T
        BY <1>3, MovedItself
      <4>2. ~IsStrictPrefix(T, T)
        BY <1>3, PrefixesCompare
      <4> QED BY <3>1, <3>3, <4>1, <4>2
    <3>5. r \in A
      BY <1>1, <1>3, <2>2, <3>3, <3>4, PrefixesCompare DEF Below
    <3>6. PICK f \in Args(t).files : r = P \o <<f>>
      BY <2>2, <3>5
    <3>7. m = T \o <<f>>
      BY <1>3, <2>2, <3>3, <3>6, MovedFile
    <3> QED BY <3>7
  <2>4. ASSUME NEW f \in Args(t).files
        PROVE  T \o <<f>> \in Below(T)' /\ Holds(T \o <<f>>, "new")'
    <3>1. PICK q, m : q = P \o <<f>> /\ m = T \o <<f>>
      OBVIOUS
    <3>2. q \in A /\ Holds(q, "new") /\ m = MovedTo(P, T, q)
      BY <1>3, <2>2, <3>1, MovedFile
    <3>3. q \in DOMAIN fs /\ IsPrefix(P, q)
      BY <1>1, <1>3, <2>2, <3>2, PrefixesCompare DEF Below
    <3>4. m \in DOMAIN fs' /\ fs'[m] = fs[q]
      BY <2>1, <3>2, <3>3
    <3>5. IsStrictPrefix(T, m)
      BY <1>3, <2>2, <3>1, OneMore
    <3>6. Holds(m, "new")'
      BY <1>6, <3>2, <3>4 DEF Holds
    <3> QED BY <3>1, <3>4, <3>5, <3>6 DEF Below
  <2>5. InPlace(t)'
    <3>1. T = To(t)'
      BY <1>1, <1>2 DEF To
    <3>2. Below(T)' = {T \o <<f>> : f \in Args(t).files}
      BY <2>3, <2>4
    <3>3. \A q \in Below(T)' : Holds(q, "new")'
      BY <2>4, <3>2
    <3> QED BY <1>1, <3>1, <3>2, <3>3 DEF InPlace
  <2>6. Numbered(d, TRUE)'
    <3>1. ASSUME NEW p \in DOMAIN fs', NEW u \in Workers, NEW q \in Path, fs'[p] = <<u, q>>
          PROVE  p = q \/ (IsPrefix(d, p) /\ IsPrefix(d, q))
      <4>1. \A x \in DOMAIN fs : fs[x] = <<u, q>> => x = q
        BY <1>4 DEF Numbered
      <4>2. ASSUME NEW r \in DOMAIN fs, IsPrefix(P, r), p = MovedTo(P, T, r), fs'[p] = fs[r]
            PROVE  IsPrefix(d, p) /\ IsPrefix(d, q)
        <5>1. r = q /\ r \in Path
          BY <1>1, <3>1, <4>1, <4>2
        <5>2. p \in Path /\ IsPrefix(T, p)
          BY <1>3, <4>2, <5>1, MovedToIs
        <5> QED BY <1>3, <4>2, <5>1, <5>2, PrefixesCompare
      <4> QED BY <2>1, <3>1, <4>1, <4>2
    <3>2. ASSUME NEW p \in DOMAIN fs', NEW q \in DOMAIN fs', fs'[p] = fs'[q],
                 fs'[p] # Dir
          PROVE  p = q
      <4>1. PICK r \in DOMAIN fs : /\ fs'[p] = fs[r]
                                   /\ \/ IsPrefix(P, r) /\ p = MovedTo(P, T, r)
                                      \/ ~IsPrefix(P, r) /\ p = r
        BY <2>1
      <4>2. PICK s \in DOMAIN fs : /\ fs'[q] = fs[s]
                                   /\ \/ IsPrefix(P, s) /\ q = MovedTo(P, T, s)
                                      \/ ~IsPrefix(P, s) /\ q = s
        BY <2>1
      <4>3. r = s
        BY <1>4, <3>2, <4>1, <4>2 DEF Numbered
      <4> QED BY <4>1, <4>2, <4>3
    <3>3. ASSUME NEW u \in Workers, job'[u].at = "fill"
          PROVE  /\ Args(u)'.path \in DOMAIN fs' /\ fs'[Args(u)'.path] = job'[u].file
                 /\ job'[u].file # Dir
      <4>1. u \in Others(t) /\ job'[u] = job[u] /\ Args(u)' = Args(u)
        BY <1>1, <1>6, <3>3 DEF Others, OnlyOf, Args
      <4>2. Args(u).op \in {"write", "make", "install"} /\ Args(u).path \in Path
        BY <3>3, <4>1 DEF SystemTypeOK, AtFits, CallFits, IsCall, Others
      <4>3. ~IsPrefix(d, Args(u).path)
        BY <1>2, <4>1, <4>2 DEF InstallAlone, Harmless
      <4>4. ~IsPrefix(P, Args(u).path) /\ ~IsPrefix(T, Args(u).path)
        BY <1>3, <4>2, <4>3, PrefixesCompare
      <4>5. /\ Args(u).path \in DOMAIN fs /\ fs[Args(u).path] = job[u].file
            /\ job[u].file # Dir
        BY <1>4, <3>3, <4>1 DEF Numbered
      <4> QED BY <2>1, <4>1, <4>4, <4>5
    <3> QED BY <3>1, <3>2, <3>3 DEF Numbered
  <2>7. Numbered(Args(t).dest, job[t].result = "ok")'
    BY <1>1, <1>2, <1>8, <2>6, NumberedSame
  <2> QED BY <1>6, <1>8, <2>5, <2>7 DEF InstallFits, Trying, Replacing
<1> QED BY <1>6, <1>7, <1>8

\* The steps of an installation.
LEMMA InstallSteps ==
    ASSUME SystemTypeOK, NEW t \in Workers, InstallAlone(t), InstallFits(t), Step(t)
    PROVE  InstallFits(t)'
<1>1. /\ Args(t).op = "install" /\ AtFits(t)
      /\ job[t].at \notin {"mkdir", "copy", "walk", "spawn"}
  BY DEF InstallAlone, InstallFits, SystemTypeOK, AtFits, CopyFits
<1>2. \/ Request(t) \/ Open(t) \/ Download(t) \/ Untar(t)
      \/ StartRename(t) \/ CheckTarget(t) \/ RemoveFile(t) \/ RmTree(t) \/ RmDir(t) \/ Move(t)
  BY <1>1 DEF Step, StartWrite, MakeDirectory, MkDir, StartMake, Fill, StartSearch, Walk, Stat,
     CopyDirectory, CopyLink, CopyFile, CopyStat, EndCopy, Listed, StartCommand, Spawn, At
<1> QED BY <1>2, DownloadSteps, UntarSteps, RemovalSteps, MoveSteps

\* The invariant of the installations is kept,
LEMMA InstallNext ==
    ASSUME SystemTypeOK, InstallInv, [SystemNext]_systemVars PROVE InstallInv'
<1>1. CASE UNCHANGED systemVars
  <2>1. fs' = fs /\ data' = data /\ job' = job /\ \A t \in Workers : Args(t)' = Args(t)
    BY <1>1 DEF systemVars, Args
  <2>2. ASSUME NEW t \in Workers, InstallAlone(t)' PROVE InstallFits(t)'
    <3>1. InstallAlone(t)
      BY <2>1, <2>2 DEF InstallAlone, Package, To, Others, Harmless
    <3>2. InstallFits(t)
      BY <3>1 DEF InstallInv
    <3>3. Unchanged(Args(t).dest) /\ TreeOK'
      BY <2>1 DEF Unchanged, Holds, SystemTypeOK, TreeOK, Above
    <3>4. /\ Args(t)' = Args(t) /\ job'[t].source = job[t].source
          /\ job'[t].path = job[t].path
      BY <2>1
    <3>5. /\ OldKept(t) => OldKept(t)'
          /\ Ready(t) => Ready(t)'
          /\ InPlace(t) => InPlace(t)'
          /\ To(t) \notin DOMAIN fs => (To(t) \notin DOMAIN fs)'
      BY <3>1, <3>3, <3>4, InstallKept
    <3>6. Numbered(Args(t).dest, job[t].result = "ok")'
      <4>1. PICK d, m : d = Args(t).dest /\ m = (job[t].result = "ok")
        OBVIOUS
      <4>2. Numbered(d, m)
        BY <3>2, <4>1 DEF InstallFits
      <4>3. Numbered(d, m)'
        BY <2>1, <4>2 DEF Numbered
      <4>4. d = Args(t)'.dest /\ (m <=> job'[t].result = "ok") /\ m \in BOOLEAN
        BY <2>1, <4>1
      <4> QED BY <4>3, <4>4, NumberedSame
    <3>7. (Trying(t)' <=> Trying(t)) /\ (Replacing(t)' <=> Replacing(t))
      BY <2>1 DEF Trying, Replacing
    <3> QED BY <2>1, <3>2, <3>5, <3>6, <3>7 DEF InstallFits
  <2> QED BY <2>2 DEF InstallInv
<1>2. ASSUME NEW u \in Workers, Step(u) PROVE InstallInv'
  <2>1. OnlyOf(u)
    BY <1>2, StepsFit DEF StepFits
  <2>2. \A t \in Workers : Args(t)' = Args(t) /\ To(t)' = To(t) /\ Package(t)' = Package(t)
    BY <2>1 DEF OnlyOf, Args, To, Package
  <2>3. ASSUME NEW t \in Workers, InstallAlone(t)' PROVE InstallFits(t)'
    <3>1. InstallAlone(t)
      BY <2>2, <2>3 DEF InstallAlone, Others, Harmless
    <3>2. InstallFits(t)
      BY <3>1 DEF InstallInv
    <3> QED BY <1>2, <3>1, <3>2, InstallSteps, InstallStays
  <2> QED BY <2>3 DEF InstallInv
<1> QED BY <1>1, <1>2 DEF SystemNext

\* holds in the beginning,
LEMMA InstallInit == ASSUME SystemInit PROVE InstallInv
<1>1. PICK j \in Jobs :
        /\ fs = j.fs
        /\ data = [f \in {j.fs[p] : p \in DOMAIN j.fs} \ {Dir} |-> "old"]
        /\ job = [t \in Workers |->
                    [args |-> j.calls[t], at |-> "start", path |-> j.calls[t].path,
                     todo |-> <<>>, names |-> {}, found |-> {}, file |-> <<>>,
                     attempt |-> 0, source |-> Files(j.fs, j.calls[t].to),
                     link |-> FALSE, target |-> <<>>, entries |-> <<>>, failed |-> FALSE,
                     removal |-> "", result |-> "none"]]
  BY DEF SystemInit
<1>2. IsTree(fs) /\ \A t \in Workers : IsCall(fs, j.calls[t])
  BY <1>1, JobsAssumption
<1>3. SystemTypeOK
  BY SystemTypeInit
<1>4. ASSUME NEW t \in Workers, InstallAlone(t) PROVE InstallFits(t)
  <2>1. /\ job[t].at = "start" /\ job[t].result = "none" /\ Args(t) = j.calls[t]
        /\ job[t].source = Files(fs, To(t)) /\ job[t].removal = ""
    BY <1>1 DEF Args, To
  <2>2. CallFits(t) /\ Args(t).op = "install" /\ IsCall(fs, Args(t)) /\ TreeOK
    BY <1>2, <1>3, <1>4, <2>1 DEF SystemTypeOK, InstallAlone
  <2>3. Package(t) \notin DOMAIN fs
    BY <1>4, <2>2 DEF IsCall, IsInstallation, InstallAlone, Package, To
  <2>4. Below(Package(t)) = {}
    <3> SUFFICES ASSUME NEW q \in DOMAIN fs, IsStrictPrefix(Package(t), q) PROVE FALSE
      BY DEF Below
    <3>1. q \in Path /\ Package(t) \in Path \ {<<>>}
      BY <2>2, PackagePaths DEF TreeOK
    <3>2. Package(t) \in Above(q)
      BY <3>1, AboveIs
    <3> QED BY <2>2, <2>3, <3>2 DEF TreeOK
  <2>5. ASSUME NEW q \in DOMAIN job[t].source PROVE Holds(q, "old")
    <3>1. q \in DOMAIN fs /\ fs[q] # Dir
      BY <2>1, <2>5 DEF Files
    <3> QED BY <1>1, <2>5, <3>1 DEF Holds
  <2>6. OldKept(t)
    BY <2>1, <2>4, <2>5 DEF OldKept
  <2>7. Numbered(Args(t).dest, FALSE)
    <3>1. \A u \in Workers : job[u].at = "start"
      BY <1>1
    <3> QED BY <1>2, <3>1 DEF IsTree, Numbered
  <2>8. Numbered(Args(t).dest, job[t].result = "ok")
    BY <2>1, <2>7 DEF Numbered
  <2> QED BY <2>1, <2>6, <2>8 DEF InstallFits, Trying, Replacing
<1> QED BY <1>4 DEF InstallInv

\* and says that what is installed is whole.
LEMMA PackagesAreWhole == ASSUME InstallInv PROVE PackageIsWhole
<1> SUFFICES ASSUME NEW t \in Workers, Args(t).op = "install", Package(t) # To(t),
                    \A u \in Others(t), p \in {Args(t).path, Args(t).dest} : Harmless(u, p)
             PROVE  /\ job[t].result = "ok" =>
                          /\ Below(To(t)) = {To(t) \o <<f>> : f \in Args(t).files}
                          /\ \A p \in Below(To(t)) : data[fs[p]] = "new"
                    /\ (job[t].at \in {"start", "open", "fill", "untar"}
                           \/ job[t].result \in {"callback", "ConnectionError"}) =>
                          /\ Files(fs, To(t)) = job[t].source
                          /\ \A p \in DOMAIN job[t].source : data[fs[p]] = "old"
  BY DEF PackageIsWhole
<1>1. InstallAlone(t)
  BY DEF InstallAlone
<1>2. InstallFits(t)
  BY <1>1 DEF InstallInv
<1>3. job[t].result = "ok" => InPlace(t)
  BY <1>2 DEF InstallFits
<1>4. (job[t].at \in {"start", "open", "fill", "untar"}
         \/ job[t].result \in {"callback", "ConnectionError"}) => OldKept(t)
  BY <1>2 DEF InstallFits, Trying
<1> QED BY <1>3, <1>4 DEF InPlace, OldKept, Holds

-----------------------------------------------------------------------------
(* The theorems                                                            *)

\* Whatever the calls and whichever threads come between their steps: the paths of
\* the file system are a tree of directories, and each call of system.py is at a
\* step that belongs to it, its missing directories the rest of its path.
THEOREM CallsFitTheirTree == SystemSpec => []SystemTypeOK
<1>1. SystemInit => SystemTypeOK
  BY SystemTypeInit
<1>2. SystemTypeOK /\ [SystemNext]_systemVars => SystemTypeOK'
  BY SystemTypeNext
<1> QED BY <1>1, <1>2, PTL DEF SystemSpec

\* find_matching: for any tree, roots and patterns, and whatever other threads do, a
\* search that succeeds has every matching file that was there all the time.
THEOREM SearchesSeeStable == SystemSpec => []SearchSeesStable
<1>1. SystemInit => SearchInv
  BY SearchInit
<1>2. SystemTypeOK /\ SearchInv /\ [SystemNext]_systemVars => SearchInv'
  BY SearchNext
<1>3. SystemTypeOK /\ SearchInv => SearchSeesStable
  BY SearchesAreRight
<1> QED BY <1>1, <1>2, <1>3, CallsFitTheirTree, PTL DEF SystemSpec

\* rename: for any source and target, neither in the other, no file of the source is
\* lost, whatever other threads write in between and wherever the rename fails; when it
\* is moved by copying, it is removed only after every file and link has a copy.
THEOREM RenamesKeepSources == SystemSpec => []SourceIsKept
<1>1. SystemInit => RenameInv
  BY RenameInit
<1>2. SystemTypeOK /\ RenameInv /\ [SystemNext]_systemVars => RenameInv'
  BY RenameNext
<1>3. SystemTypeOK /\ RenameInv => SourceIsKept
  BY SourcesAreKept
<1> QED BY <1>1, <1>2, <1>3, CallsFitTheirTree, PTL DEF SystemSpec

\* write_file: for any path and any other writes, the file is written, where a link
\* leads if there is one, unless something else is in its way; another thread that makes
\* the same directories is not.
THEOREM WritesEndWell == SystemSpec => []WritesSucceed
<1>1. SystemInit => NumberInv /\ WriteInv
  BY NumberInit, WriteInit
<1>2. SystemTypeOK /\ NumberInv /\ [SystemNext]_systemVars => NumberInv'
  BY NumberNext
<1>3. SystemTypeOK /\ NumberInv /\ WriteInv /\ [SystemNext]_systemVars => WriteInv'
  BY WriteNext
<1>4. WriteInv => WritesSucceed
  BY WritesAreDone
<1> QED BY <1>1, <1>2, <1>3, <1>4, CallsFitTheirTree, PTL DEF SystemSpec

\* connection_exception_retry of download and untar_package: for any package, however
\* many attempts fail and whatever they left, what is installed is whole, and what was
\* there is kept until it is.
THEOREM InstallsAreWhole == SystemSpec => []PackageIsWhole
<1>1. SystemInit => InstallInv
  BY InstallInit
<1>2. SystemTypeOK /\ InstallInv /\ [SystemNext]_systemVars => InstallInv'
  BY InstallNext
<1>3. InstallInv => PackageIsWhole
  BY PackagesAreWhole
<1> QED BY <1>1, <1>2, <1>3, CallsFitTheirTree, PTL DEF SystemSpec
=============================================================================
