---------------------------- MODULE TagIterator ----------------------------
(***************************************************************************)
(* dbt_common/clients/_jinja_blocks.py, TagIterator: finds the block tags   *)
(* of a template.  It searches the text with regular expressions, from pos  *)
(* on, and keeps the last search for each of them to answer later ones.     *)
(*                                                                         *)
(* A text is a sequence of tokens, one for each thing that an expression    *)
(* looks for: a name stands for "{%" and that name; "'" and "dq" are the    *)
(* two quotes.  Positions are numbers of tokens, from 1 on.                 *)
(***************************************************************************)
EXTENDS Integers, Sequences

CONSTANTS
    Texts, \* templates
    Names  \* names of tags

ASSUME TextsAssumption == Texts \subseteq Seq(STRING)
ASSUME NamesAssumption == Names \subseteq STRING

VARIABLES
    text,
    pos,
    cache,  \* _past_matches
    pc,     \* where the search is: in find_tags or in one of the handlers
    opened, \* start_pos of the tag in hand
    tags    \* what was yielded

lexVars == <<text, pos, cache, pc, opened, tags>>

IsLeast(x, S) == x \in S /\ \A y \in S : x <= y
Least(S) == CHOOSE x \in S : IsLeast(x, S)

-----------------------------------------------------------------------------
(* Matches                                                                 *)

Quotes == {"'", "dq"}

\* The tokens at which each pattern matches, or may match.
Patterns ==
    [block |-> Names, comment |-> {"{#"}, commentEnd |-> {"#}"}, expr |-> {"{{"},
     exprEnd |-> {"}}"}, quote |-> Quotes, string |-> Quotes, close |-> {"%}"},
     raw |-> {"raw"}]

\* Where "{% endraw %}" follows "{% raw %}" at i.
EndRaws(i) ==
    {j \in i + 2 .. Len(text) - 1 :
        text[i + 1] = "%}" /\ text[j] = "endraw" /\ text[j + 1] = "%}"}

\* Where a string that starts at i ends.
Closers(i) == {j \in i + 1 .. Len(text) : text[j] = text[i]}

MatchesAt(p, i) ==
    /\ text[i] \in Patterns[p]
    /\ p = "string" => Closers(i) # {}
    /\ p = "raw" => EndRaws(i) # {}

NextOf(p, i) == {j \in i .. Len(text) : MatchesAt(p, j)}

\* The position after a match at i.
MatchEnd(p, i) ==
    CASE p = "string" -> Least(Closers(i)) + 1
      [] p = "raw" -> Least(EndRaws(i)) + 2
      [] OTHER -> i + 1

NoMatch == [start |-> 0, end |-> 0]

\* pattern.search(text, i).  The end of a comment matches with all that is
\* before it.
Search(p, i) ==
    IF NextOf(p, i) = {} THEN NoMatch
    ELSE [start |-> IF p = "commentEnd" THEN i ELSE Least(NextOf(p, i)),
          end |-> MatchEnd(p, Least(NextOf(p, i)))]

-----------------------------------------------------------------------------
(* The cache                                                               *)

NeverSearched == [from |-> 0, match |-> NoMatch]

\* Mutant: a match that was passed is used.
CachedPassed(p) ==
    /\ cache[p] # NeverSearched
    /\ cache[p].from <= pos

\* The last search for p answers a search from pos: it began at or before pos
\* and found nothing, or something that is not passed.
Cached(p) ==
    /\ cache[p] # NeverSearched
    /\ cache[p].from <= pos
    /\ cache[p].match = NoMatch \/ cache[p].match.start >= pos

SearchFor(p) == IF Cached(p) THEN cache[p].match ELSE Search(p, pos)

CacheAfter(ps) ==
    [p \in DOMAIN Patterns |->
        IF p \in ps /\ ~Cached(p) THEN [from |-> pos, match |-> Search(p, pos)]
        ELSE cache[p]]

\* _first_match: the patterns it is called with, at each place.
Wanted ==
    [tags |-> {"block", "comment", "expr"}, comment |-> {"commentEnd"},
     expr |-> {"exprEnd", "quote"}, exprString |-> {"string"},
     close |-> {"quote", "close"}, closeString |-> {"string"}, raw |-> {"raw"}]

Searched == cache' = CacheAfter(Wanted[pc])
Found == {p \in Wanted[pc] : SearchFor(p) # NoMatch}

\* The match of p is taken: it ends first.
Finds(place, p) ==
    /\ pc = place
    /\ p \in Found /\ \A q \in Found : SearchFor(p).end <= SearchFor(q).end
    /\ Searched

-----------------------------------------------------------------------------
Init ==
    /\ text \in Texts
    /\ pos = 1
    /\ cache = [p \in DOMAIN Patterns |-> NeverSearched]
    /\ pc = "tags" /\ opened = 0 /\ tags = <<>>

Advance(to, next) == pos' = to /\ pc' = next /\ UNCHANGED text

\* find_tags: nothing is left.
NoMoreTags ==
    /\ pc = "tags" /\ Found = {}
    /\ Searched /\ Advance(pos, "end") /\ UNCHANGED <<opened, tags>>

\* _expect_match: UnexpectedMacroEOFError.
Missing ==
    /\ pc \in DOMAIN Wanted \ {"tags"} /\ Found = {}
    /\ Searched /\ Advance(pos, "eof error") /\ UNCHANGED <<opened, tags>>

CommentStart ==
    /\ Finds("tags", "comment") /\ Advance(SearchFor("comment").end, "comment")
    /\ UNCHANGED <<opened, tags>>

\* Mutant: the comment is not passed.
CommentEndStays ==
    /\ Finds("comment", "commentEnd") /\ Advance(pos, "tags")
    /\ UNCHANGED <<opened, tags>>

CommentEnd ==
    /\ Finds("comment", "commentEnd") /\ Advance(SearchFor("commentEnd").end, "tags")
    /\ UNCHANGED <<opened, tags>>

ExprStart ==
    /\ Finds("tags", "expr") /\ Advance(SearchFor("expr").end, "expr")
    /\ UNCHANGED <<opened, tags>>

ExprEnd ==
    /\ Finds("expr", "exprEnd") /\ Advance(SearchFor("exprEnd").end, "tags")
    /\ UNCHANGED <<opened, tags>>

\* The quote is not passed: the string is searched from pos.
ExprQuote ==
    /\ Finds("expr", "quote") /\ Advance(pos, "exprString")
    /\ UNCHANGED <<opened, tags>>

ExprString ==
    /\ Finds("exprString", "string") /\ Advance(SearchFor("string").end, "expr")
    /\ UNCHANGED <<opened, tags>>

-----------------------------------------------------------------------------
(* handle_tag                                                              *)

Tag(name, start, end) == [name |-> name, start |-> start, end |-> end]

TagStart ==
    /\ Finds("tags", "block")
    /\ text[SearchFor("block").start] # "raw"
    /\ opened' = SearchFor("block").start
    /\ Advance(SearchFor("block").end, "close") /\ UNCHANGED tags

\* A raw block is searched from its start, as one match.
RawStart ==
    /\ Finds("tags", "block")
    /\ text[SearchFor("block").start] = "raw"
    /\ opened' = SearchFor("block").start
    /\ Advance(SearchFor("block").start, "raw") /\ UNCHANGED tags

\* The tag ends at position end.
Yield(end) ==
    /\ tags' = Append(tags, Tag(text[opened], opened, end))
    /\ Advance(end, "tags") /\ UNCHANGED opened

RawEnd == Finds("raw", "raw") /\ Yield(SearchFor("raw").end)

TagClose == Finds("close", "close") /\ Yield(SearchFor("close").end)

\* The quote is passed, and rewound to: the string is searched from there.
CloseQuote ==
    /\ Finds("close", "quote") /\ Advance(SearchFor("quote").end - 1, "closeString")
    /\ UNCHANGED <<opened, tags>>

\* Mutant: the string is not passed.
CloseStringStays ==
    /\ Finds("closeString", "string") /\ Advance(pos, "close")
    /\ UNCHANGED <<opened, tags>>

CloseString ==
    /\ Finds("closeString", "string") /\ Advance(SearchFor("string").end, "close")
    /\ UNCHANGED <<opened, tags>>

LexNext ==
    \/ NoMoreTags \/ Missing
    \/ CommentStart \/ CommentEnd
    \/ ExprStart \/ ExprEnd \/ ExprQuote \/ ExprString
    \/ TagStart \/ RawStart \/ RawEnd \/ TagClose \/ CloseQuote \/ CloseString

LexSpec == Init /\ [][LexNext]_lexVars

-----------------------------------------------------------------------------
(* Properties                                                              *)

Positions == 1 .. Len(text) + 1
Matches == [start : Nat, end : Nat]

LexTypeOK ==
    /\ text \in Texts
    /\ pos \in Positions
    /\ cache \in [DOMAIN Patterns -> [from : Nat, match : Matches]]
    /\ pc \in DOMAIN Wanted \cup {"end", "eof error"}
    /\ opened \in 0 .. Len(text)
    /\ tags \in Seq([name : STRING, start : Nat, end : Nat])

\* The cache cannot be told from no cache: whenever _search would answer from
\* the cache, a fresh search from the same position gives the same match, for
\* every pattern and wherever the position was advanced or rewound to.
CacheIsTransparent ==
    \A p \in DOMAIN Patterns : Cached(p) => cache[p].match = Search(p, pos)

\* One pass over the text that knows what it is in: what a reader of the
\* template sees.  quote is the quote of the string it is in.
Pass ==
    LET Followed(i) == i < Len(text) /\ text[i + 1] = "%}"
        Start(i) ==
            CASE text[i] = "{#" -> "comment"
              [] text[i] = "{{" -> "expr"
              [] text[i] = "raw" -> "raw"
              [] text[i] \in Names \ {"raw"} -> "tag"
              [] OTHER -> "text"
        Ends == [comment |-> "#}", expr |-> "}}", tag |-> "%}", rawEnd |-> "%}"]
        Read(r, i) ==
            CASE r.quote # "" -> IF text[i] = r.quote THEN [r EXCEPT !.quote = ""] ELSE r
              [] r.in \in {"expr", "tag"} /\ text[i] \in Quotes -> [r EXCEPT !.quote = text[i]]
              [] r.in = "text" -> [r EXCEPT !.in = Start(i), !.open = i]
              [] r.in = "raw" ->
                    IF text[i] = "endraw" /\ Followed(i) THEN [r EXCEPT !.in = "rawEnd"] ELSE r
              [] r.in \in DOMAIN Ends /\ text[i] = Ends[r.in] ->
                    [r EXCEPT !.in = "text", !.tags =
                        IF r.in \in {"tag", "rawEnd"}
                        THEN Append(@, Tag(text[r.open], r.open, i + 1)) ELSE @]
              [] OTHER -> r
        P[i \in 0 .. Len(text)] ==
            IF i = 0 THEN [in |-> "text", quote |-> "", open |-> 0, tags |-> <<>>]
            ELSE Read(P[i - 1], i)
    IN  P[Len(text)]

\* The tags found are those of the pass: strings hide the ends of tags and of
\* expressions, comments and raw blocks hide everything; a text is refused if
\* it ends inside one of these.  Nothing is said of a text with a string that
\* is not closed: the search then takes a later string, wherever it is.
LexesLikeReference ==
    pc \in {"end", "eof error"} /\ Pass.quote = "" =>
        /\ tags = Pass.tags
        /\ pc = "end" <=> Pass.in = "text"
=============================================================================
