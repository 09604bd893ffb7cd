--------------------------- MODULE MCBlockIterator ---------------------------
(* Templates of a few pieces: a tag, or another token.                     *)
EXTENDS BlockIterator

CONSTANTS
    MaxPieces, \* bound: pieces in a template of a narrow family
    MaxMixed   \* bound: pieces in a template of a wide one

MCEndTag == [macro |-> "endmacro", docs |-> "enddocs"]
MCNames == {"macro", "endmacro", "docs", "enddocs", "if", "endif", "for", "endfor",
            "set", "raw", "endraw"}

\* The pieces that make the cases: strings that hide the ends of tags and of
\* expressions; blocks in control flow and around it; blocks that are paired.
Narrow ==
    {{"open set", "%}", "'", "dq"}, {"{{", "}}", "'", "dq"},
     {"macro", "endmacro", "if", "endif", "endfor"},
     {"macro", "endmacro", "docs", "enddocs"}}

\* Strings, tags and expressions together; raw blocks and comments.
Wide ==
    {{"open set", "%}", "{{", "}}", "'", "dq"},
     {"raw", "endraw", "open endraw", "%}", "{#", "#}"}}

TokensOf(piece) ==
    CASE piece \in MCNames -> <<piece, "%}">>
      [] piece = "open set" -> <<"set">>
      [] piece = "open endraw" -> <<"endraw">>
      [] OTHER -> <<piece>>

\* The two quotes are alike: the first of a template is "'".
FirstQuoteIsSingle(s) ==
    \A i \in DOMAIN s : s[i] = "dq" => \E j \in 1 .. i : s[j] = "'"

Pieces(F, max) == {s \in UNION {[1 .. n -> F] : n \in 0 .. max} : FirstQuoteIsSingle(s)}

MCTexts ==
    {FlattenSeq([i \in DOMAIN s |-> TokensOf(s[i])]) :
        s \in UNION {Pieces(F, MaxPieces) : F \in Narrow}
                 \cup UNION {Pieces(F, MaxMixed) : F \in Wide}}
=============================================================================
