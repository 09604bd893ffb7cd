---------------------------- MODULE BlockIterator ----------------------------
(***************************************************************************)
(* dbt_common/clients/_jinja_blocks.py, BlockIterator: makes top-level      *)
(* blocks and the raw text between them of the tags a TagIterator yields.   *)
(* find_tags is a generator: it runs when find_blocks asks for a tag.       *)
(***************************************************************************)
EXTENDS TagIterator, SequencesExt

CONSTANTS
    Allowed,  \* allowed_blocks
    EndTag    \* the name that ends a block: "end" and the name of its tag

ControlFlow == [if |-> "endif", for |-> "endfor"]
ControlFlowEnds == {ControlFlow[n] : n \in DOMAIN ControlFlow}

ASSUME AllowedAssumption ==
    /\ Allowed \subseteq DOMAIN EndTag /\ Allowed \subseteq Names
    /\ \A n \in Allowed : EndTag[n] \notin Allowed
    /\ "data" \notin Allowed \* the type of raw data is __dbt_data
    /\ Allowed \cap ControlFlowEnds = {}

VARIABLES
    collect,  \* collect_raw_data
    handled,  \* number of tags handled
    current,  \* current: the number of the tag of the open block, 0 if none
    stack,    \* stack: the open control flow tags
    last,     \* last_position
    blocks,   \* what was yielded: BlockTag and BlockData, as parts of the text
    warned,   \* the tags warning_callback was told of
    outcome   \* "running", "done" or what was raised

blockVars == <<collect, handled, current, stack, last, blocks, warned, outcome>>
allVars == <<lexVars, blockVars>>

BlockInit ==
    /\ Init
    /\ collect \in BOOLEAN
    /\ handled = 0 /\ current = 0 /\ stack = <<>> /\ last = 1
    /\ blocks = <<>> /\ warned = {} /\ outcome = "running"

\* next(): find_blocks waits for find_tags
Pull ==
    /\ outcome = "running" /\ handled = Len(tags)
    /\ LexNext
    /\ UNCHANGED blockVars

-----------------------------------------------------------------------------
(* One turn of the loop of find_blocks, for a tag                        *)

tag == tags[handled + 1]
Turn ==
    /\ outcome = "running" /\ handled < Len(tags)
    /\ UNCHANGED <<lexVars, collect>>

Mismatch ==
    /\ tag.name \in ControlFlowEnds
    /\ ~(stack # <<>> /\ ControlFlow[Last(stack)] = tag.name)

\* Mutant: tags inside a block are not counted.
StackAfterOutside ==
    IF tag.name \in DOMAIN ControlFlow /\ current = 0 THEN Append(stack, tag.name)
    ELSE IF tag.name \in ControlFlowEnds /\ stack # <<>> THEN Front(stack)
    ELSE stack

\* The stack after the tag, which closes what is open last or nothing.
StackAfter ==
    IF tag.name \in DOMAIN ControlFlow THEN Append(stack, tag.name)
    ELSE IF tag.name \in ControlFlowEnds /\ stack # <<>> THEN Front(stack)
    ELSE stack

RaiseError(error) ==
    /\ outcome' = error
    /\ UNCHANGED <<handled, current, stack, last, blocks, warned>>

\* UnexpectedControlFlowEndTagError, MissingControlFlowStartTagError
RaiseControlFlow == Turn /\ Mismatch /\ RaiseError("control flow")

\* BlockDefinitionNotAtTopError
RaiseNotAtTop ==
    Turn /\ ~Mismatch /\ tag.name \in Allowed /\ StackAfter # <<>> /\ RaiseError("not at top")

\* NestedTagsError
RaiseNested ==
    /\ Turn /\ ~Mismatch /\ tag.name \in Allowed /\ StackAfter = <<>>
    /\ current # 0 /\ RaiseError("nested")

Handled == handled' = handled + 1 /\ stack' = StackAfter /\ UNCHANGED outcome

Part(type, from, to) == [type |-> type, from |-> from, to |-> to]

\* The text from last to position to, if it is wanted and not empty.
WithRawData(to) ==
    IF collect /\ last < to THEN Append(blocks, Part("data", last, to)) ELSE blocks

StartBlock ==
    /\ Turn /\ ~Mismatch /\ tag.name \in Allowed /\ StackAfter = <<>> /\ current = 0
    /\ blocks' = WithRawData(tag.start)
    /\ last' = IF collect THEN tag.start ELSE last
    /\ current' = handled + 1
    /\ Handled /\ UNCHANGED warned

\* Mutant: any end tag ends the block.
EndsCurrentAny == current # 0 /\ tag.name \in {EndTag[n] : n \in Allowed}

EndsCurrent == current # 0 /\ tag.name = EndTag[tags[current].name]

\* Mutant: last_position is not set at the end of a block.
EndBlockLastKept ==
    /\ Turn /\ ~Mismatch /\ tag.name \notin Allowed /\ EndsCurrent
    /\ blocks' = Append(blocks, Part(tags[current].name, tags[current].start, tag.end))
    /\ current' = 0
    /\ Handled /\ UNCHANGED <<last, warned>>

EndBlock ==
    /\ Turn /\ ~Mismatch /\ tag.name \notin Allowed /\ EndsCurrent
    /\ last' = tag.end
    /\ blocks' = Append(blocks, Part(tags[current].name, tags[current].start, tag.end))
    /\ current' = 0
    /\ Handled /\ UNCHANGED warned

\* Any other tag is warned of at the top level.
OtherTag ==
    /\ Turn /\ ~Mismatch /\ tag.name \notin Allowed /\ ~EndsCurrent
    /\ warned' = IF current = 0 THEN warned \cup {tag} ELSE warned
    /\ Handled /\ UNCHANGED <<current, last, blocks>>

-----------------------------------------------------------------------------
AtEnd ==
    /\ outcome = "running" /\ handled = Len(tags) /\ pc = "end"
    /\ UNCHANGED <<lexVars, collect>>

\* MissingCloseTagError
RaiseNotClosed == AtEnd /\ current # 0 /\ RaiseError("not closed")

Finish ==
    /\ AtEnd /\ current = 0
    /\ blocks' = WithRawData(Len(text) + 1)
    /\ outcome' = "done"
    /\ UNCHANGED <<handled, current, stack, last, warned>>

\* The exception of find_tags goes through.
LexError ==
    /\ outcome = "running" /\ handled = Len(tags) /\ pc = "eof error"
    /\ UNCHANGED <<lexVars, collect>> /\ RaiseError("eof error")

BlockNext ==
    \/ Pull
    \/ RaiseControlFlow \/ RaiseNotAtTop \/ RaiseNested
    \/ StartBlock \/ EndBlock \/ OtherTag
    \/ RaiseNotClosed \/ Finish \/ LexError

BlockSpec == BlockInit /\ [][BlockNext]_allVars /\ WF_allVars(BlockNext)

-----------------------------------------------------------------------------
(* Properties                                                              *)

\* No text is lost or doubled: with collect_raw_data, the blocks and the raw
\* data between them are the text, cut into pieces that are not empty.
BlocksTileText ==
    (outcome = "done" /\ collect) =>
        /\ \A b \in ToSet(blocks) : b.from < b.to
        /\ \A i \in DOMAIN blocks :
              blocks[i].from = IF i = 1 THEN 1 ELSE blocks[i - 1].to
        /\ text # <<>> => /\ blocks # <<>>
                          /\ Last(blocks).to = Len(text) + 1

\* The control flow tags before tag i close each other, the last opened first:
\* closer gives each start its end, and none of these pairs crosses another.
ClosedBefore(i) ==
    LET starts == {k \in 1 .. i - 1 : tags[k].name \in DOMAIN ControlFlow}
        ends == {k \in 1 .. i - 1 : tags[k].name \in ControlFlowEnds}
    IN  \E closer \in [starts -> ends] :
            /\ \A e \in ends : \E k \in starts : closer[k] = e
            /\ \A k \in starts :
                  k < closer[k] /\ tags[closer[k]].name = ControlFlow[tags[k].name]
            /\ \A k, l \in starts : k < l /\ l < closer[k] => closer[l] < closer[k]

\* Blocks are not defined inside control flow: before each block that is
\* extracted, every if and for was closed, inside earlier blocks too.
BlocksAreAtTop ==
    \A b \in ToSet(blocks) : b.type # "data" =>
        \E i \in DOMAIN tags : tags[i].start = b.from /\ ClosedBefore(i)

\* If a text is accepted, its blocks are the allowed tags, each with the first
\* end tag of its name after it: none is left out, nested or cut short; and
\* the tags warned of are those that are in no block.
BlocksPairTags ==
    outcome = "done" =>
        LET starts == {k \in DOMAIN tags : tags[k].name \in Allowed}
            ends(i) == {j \in DOMAIN tags : j > i /\ tags[j].name = EndTag[tags[i].name]}
        IN  /\ \A i \in starts : ends(i) # {}
            /\ {b \in ToSet(blocks) : b.type # "data"} =
                  {Part(tags[i].name, tags[i].start,
                        tags[Least(ends(i))].end) : i \in starts}
            /\ \A i, j \in DOMAIN blocks : i < j => blocks[i].to <= blocks[j].from
            /\ warned = {x \in ToSet(tags) :
                           \A b \in ToSet(blocks) : b.type # "data" =>
                               ~(b.from <= x.start /\ x.end <= b.to)}

\* Every template is turned into blocks or refused: no rewind makes the search
\* for strings and tag ends go round in circles, and no tag is handled for ever.
BlocksEnd == <>(outcome # "running")
=============================================================================
