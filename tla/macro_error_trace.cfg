SPECIFICATION ClientSpec
CONSTANTS
    MaxPieces = 1
    MaxMixed = 1
    Allowed = {"macro", "docs"}
    EndTag <- MCEndTag
    Names <- MCNames
    Texts <- MCTexts
    w1 = w1
    w2 = w2
    model = model
    macro = macro
    Nodes = {model, macro}
    NoNode = NoNode
    MacroTexts = {"x", "y", "bad"}
    BadTexts = {"bad"}
    MaxDepth = 4
    Workers = {w1, w2}
    Dir = Dir
    Link = Link
    Links = {Link}
    Jobs <- MCJobs
    Matching = {"a.sql", "b.sql", "c.sql", "n.sql"}
    Ignored = {"c.sql"}
    Executables = {"a.sql"}
    MaxAttempts = 2
CHECK_DEADLOCK FALSE
INVARIANT InnermostIsNamed
