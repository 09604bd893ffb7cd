----------------------------- MODULE MCClients ------------------------------
(* What the clients of the file system and of jinja do, each started in     *)
(* states of its own: in one either the blocks of a text are looked for, or *)
(* both threads have calls of SystemClient to make, or one renders          *)
(* templates.                                                               *)
EXTENDS MCBlockIterator, MacroCalls, SystemClient, TLC

CONSTANTS w1, w2, model, macro, Link

None == [op |-> "none", path |-> <<>>, to |-> <<>>]
Write(p, c) == [op |-> "write", path |-> p, contents |-> c, to |-> <<>>]
Make(p, c, o) == [op |-> "make", path |-> p, contents |-> c, overwrite |-> o, to |-> <<>>]
Rename(p, q, f) == [op |-> "rename", path |-> p, to |-> q, force |-> f, across |-> FALSE]
RenameAcross(p, q) == [op |-> "rename", path |-> p, to |-> q, force |-> TRUE, across |-> TRUE]
Delete(p) == [op |-> "remove", path |-> p, to |-> <<>>]
Find(r) == [op |-> "search", path |-> <<>>, roots |-> r, to |-> <<>>]
Install(arch, top, to) ==
    [op |-> "install", path |-> <<"tar">>, dest |-> <<"pkgs">>, top |-> top, to |-> to,
     archive |-> arch, files |-> {"a.sql", "b.sql"}, force |-> TRUE]
Run(cwd, cmd) == [op |-> "run", path |-> cwd, cmd |-> cmd, to |-> <<>>]

\* The file system with directories ds and files fls; the calls of both threads.
Tree(ds, fls) == [p \in ds \cup fls |-> IF p \in ds THEN Dir ELSE <<"old", p>>]
Job(files, a, b) == [fs |-> files, calls |-> (w1 :> a @@ w2 :> b)]

Empty == <<>>
Models == Tree({<<"d">>}, {<<"d", "a.sql">>, <<"d", "b.sql">>, <<"d", "tmp">>, <<"d", "c.sql">>})
Two == Tree({<<"s">>, <<"s", "x">>, <<"d">>, <<"d", "x">>},
            {<<"s", "x", "a.sql">>, <<"d", "x", "b.sql">>})
Linked == (<<"d">> :> Link) @@ Tree({<<"s">>, <<"s", "x">>}, {<<"s", "x", "a.sql">>})
Within == (<<"s", "l.sql">> :> Link) @@ Tree({<<"s">>, <<"d">>}, {<<"s", "a.sql">>})
Installed == Tree({<<"pkgs">>, <<"pkgs", "p">>},
                  {<<"pkgs", "p", "a.sql">>, <<"pkgs", "p", "c.sql">>})

MCJobs ==
    {Job(Empty, None, None),
     Job(Empty, Write(<<"d", "e", "x">>, "1"), Write(<<"d", "e", "y">>, "2")),
     Job(Empty, Write(<<"d", "e", "x">>, "1"), Write(<<"d", "y">>, "2")),
     Job(Empty, Write(<<"d", "x">>, "1"), Write(<<"d", "x">>, "2")),
     Job(Two, Rename(<<"s">>, <<"d">>, TRUE), Write(<<"d", "x", "y">>, "2")),
     Job(Two, Rename(<<"s">>, <<"d">>, FALSE), Write(<<"d", "x", "y">>, "2")),
     Job(Two, Rename(<<"s">>, <<"d">>, TRUE), Rename(<<"s", "x">>, <<"d">>, TRUE)),
     Job(Two, Rename(<<"s", "x">>, <<"s">>, TRUE), Find(<< <<"s">> >>)),
     Job(Linked, Rename(<<"s">>, <<"d">>, TRUE), Run(<<"s">>, <<"s", "x">>)),
     Job(Two, Rename(<<"s">>, <<"n">>, TRUE), Run(<<"s">>, <<"s", "x", "a.sql">>)),
     Job(Two, Rename(<<"s">>, <<"n", "m">>, FALSE), Write(<<"n", "x">>, "2")),
     Job(Two, RenameAcross(<<"s">>, <<"d">>), Write(<<"d", "x", "a.sql">>, "2")),
     Job(Two, RenameAcross(<<"s">>, <<"n">>), Find(<< <<"s">>, <<"n">> >>)),
     Job(Two, RenameAcross(<<"s">>, <<"d">>), Delete(<<"s", "x", "a.sql">>)),
     Job(Two, RenameAcross(<<"s">>, <<"d">>), Rename(<<"s", "x">>, <<"d">>, TRUE)),
     Job(Two, RenameAcross(<<"s", "x", "a.sql">>, <<"d", "a.sql">>), Write(<<"d", "a.sql">>, "2")),
     Job(Linked, RenameAcross(<<"d">>, <<"s">>), Write(<<"s", "x", "a.sql">>, "2")),
     Job(Linked, Rename(<<"s">>, <<"d">>, TRUE), Delete(<<"d">>)),
     Job(Two, Rename(<<"s">>, <<"n">>, TRUE), Write(<<"n", "y">>, "2")),
     Job(Linked, Write(<<"d">>, "1"), Write(<<"s", "x", "a.sql">>, "2")),
     Job(Linked, Make(<<"d">>, "1", TRUE), Write(<<"d">>, "2")),
     Job(Within, RenameAcross(<<"s">>, <<"d">>), Write(<<"s", "l.sql">>, "2")),
     Job(Within, RenameAcross(<<"s">>, <<"n">>), Find(<< <<"n">> >>)),
     Job(Two, Rename(<<"s">>, <<"s">>, TRUE), Run(<<"s">>, <<>>)),
     Job(Models, Write(<<"d", "tmp", "x">>, "1"), Write(<<"d", "n", "x">>, "2")),
     Job(Models, Find(<< <<"d">> >>), Delete(<<"d", "a.sql">>)),
     Job(Models, Find(<< <<"d">> >>), Delete(<<"d", "tmp">>)),
     Job(Models, Find(<< <<"d">> >>), Make(<<"d", "n.sql">>, "1", FALSE)),
     Job(Models, Make(<<"d", "a.sql">>, "1", FALSE), Make(<<"d", "a.sql">>, "2", TRUE)),
     Job(Models, Find(<< <<"d">> >>), Rename(<<"d">>, <<"f">>, TRUE)),
     Job(Installed, Install("entry", "q", <<"pkgs", "p">>), Find(<< <<"pkgs">> >>)),
     Job(Installed, Install("bare", "q", <<"pkgs", "p">>), None),
     Job(Installed, Install("entry", "p", <<"pkgs", "p">>), None),
     Job(Installed, Install("bare", "p", <<"pkgs", "p">>), None)}

\* Files and templates are for states whose text is empty, with nothing to collect.
NoText == text = <<>> /\ ~collect /\ outcome = "done"
OnlyTemplates == \A t \in Workers : Args(t).op = "none"

BlockStep == BlockNext /\ UNCHANGED <<macroVars, systemVars>>
MacroStep == NoText /\ OnlyTemplates /\ MacroNext /\ UNCHANGED <<allVars, systemVars>>
ClientStep(t) == NoText /\ ~OnlyTemplates /\ Step(t) /\ UNCHANGED <<allVars, macroVars>>

ClientInit ==
    /\ BlockInit /\ SystemInit /\ MacroInit
    /\ text # <<>> \/ collect => OnlyTemplates
    /\ text # <<>> \/ collect \/ ~OnlyTemplates => sql = [m \in Nodes |-> "x"]

ClientNext == BlockStep \/ MacroStep \/ \E t \in Workers : ClientStep(t)

clientVars == <<allVars, macroVars, systemVars>>

\* The loop over tags and every thread go on: nothing in a call waits for another
\* thread, the network answers or fails, and a program that is started ends.
ClientSpec ==
    /\ ClientInit /\ [][ClientNext]_clientVars
    /\ WF_clientVars(BlockStep) /\ \A t \in Workers : WF_clientVars(ClientStep(t))
=============================================================================
