----------------------------- MODULE MacroCalls -----------------------------
(***************************************************************************)
(* dbt_common/clients/jinja.py: templates are rendered for a node and call *)
(* macros, each compiled once by its text (TemplateCache), and errors go   *)
(* up through the handlers of the macros (exception_handler) to the        *)
(* handler of the rendering (catch_jinja), which say where they happened.  *)
(* jinja2 itself is external: a template is the text it was made from, and *)
(* its code may render, call and raise anything.                           *)
(***************************************************************************)
EXTENDS Integers, Sequences, SequencesExt

CONSTANTS
    Nodes,      \* macros and the nodes templates are rendered for
    NoNode,     \* None
    MacroTexts, \* what a macro_sql may be
    BadTexts,   \* those that do not compile
    MaxDepth    \* bound: nested calls

ASSUME MacroTextsAssumption == BadTexts \subseteq MacroTexts /\ NoNode \notin Nodes
ASSUME DepthAssumption == MaxDepth \in Nat

VARIABLES
    sql,        \* macro.macro_sql, of each node
    fileCache,  \* TemplateCache.file_cache: from a text to the template made of it
    calls,      \* the calls in progress, outermost first
    exc,        \* the exception that goes up, if any
    raisedIn,   \* history: the calls in progress when exc, or escaped, was raised
    escaped     \* history: what the application got of the last rendering

macroVars == <<sql, fileCache, calls, exc, raisedIn, escaped>>

\* An exception: its class; of dbt's, the node and the stack; what was raised
\* first, for the properties.
Exception(kind, node, stack) ==
    [kind |-> kind, node |-> node, stack |-> stack, first |-> kind]
NoError == Exception("none", NoNode, <<>>)

\* TypeError or TemplateRuntimeError; UndefinedError, which is one; a
\* CompilationError; another DbtRuntimeError; a MacroReturn outside of a macro
\* or any other exception.
Kinds == {"type", "undefined", "compilation", "runtime", "return", "other"}

\* A call: "render" has catch_jinja around it, "module" is get_macro running
\* the template's top level, without a handler, "macro" is the macro's body.
Frame(kind, node, text) == [kind |-> kind, node |-> node, text |-> text]

MacroInit ==
    /\ sql \in [Nodes -> MacroTexts]
    /\ fileCache = <<>> /\ calls = <<>>
    /\ exc = NoError /\ escaped = NoError /\ raisedIn = <<>>

\* An exception e is raised in the calls cs, of which none may be left.
RaiseIn(cs, e) ==
    /\ calls' = cs /\ raisedIn' = calls
    /\ IF cs = <<>> THEN escaped' = e /\ exc' = NoError
       ELSE exc' = e /\ UNCHANGED escaped

\* get_template: catch_jinja makes a CompilationError with the node of a
\* TemplateSyntaxError.
SyntaxErrorAt(n) == [Exception("compilation", n, <<>>) EXCEPT !.first = "syntax"]

Running == exc = NoError /\ Len(calls) < MaxDepth

-----------------------------------------------------------------------------
(* Rendering and calling                                                   *)

\* get_template and render_template for node n, by the application or by a
\* function of the context.
Render(n, text) ==
    /\ Running
    /\ IF text \in BadTexts
       THEN RaiseIn(calls, SyntaxErrorAt(n))
       ELSE /\ calls' = Append(calls, Frame("render", n, NoNode))
            /\ escaped' = NoError /\ raisedIn' = <<>> /\ UNCHANGED exc
    /\ UNCHANGED <<sql, fileCache>>

\* get_node_template with a given key
TemplateFor(key, m) ==
    IF key \in DOMAIN fileCache
    THEN /\ calls' = Append(calls, Frame("module", m, fileCache[key]))
         /\ UNCHANGED <<fileCache, exc, raisedIn, escaped>>
    ELSE IF sql[m] \in BadTexts
    THEN RaiseIn(calls, SyntaxErrorAt(m)) /\ UNCHANGED fileCache
    ELSE /\ fileCache' = [k \in DOMAIN fileCache \cup {key} |->
                            IF k = key THEN sql[m] ELSE fileCache[k]]
         /\ calls' = Append(calls, Frame("module", m, sql[m]))
         /\ UNCHANGED <<exc, raisedIn, escaped>>

\* Mutant: templates are cached by the macro.
GetNodeTemplateByMacro(m) == TemplateFor(m, m)

GetNodeTemplate(m) == TemplateFor(sql[m], m)

\* call_macro: get_macro runs before the handler is set up.
CallMacro(m) ==
    /\ calls # <<>> /\ Running
    /\ GetNodeTemplate(m)
    /\ UNCHANGED sql

EnterMacro ==
    /\ exc = NoError /\ calls # <<>> /\ Last(calls).kind = "module"
    /\ calls' = [calls EXCEPT ![Len(calls)].kind = "macro"]
    /\ UNCHANGED <<sql, fileCache, exc, raisedIn, escaped>>

\* A macro returns, by its end or by MacroReturn, or a rendering ends.
Return ==
    /\ exc = NoError /\ calls # <<>> /\ Last(calls).kind # "module"
    /\ calls' = Front(calls)
    /\ UNCHANGED <<sql, fileCache, exc, raisedIn, escaped>>

\* The code of the innermost call raises; a CompilationError may name the node
\* that the innermost rendering is for.
Raise(kind) ==
    /\ exc = NoError /\ calls # <<>>
    /\ kind = "return" => Last(calls).kind # "macro"
    /\ \E n \in {NoNode, calls[SelectLastInSeq(calls, LAMBDA f : f.kind = "render")].node} :
          /\ n # NoNode => kind = "compilation"
          /\ RaiseIn(calls, Exception(kind, n, <<>>))
    /\ UNCHANGED <<sql, fileCache>>

-----------------------------------------------------------------------------
(* Handlers                                                                *)

\* CompilationError(str(e), node)
Recompiled(e, n) == [e EXCEPT !.kind = "compilation", !.node = n, !.stack = <<>>]

\* DbtRuntimeError.add_node
AddNode(e, n) ==
    IF n = e.node THEN e
    ELSE [e EXCEPT !.stack = IF e.node = NoNode THEN @ ELSE Append(@, e.node), !.node = n]

\* catch_jinja
CatchJinja(e, n) ==
    CASE e.kind = "compilation" -> AddNode(e, n)
      [] e.kind = "runtime" -> e
      [] OTHER -> Recompiled(e, n)

\* Mutant: the macro is put before those that were there.
MacroHandlerInFront(e, m) ==
    CASE e.kind \in {"type", "undefined"} -> Recompiled(e, NoNode)
      [] e.kind = "compilation" -> [e EXCEPT !.stack = <<m>> \o @]
      [] e.kind = "return" -> NoError
      [] OTHER -> e

\* CallableMacroGenerator.exception_handler.  The node that
\* CaughtMacroErrorWithNodeError is given is reset by the base class.  A
\* MacroReturn from the top level of a called template is call_macro's too.
MacroHandler(e, m) ==
    CASE e.kind \in {"type", "undefined"} -> Recompiled(e, NoNode)
      [] e.kind = "compilation" -> [e EXCEPT !.stack = Append(@, m)]
      [] e.kind = "return" -> NoError
      [] OTHER -> e

Unwind ==
    /\ exc # NoError
    /\ LET f == Last(calls)
           e == CASE f.kind = "render" -> CatchJinja(exc, f.node)
                  [] f.kind = "macro" -> MacroHandler(exc, f.node)
                  [] f.kind = "module" -> exc
       IN  IF Len(calls) = 1 THEN escaped' = e /\ exc' = NoError
           ELSE exc' = e /\ UNCHANGED escaped
    /\ calls' = Front(calls)
    /\ UNCHANGED <<sql, fileCache, raisedIn>>

\* A macro is parsed again from a file that changed.
Edit(m, text) ==
    /\ calls = <<>> /\ sql[m] # text
    /\ sql' = [sql EXCEPT ![m] = text]
    /\ UNCHANGED <<fileCache, calls, exc, raisedIn, escaped>>

MacroNext ==
    \/ \E n \in Nodes, text \in MacroTexts : Render(n, text) \/ Edit(n, text)
    \/ \E m \in Nodes : CallMacro(m)
    \/ EnterMacro \/ Return \/ Unwind
    \/ \E kind \in Kinds : Raise(kind)

MacroSpec == MacroInit /\ [][MacroNext]_macroVars

-----------------------------------------------------------------------------
(* Properties                                                              *)

\* process_stack: "in" the first, "called by" the others
Trace(e) == e.stack \o <<e.node>>

\* The list s names the macros whose bodies are being executed in the calls cs from
\* place n on: the innermost first, each of them once per call.
NamesMacros(s, cs, n) ==
    LET bodies == {i \in n .. Len(cs) : cs[i].kind = "macro"}
    IN  \E at \in [DOMAIN s -> bodies] :
            /\ \A k \in DOMAIN s : s[k] = cs[at[k]].node
            /\ \A j, k \in DOMAIN s : j < k => at[j] > at[k]
            /\ \A i \in bodies : \E k \in DOMAIN s : at[k] = i

RenderedForOne(cs) ==
    \A i \in DOMAIN cs : cs[i].kind = "render" => cs[i].node = cs[1].node

\* What gets out of a rendering is an error of dbt's.  Of a CompilationError that
\* a template or macro raised, it lists the macros that were being executed,
\* innermost first, and then the node that was rendered (where renderings within
\* a rendering are for the same node, as in dbt): a handler between them neither
\* drops, repeats nor reorders one.
TraceNamesMacros ==
    /\ escaped.kind \in {"none", "compilation", "runtime"}
    /\ (escaped.first = "compilation" /\ RenderedForOne(raisedIn)) =>
           /\ NamesMacros(escaped.stack, raisedIn, 1)
           /\ escaped.node = raisedIn[1].node

\* The template of a call was made from the text the macro has at the time of the
\* call, however often the macro was edited and its text cached, and a text that
\* does not compile is refused at each call.
TemplatesAreCurrent ==
    \A i \in DOMAIN calls : calls[i].kind # "render" =>
        calls[i].text = sql[calls[i].node] /\ calls[i].text \notin BadTexts

\* Every error that a macro's body raises and its handler takes names this macro
\* first, whatever the class of the error.
InnermostIsNamed ==
    (/\ escaped.first \in {"type", "undefined", "compilation"}
     /\ RenderedForOne(raisedIn) /\ Last(raisedIn).kind = "macro")
        => Trace(escaped)[1] = Last(raisedIn).node
=============================================================================
