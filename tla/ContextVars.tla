----------------------------- MODULE ContextVars -----------------------------
(***************************************************************************)
(* dbt_common/events/contextvars.py: named variables that each thread sets  *)
(* in its own context, usually for the length of a with-block.  A thread    *)
(* that runs tasks keeps its context from one task to the next.             *)
(*                                                                         *)
(* Contexts belong to threads, but the dictionary _context_vars, from the   *)
(* name to the ContextVar that holds it, is shared.  Two threads that use a *)
(* new name at once may both make a variable for it: a variable is known by *)
(* its name and the thread that made it.                                    *)
(*                                                                         *)
(* set_contextvars goes through its arguments one at a time; todo is what   *)
(* is left of the calls a thread is in.  scope is not in the code: it is    *)
(* what the thread should see, by the nesting of its blocks.                *)
(***************************************************************************)
EXTENDS Integers, Sequences, SequencesExt, FiniteSets

CONSTANTS
    Threads,
    Names,     \* prefixed names
    Prefix,    \* the prefix of each name
    Values,    \* the values applications give
    MaxBlocks  \* bound: nested blocks of a thread

CONSTANTS Ellipsis, NoOne

ASSUME PrefixAssumption == IsFiniteSet(Names) /\ DOMAIN Prefix = Names
ASSUME ReservedAssumption == Ellipsis \notin Values /\ NoOne \notin Threads
ASSUME BlocksAssumption == MaxBlocks \in Nat

VARIABLES
    registry, \* _context_vars: who made the variable of a name, NoOne if none
    made,     \* the variables that exist
    context,  \* context[t][n][c]: t's value of the variable n that c made
    todo,     \* the assignments a thread has yet to do
    blocks,   \* the with-blocks a thread is in
    token,    \* the token a thread keeps of set_contextvars: one or none
    scope,
    direct    \* not in the code: which thread has set which name outside a block

contextVars == <<registry, made, context, todo, blocks, token, scope, direct>>

Views == [Names -> Values \cup {Ellipsis}]

\* The arguments of a call: names of one prefix, with values.
Kwargs ==
    UNION {[ns -> Values] : ns \in
        {ns \in SUBSET Names : ns # {} /\ Cardinality({Prefix[n] : n \in ns}) = 1}}

InitContextVars ==
    /\ registry = [n \in Names |-> NoOne]
    /\ made = {}
    /\ context = [t \in Threads |-> [n \in Names |-> [c \in Threads |-> Ellipsis]]]
    /\ todo = [t \in Threads |-> <<>>]
    /\ blocks = [t \in Threads |-> <<>>]
    /\ token = [t \in Threads |-> {}]
    /\ scope = [t \in Threads |-> [n \in Names |-> Ellipsis]]
    /\ direct = {}

-----------------------------------------------------------------------------
\* The values of a name in a thread's context, without those that are Ellipsis.
Held(t, n) == {context[t][n][c] : c \in Threads} \ {Ellipsis}

\* What get_contextvars may answer about names: the last variable it comes to
\* counts when a context has several of one name.
Gets(t, names) ==
    {g \in [names -> Values \cup {Ellipsis}] :
        \A n \in names :
            IF Held(t, n) = {} THEN g[n] = Ellipsis ELSE g[n] \in Held(t, n)}

Assign(n, v) == [name |-> n, value |-> v, var |-> NoOne]
Sets(kwargs) ==
    LET ns == SetToSeq(DOMAIN kwargs) IN [i \in DOMAIN ns |-> Assign(ns[i], kwargs[ns[i]])]
Unsets(names) == Sets([n \in names |-> Ellipsis])

Saved(got) == [n \in {m \in DOMAIN got : got[m] # Ellipsis} |-> got[n]]

\* The view of a thread when some names get new values.
Update(view, f) == [n \in Names |-> IF n \in DOMAIN f THEN f[n] ELSE view[n]]
Restriction(view, names) == [n \in names |-> view[n]]

-----------------------------------------------------------------------------
Free(t) == todo[t] = <<>>

\* log_contextvars, task_contextvars: entering the block.
Enter(t, kwargs) ==
    /\ Free(t) /\ Len(blocks[t]) < MaxBlocks
    /\ \E got \in Gets(t, DOMAIN kwargs) :
          blocks' = [blocks EXCEPT ![t] = Append(@,
              [names |-> DOMAIN kwargs, saved |-> Saved(got),
               outer |-> Restriction(scope[t], DOMAIN kwargs)])]
    /\ todo' = [todo EXCEPT ![t] = Sets(kwargs)]
    /\ scope' = [scope EXCEPT ![t] = Update(@, kwargs)]
    /\ UNCHANGED <<registry, made, context, token, direct>>

\* A plausible bug, for the checks.
LeaveWithoutRestoring(t) ==
    /\ Free(t) /\ blocks[t] # <<>>
    /\ todo' = [todo EXCEPT ![t] = Unsets(Last(blocks[t]).names)]
    /\ scope' = [scope EXCEPT ![t] = Update(@, Last(blocks[t]).outer)]
    /\ blocks' = [blocks EXCEPT ![t] = Front(@)]
    /\ UNCHANGED <<registry, made, context, token, direct>>

\* Leaving it, at its end or with an exception.
Leave(t) ==
    /\ Free(t) /\ blocks[t] # <<>>
    /\ LET block == Last(blocks[t])
       IN  /\ todo' = [todo EXCEPT ![t] = Unsets(block.names) \o Sets(block.saved)]
           /\ scope' = [scope EXCEPT ![t] = Update(@, block.outer)]
    /\ blocks' = [blocks EXCEPT ![t] = Front(@)]
    /\ UNCHANGED <<registry, made, context, token, direct>>

\* set_contextvars outside a with statement; the caller keeps the token.
SetOne(t, n, v) ==
    /\ Free(t) /\ token[t] = {}
    /\ todo' = [todo EXCEPT ![t] = Sets([m \in {n} |-> v])]
    /\ token' = [token EXCEPT ![t] = {[name |-> n, var |-> NoOne, old |-> Ellipsis,
                                       outer |-> scope[t][n]]}]
    /\ scope' = [scope EXCEPT ![t][n] = v]
    /\ direct' = direct \cup {<<t, n>>}
    /\ UNCHANGED <<registry, made, context, blocks>>

\* reset_contextvars, which refuses the token of another variable.
Reset(t) ==
    /\ Free(t)
    /\ \E k \in token[t] :
          IF registry[k.name] = k.var
          THEN /\ context' = [context EXCEPT ![t][k.name][k.var] = k.old]
               /\ scope' = [scope EXCEPT ![t][k.name] = k.outer]
          ELSE UNCHANGED <<context, scope>>
    /\ token' = [token EXCEPT ![t] = {}]
    /\ UNCHANGED <<registry, made, todo, blocks, direct>>

\* unset_contextvars.
Unset(t, names) ==
    /\ Free(t)
    /\ todo' = [todo EXCEPT ![t] = Unsets(names)]
    /\ scope' = [scope EXCEPT ![t] = Update(@, [n \in names |-> Ellipsis])]
    /\ UNCHANGED <<registry, made, context, blocks, token, direct>>

\* clear_contextvars: sets every variable of the prefix, in this context only.
Clear(t, p) ==
    LET names == {n \in Names : Prefix[n] = p} IN
    /\ Free(t)
    /\ context' = [context EXCEPT ![t] = [n \in Names |->
                      IF n \in names THEN [c \in Threads |-> Ellipsis] ELSE @[n]]]
    /\ scope' = [scope EXCEPT ![t] = Update(@, [n \in names |-> Ellipsis])]
    /\ UNCHANGED <<registry, made, todo, blocks, token, direct>>

-----------------------------------------------------------------------------
\* var.set(value); the token that set_contextvars returns holds the old value.
Put(t, var) ==
    LET n == Head(todo[t]).name IN
    /\ context' = [context EXCEPT ![t][n][var] = Head(todo[t]).value]
    /\ token' = [token EXCEPT ![t] =
          {IF k.name = n /\ k.var = NoOne
           THEN [k EXCEPT !.var = var, !.old = context[t][n][var]] ELSE k : k \in @}]
    /\ todo' = [todo EXCEPT ![t] = Tail(@)]

\* The name has a variable.
Found(t) ==
    /\ todo[t] # <<>> /\ Head(todo[t]).var = NoOne
    /\ registry[Head(todo[t]).name] # NoOne
    /\ Put(t, registry[Head(todo[t]).name])
    /\ UNCHANGED <<registry, made, blocks, scope, direct>>

\* It has none: the thread makes one, unless it is unsetting the name.
NotFound(t) ==
    /\ todo[t] # <<>> /\ Head(todo[t]).var = NoOne
    /\ registry[Head(todo[t]).name] = NoOne
    /\ IF Head(todo[t]).value = Ellipsis
       THEN todo' = [todo EXCEPT ![t] = Tail(@)] /\ UNCHANGED made
       ELSE /\ made' = made \cup {<<Head(todo[t]).name, t>>}
            /\ todo' = [todo EXCEPT ![t] = <<[Head(@) EXCEPT !.var = t]>> \o Tail(@)]
    /\ UNCHANGED <<registry, context, blocks, token, scope, direct>>

\* And registers it, whatever others have registered meanwhile.
Register(t) ==
    /\ todo[t] # <<>> /\ Head(todo[t]).var # NoOne
    /\ registry' = [registry EXCEPT ![Head(todo[t]).name] = t]
    /\ Put(t, t)
    /\ UNCHANGED <<made, blocks, scope, direct>>

Continue(t) == Found(t) \/ NotFound(t) \/ Register(t)

Operate(t, names) ==
    \/ \E kwargs \in Kwargs : DOMAIN kwargs \subseteq names /\ Enter(t, kwargs)
    \/ \E n \in names : Unset(t, {n}) \/ \E v \in Values : SetOne(t, n, v)
    \/ Reset(t)
    \/ \E p \in {Prefix[n] : n \in names} : Clear(t, p)

-----------------------------------------------------------------------------
OneVariable(n) == Cardinality({v \in made : v[1] = n}) <= 1

\* Between calls, what get_contextvars answers a thread is what the nesting of
\* its own blocks says: an inner block hides the values of the outer one and
\* gives them back, also names set directly inside it, and nothing another
\* thread does is seen.  Of names that one thread introduced: when two introduce
\* a name at once, one of them cannot unset what it set first
\* (set_contextvars looks the name up and registers it in two steps).
ViewIsScoped ==
    \A t \in Threads : Free(t) =>
        \A n \in Names : OneVariable(n) => Gets(t, {n}) = {[m \in {n} |-> scope[t][n]]}

=============================================================================
