----------------------------- MODULE EventManager -----------------------------
(***************************************************************************)
(* dbt_common/events/event_manager.py: threads fire events, defer them to   *)
(* groups and flush the groups through one EventManager.  An event is       *)
(* raised as an error, silenced, or given to each receiver (the loggers,    *)
(* then the callbacks) in turn.  A receiver is foreign code: it may raise,  *)
(* and a callback may fire, defer or flush events while it runs, so a       *)
(* thread has a stack of calls.                                             *)
(*                                                                         *)
(* Lists are objects (numbers into lists): a thread that holds a list keeps *)
(* it when the group is popped.                                             *)
(***************************************************************************)
EXTENDS Integers, Sequences, SequencesExt, FiniteSets, FiniteSetsExt

CONSTANTS
    Threads,
    Groups,      \* EventGroupType
    Setups,      \* the applications: records of SetupFields
    MaxEvents,   \* bound: events
    MaxFlushes,  \* bound: calls of fire_deferred_events
    MaxDepth     \* bound: nested calls

\* threads:   the threads that use the manager
\* kinds, groups: what events they fire, see AllKinds, and in which groups
\* receivers: the loggers, then the callbacks: a sequence
\* broken:    the receivers that may raise
\* calling:   the receivers that may call the manager
\* require:   require_warn_or_error_handling
SetupFields == {"threads", "kinds", "groups", "receivers", "broken", "calling", "require"}

\* info:     below warn level, not forced: never handled as a warning
\* warn:     warn level, named neither in error nor in silence
\* forced:   force_warn_or_error_handling, named in neither
\* error:    forced, and warn_error_options.errors(e)
\* silence:  forced, and warn_error_options.silenced(e)
AllKinds == {"info", "warn", "forced", "error", "silence"}

ASSUME SetupsAssumption ==
    \A s \in Setups :
        /\ DOMAIN s = SetupFields
        /\ s.threads \subseteq Threads /\ s.kinds \subseteq AllKinds
        /\ s.groups \subseteq Groups /\ s.require \in BOOLEAN
        /\ s.receivers \in Seq(ToSet(s.receivers)) /\ s.receivers # <<>>
        /\ s.broken \cup s.calling \subseteq ToSet(s.receivers)
ASSUME BoundsAssumption ==
    MaxEvents \in Nat /\ MaxFlushes \in Nat /\ MaxDepth \in Nat

VARIABLES
    setup,     \* the application that runs
    groups,    \* _deferred_event_groups: the list of each group, 0 if none
    lists,     \* the list objects
    deferring, \* allow_deferral
    warnError, \* warn_error
    stack,     \* the calls each thread is in
    events,    \* number of events so far; an event is known by its number
    flushes,   \* number of flushes so far
    fired,     \* the events given to fire_event, in order
    seen,      \* the events each receiver was given, in order
    ended      \* the events that are over, and how

config == <<setup, deferring, warnError>>

Receivers == setup.receivers
queues == <<groups, lists>>
counts == <<events, flushes>>
history == <<fired, seen, ended>>
vars == <<config, queues, stack, counts, history>>

Event == [id : Nat, kind : AllKinds, group : Groups, deferred : BOOLEAN]
NoEvent == [id |-> 0, kind |-> "info", group |-> CHOOSE g \in Groups : TRUE,
            deferred |-> FALSE]

\* A call in progress.
\*   fire:   ev is the event, at the receiver that runs (0: none yet)
\*   defer:  ev is the event, list the list it goes to (0: not looked up)
\*   create: ev is the event; its group had no list
\*   flush:  list is what was popped, at the event being fired, raised the
\*           events whose EventCompilationError was caught
Frame == [op : {"fire", "defer", "create", "flush"}, ev : Event, list : Nat,
          at : Nat, raised : SUBSET (Nat \ {0}), from : Nat]

FireFrame(e) ==
    [op |-> "fire", ev |-> e, list |-> 0, at |-> 0, raised |-> {}, from |-> 0]
DeferFrame(e) ==
    [op |-> "defer", ev |-> e, list |-> 0, at |-> 0, raised |-> {}, from |-> 0]
\* from is only there for the property FlushIsBounded.
FlushFrame(l) ==
    [op |-> "flush", ev |-> NoEvent, list |-> l, at |-> 0, raised |-> {}, from |-> events]

Init ==
    /\ setup \in Setups
    /\ groups = [g \in Groups |-> 0] /\ lists = <<>>
    /\ deferring \in BOOLEAN /\ warnError \in BOOLEAN
    /\ stack = [t \in Threads |-> <<>>]
    /\ events = 0 /\ flushes = 0
    /\ fired = <<>> /\ ended = {}
    /\ seen = [r \in ToSet(Receivers) |-> <<>>]

-----------------------------------------------------------------------------
Top(t) == Last(stack[t])
SetTop(t, frame) == stack' = [stack EXCEPT ![t] = Front(@) \o <<frame>>]
Pop(t) == stack' = [stack EXCEPT ![t] = Front(@)]
Push(t, frame) == stack' = [stack EXCEPT ![t] = Append(@, frame)]
In(t, op) == stack[t] # <<>> /\ Top(t).op = op

\* A call comes from a thread's own code, or from a receiver that is running.
MayCall(t) ==
    /\ t \in setup.threads /\ Len(stack[t]) < MaxDepth
    /\ \/ stack[t] = <<>>
       \/ In(t, "fire") /\ Top(t).at > 0 /\ Receivers[Top(t).at] \in setup.calling

NewEvent(kind, group, deferred) ==
    [id |-> events + 1, kind |-> kind, group |-> group, deferred |-> deferred]

\* fire_or_defer_event with allow_deferral false, or fire_event itself
Fire(t) ==
    /\ MayCall(t) /\ events < MaxEvents
    /\ \E k \in setup.kinds, g \in setup.groups : Push(t, FireFrame(NewEvent(k, g, FALSE)))
    /\ events' = events + 1
    /\ UNCHANGED <<config, queues, flushes, history>>

\* fire_or_defer_event with allow_deferral true
Defer(t) ==
    /\ MayCall(t) /\ events < MaxEvents /\ deferring
    /\ \E k \in setup.kinds, g \in setup.groups : Push(t, DeferFrame(NewEvent(k, g, TRUE)))
    /\ events' = events + 1
    /\ UNCHANGED <<config, queues, flushes, history>>

\* self._deferred_event_groups[event_group_type] is looked up
FindList(t) ==
    /\ In(t, "defer") /\ Top(t).list = 0
    /\ LET l == groups[Top(t).ev.group]
       IN  SetTop(t, IF l = 0 THEN [Top(t) EXCEPT !.op = "create"]
                     ELSE [Top(t) EXCEPT !.list = l])
    /\ UNCHANGED <<config, queues, counts, history>>

\* defaultdict(list): a missing group gets a new list
CreateList(t) ==
    /\ In(t, "create")
    /\ lists' = Append(lists, <<>>)
    /\ groups' = [groups EXCEPT ![Top(t).ev.group] = Len(lists')]
    /\ SetTop(t, [Top(t) EXCEPT !.op = "defer", !.list = Len(lists')])
    /\ UNCHANGED <<config, counts, history>>

\* Mutant: a new event goes in front of the others.
PrependArgs(t) ==
    /\ In(t, "defer") /\ Top(t).list # 0
    /\ lists' = [lists EXCEPT ![Top(t).list] = <<Top(t).ev>> \o @]
    /\ Pop(t)
    /\ UNCHANGED <<config, groups, counts, history>>

\* .append(args)
AppendArgs(t) ==
    /\ In(t, "defer") /\ Top(t).list # 0
    /\ lists' = [lists EXCEPT ![Top(t).list] = Append(@, Top(t).ev)]
    /\ Pop(t)
    /\ UNCHANGED <<config, groups, counts, history>>

\* Mutant: the group keeps its list while it is flushed.
FlushInPlace(t) ==
    /\ MayCall(t) /\ flushes < MaxFlushes
    /\ \E g \in setup.groups : Push(t, FlushFrame(groups[g]))
    /\ flushes' = flushes + 1
    /\ UNCHANGED <<config, queues, events, history>>

\* fire_deferred_events: self._deferred_event_groups.pop(event_group_type, [])
Flush(t) ==
    /\ MayCall(t) /\ flushes < MaxFlushes
    /\ \E g \in setup.groups :
          /\ Push(t, FlushFrame(groups[g]))
          /\ groups' = [groups EXCEPT ![g] = 0]
    /\ flushes' = flushes + 1
    /\ UNCHANGED <<config, lists, events, history>>

Remaining(frame) ==
    IF frame.list = 0 THEN <<>>
    ELSE SubSeq(lists[frame.list], frame.at + 1, Len(lists[frame.list]))

\* for e in event_args: the list is read at each turn of the loop
FlushNext(t) ==
    /\ In(t, "flush") /\ Remaining(Top(t)) # <<>>
    /\ stack' = [stack EXCEPT ![t] =
           Front(@) \o <<[Top(t) EXCEPT !.at = @ + 1],
                         FireFrame(Remaining(Top(t))[1])>>]
    /\ UNCHANGED <<config, queues, counts, history>>

EndAll(ids, how) == ended' = ended \cup {[id |-> i, how |-> how] : i \in ids}

\* The group is done and nothing was raised.
FlushEnd(t) ==
    /\ In(t, "flush") /\ Remaining(Top(t)) = <<>> /\ Top(t).raised = {}
    /\ Pop(t)
    /\ UNCHANGED <<config, queues, counts, history>>

-----------------------------------------------------------------------------
(* Exceptions.  What a call leaves unfinished when it is unwound: the event *)
(* it fires, the events that were left of a popped list, and those whose    *)
(* error it had collected.                                                  *)

Unfinished(frame) ==
    (IF frame.op = "flush"
     THEN frame.raised \cup {e.id : e \in ToSet(Remaining(frame))}
     ELSE {frame.ev.id})

UnfinishedIn(frames) == UNION {Unfinished(f) : f \in ToSet(frames)}

Flushing(frames) == {i \in DOMAIN frames : frames[i].op = "flush"}

\* Mutant: the event whose error is caught is not remembered.
RaiseForgotten(t, frames, named) ==
    IF Flushing(frames) = {}
    THEN /\ stack' = [stack EXCEPT ![t] = <<>>]
         /\ EndAll(named, "errored")
    ELSE LET k == Max(Flushing(frames))
         IN  /\ stack' = [stack EXCEPT ![t] = SubSeq(frames, 1, k)]
             /\ UNCHANGED ended

\* An EventCompilationError raised in the frame above frames names the events
\* in named.  It goes through the frames up to a flush, which catches it and
\* keeps the event it was firing; what the exception says is not kept.
RaiseCompilation(t, frames, named) ==
    IF Flushing(frames) = {}
    THEN /\ stack' = [stack EXCEPT ![t] = <<>>]
         /\ ended' = ended \cup {[id |-> i, how |-> "errored"] : i \in named}
                           \cup {[id |-> i, how |-> "dropped"] : i \in UnfinishedIn(frames)}
    ELSE LET k == Max(Flushing(frames))
             above == SubSeq(frames, k + 1, Len(frames))
             cur == lists[frames[k].list][frames[k].at].id
         IN  /\ stack' = [stack EXCEPT ![t] =
                    SubSeq(frames, 1, k - 1)
                        \o <<[frames[k] EXCEPT !.raised = @ \cup {cur}]>>]
             /\ EndAll((named \cup UnfinishedIn(above)) \ {cur}, "dropped")

\* if raised_events: the summary of their messages is raised
FlushRaises(t) ==
    /\ In(t, "flush") /\ Remaining(Top(t)) = <<>> /\ Top(t).raised # {}
    /\ RaiseCompilation(t, Front(stack[t]), Top(t).raised)
    /\ UNCHANGED <<config, queues, counts, fired, seen>>

-----------------------------------------------------------------------------
(* fire_event                                                              *)

Handled(e) ==
    e.kind \in {"forced", "error", "silence"} \/ (setup.require /\ e.kind = "warn")
Raises(e) == Handled(e) /\ (warnError \/ e.kind = "error")

Silenced(e) == Handled(e) /\ ~Raises(e) /\ e.kind = "silence"

Deciding(t) == In(t, "fire") /\ Top(t).at = 0
LogFired(t) == fired' = Append(fired, Top(t).ev)

\* Mutant: the check is made again between receivers.
FireRaisesInLoop(t) ==
    /\ In(t, "fire") /\ Raises(Top(t).ev)
    /\ LogFired(t)
    /\ RaiseCompilation(t, Front(stack[t]), {Top(t).ev.id})
    /\ UNCHANGED <<config, queues, counts, seen>>

\* raise EventCompilationError(e.message(), node)
FireRaises(t) ==
    /\ Deciding(t) /\ Raises(Top(t).ev)
    /\ LogFired(t)
    /\ RaiseCompilation(t, Front(stack[t]), {Top(t).ev.id})
    /\ UNCHANGED <<config, queues, counts, seen>>

\* the early return for a silenced event
FireSilenced(t) ==
    /\ Deciding(t) /\ Silenced(Top(t).ev)
    /\ LogFired(t)
    /\ EndAll({Top(t).ev.id}, "silenced")
    /\ Pop(t)
    /\ UNCHANGED <<config, queues, counts, seen>>

Give(t, r) ==
    /\ seen' = [seen EXCEPT ![Receivers[r]] = Append(@, Top(t).ev)]
    /\ SetTop(t, [Top(t) EXCEPT !.at = r])

\* the first receiver is called
FireFirst(t) ==
    /\ Deciding(t) /\ ~Raises(Top(t).ev) /\ ~Silenced(Top(t).ev)
    /\ LogFired(t)
    /\ Give(t, 1)
    /\ UNCHANGED <<config, queues, counts, ended>>

\* a receiver returns and the next one is called
FireNext(t) ==
    /\ In(t, "fire") /\ Top(t).at \in 1 .. Len(Receivers) - 1
    /\ Give(t, Top(t).at + 1)
    /\ UNCHANGED <<config, queues, counts, fired, ended>>

\* the last receiver returns
FireEnd(t) ==
    /\ In(t, "fire") /\ Top(t).at = Len(Receivers)
    /\ EndAll({Top(t).ev.id}, "delivered")
    /\ Pop(t)
    /\ UNCHANGED <<config, queues, counts, fired, seen>>

\* a receiver raises an exception of its own: nothing in the manager catches it
ReceiverRaises(t) ==
    /\ In(t, "fire") /\ Top(t).at > 0 /\ Receivers[Top(t).at] \in setup.broken
    /\ stack' = [stack EXCEPT ![t] = <<>>]
    /\ EndAll(UnfinishedIn(stack[t]), "dropped")
    /\ UNCHANGED <<config, queues, counts, fired, seen>>

\* the caller sets allow_deferral or warn_error
Configure ==
    /\ \/ deferring' = ~deferring /\ UNCHANGED warnError
       \/ warnError' = ~warnError /\ UNCHANGED deferring
    /\ UNCHANGED <<setup, queues, stack, counts, history>>

Next ==
    \/ Configure
    \/ \E t \in Threads :
          \/ Fire(t) \/ Defer(t) \/ FindList(t) \/ CreateList(t) \/ AppendArgs(t)
          \/ Flush(t) \/ FlushNext(t) \/ FlushEnd(t) \/ FlushRaises(t)
          \/ FireRaises(t) \/ FireSilenced(t) \/ FireFirst(t) \/ FireNext(t)
          \/ FireEnd(t) \/ ReceiverRaises(t)

Spec == Init /\ [][Next]_vars

-----------------------------------------------------------------------------
(* Properties                                                              *)

Reentrant == setup.calling # {}
Concurrent == \E t, u \in setup.threads : t # u

\* Events that wait in one group are fired in the order in which they were
\* deferred, across flushes and changes of the configuration, by one thread and
\* receivers that do not call back.
DeferredInOrder ==
    ~(Reentrant \/ Concurrent) =>
        \A i, j \in DOMAIN fired :
            (i < j /\ fired[i].deferred /\ fired[j].deferred
                   /\ fired[i].group = fired[j].group) => fired[i].id < fired[j].id

\* No receiver sees an event that was silenced or raised.  (If receivers call
\* back, an error of a callback's own event counts for the event it was given.)
UnseenIfStopped ==
    ~Reentrant =>
        \A x \in ended : x.how \in {"silenced", "errored"} =>
            \A r \in ToSet(Receivers) : \A i \in DOMAIN seen[r] : seen[r][i].id # x.id

\* A flush fires what had been deferred when it began: events that receivers
\* defer meanwhile wait for the next one, so a flush always comes to an end.
FlushIsBounded ==
    \A t \in Threads : \A i \in 1 .. Len(stack[t]) - 1 :
        stack[t][i].op = "flush" => stack[t][i + 1].ev.id <= stack[t][i].from

\* What the manager does with events is what EventDelivery promises.  An event
\* is accepted once it is in a call or in a list that somebody will look at;
\* one that was appended to a list whose flush is over is dropped.
Waiting ==
    (UNION {{e.id : e \in ToSet(lists[groups[g]])} : g \in {h \in Groups : groups[h] # 0}})
      \cup (UNION {UnfinishedIn(stack[t]) : t \in Threads})

EndsOf(e) == {x.how : x \in {y \in ended : y.id = e}}

\* An event with two ends, or one that has ended and still waits, has a status
\* that EventDelivery does not know.
StatusOf(e) ==
    CASE e > events -> "new"
      [] e <= events /\ EndsOf(e) = {} ->
            IF e \in Waiting THEN "accepted" ELSE "dropped"
      [] e <= events /\ EndsOf(e) # {} ->
            IF Cardinality(EndsOf(e)) = 1 /\ e \notin Waiting
            THEN CHOOSE how \in EndsOf(e) : TRUE
            ELSE "twice"

StatusMap == [e \in 1 .. MaxEvents |-> StatusOf(e)]

MayDrop == Reentrant \/ Concurrent \/ setup.broken # {}

Delivery == INSTANCE EventDelivery
                WITH Ids <- 1 .. MaxEvents, mayDrop <- MayDrop, status <- StatusMap

\* An event never ends twice and never comes back, whatever receivers and
\* threads do; and nothing is lost if one thread uses the manager and receivers
\* neither raise nor call back: every event is delivered, silenced or reported.
Delivers == Delivery!Spec
=============================================================================
