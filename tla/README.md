# A TLA+ verification project for dbt-common

`dbt-common` is the library that dbt-core and the dbt adapters share. Most of it is
straight-line code; what is hard to get right, and what a unit test hardly reaches, is
concentrated in a few places: the recorder, which several threads write to while the
application closes it; the replay of recordings; the event manager, with its deferred groups
and foreign receivers; context variables and tasks on the threads of a pool; the lexer of
templates with its cache of positions; files that several threads write, rename and search, and
installations over a connection that fails; errors that go up through nested macros; and a few
algorithms with many cases (versions, warn-error options, the merging of configurations, dicts and
tables). This project models those, checks the models with TLC on small instances
and proves the most important results for all instances with TLAPS.

All paths below are relative to `src/dbt_common/` unless they say otherwise.

## 1. Inventory

| Component | State it keeps | Operations | What is hard | What makes it correct |
|---|---|---|---|---|
| Recorder, recording half (`record.py`) | counter, lists by type, open file, two locks | `add_record`, `write`, `clean_up_stream` | threads add while the caller writes; a record may fail to serialize halfway | sequence numbers identify records; a stream is one JSON list; nothing that was added is lost; no lock stays held |
| `record_function` wrapper (`record.py`) | a context variable | record, replay, diff of a call | nested calls, exceptions, filters | the outermost marked calls are recorded, once; a replay from records that are intact answers each call with its own |
| Replay queues (`record.py`) | raw recording, lists by type | `expect_record`, `pop_matching_record` | lists are built and popped by several threads without a lock | a record answers one call, in order, and none is missed |
| Recorder environment and diffs | - | read variables, write a diff | - | documented values are accepted |
| Event manager (`events/event_manager.py`) | receivers, deferred groups, `warn_error`, `allow_deferral` | `fire_event`, `fire_or_defer_event`, `fire_deferred_events` | receivers raise and call back while a group is flushed | each event has one end, groups keep their order, a flush ends |
| Loggers, log lines (`events/logger.py`, `functions.py`, ...) | a Python logger each | `write_line` | shared handlers | wording |
| Context variables (`events/contextvars.py`) | a shared dictionary of variables, a context per thread | set, reset, unset, clear, blocks | pooled threads keep contexts; names are made without a lock | a thread sees what the nesting of its blocks says |
| Executors (`utils/executor.py`), invocation context (`context.py`) | the captured context, futures | `executor`, `submit`, initializer | context read at one time, used at another; failing tasks | tasks run in their invocation and leave nothing behind |
| Behavior flags (`behavior_flags.py`) | `fired` of each flag | evaluate | check, fire and set without a lock; the event may raise, and its callbacks may evaluate the flag | announced before anyone finds it off, not over and over |
| Warn-error options (`helper_types.py`) | three lists, shared with the caller or not | `errors`, `silenced`, appends by the caller | six memberships decide three verdicts; aliasing of lists | the documented hierarchy |
| Template lexer (`clients/_jinja_blocks.py`) | position, cache of searches, stack of tags | `find_tags`, `find_blocks` | stale searches; strings and comments that hide tags; nesting | cached and fresh searches agree; blocks tile the text and pair their tags |
| Semantic versions (`semver.py`) | - | compare, reduce, filter, resolve | prereleases, unbounded and exclusive bounds, order of reduction | the reduced range is the intersection; the greatest version in it is picked |
| Jinja clients (`clients/jinja.py`), errors (`exceptions/base.py`, `macros.py`) | templates by their text, the node and the stack of an error | compile, call, render, handlers of errors | macros are parsed again; errors pass handlers of macros and of renderings in each other | a call runs the macro's present text; the trace names the macros that were running |
| System client (`clients/system.py`) | the file system | write, make, rename, remove, search, download, unpack, run | other threads between any two calls of the operating system; partial failures | writes succeed, a rename loses nothing, a search is not disturbed by temporary files |
| Connection retry (`utils/connection.py`) | the number of the attempt | retry | what failed attempts leave behind; events that raise | bounded attempts; what is installed is whole |
| Config contracts (`contracts/config/`) | fields, `_extra`, the dict of calls | `update_from`, `merge_config_dicts`, set, delete | two copies of one merge, six behaviors | both give the same configuration |
| Dictionaries (`utils/dict.py`) | - | `deep_merge` | kinds of values that meet | merging in groups is merging one by one |
| Agate helper (`clients/agate_helper.py`) | types of columns found so far | tables from rows, `merge_tables` | columns without values, tables with other columns | types do not depend on the order, values stay in their columns |
| Contracts' data classes, stubs | - | validation, wording | - | - |

How they interact. Applications make an `InvocationContext`, which holds the recorder, and an
executor; the executor hands the context to its threads. Marked functions find the recorder
through the context and use the wrapper's context variable to see whether they are nested.
Downloads and unpacking run under the retry. Everything reports through the one event manager:
behavior flags and retries fire events, the
manager asks the warn-error options for a verdict and calls loggers and callbacks, which are
the application's code and may call the manager again. Log lines read the context variables
that the blocks of a task have set.

The hazards of the code, each at its line with the properties aimed at it, are in
`PROJECT.json` under `hazards`, those that no property covers yet with the reason. Smaller ones,
some of which follow from those:

* `events/event_manager.py:140`: A flush iterates over a list that another thread may still append to.
* `events/event_manager.py:79`: warn_error is read when an event is fired, not when it is deferred: events deferred under one setting are judged under another.
* `events/event_manager.py:144`: An EventCompilationError of an event that a callback fires during a flush is counted for the outer event, which the receivers have seen; the inner event is in no summary.
* `events/event_manager.py:80`: A handler of EventCompilationError that fires a warning under warn_error raises again, without end.
* `record.py:254`: After the stream was closed records go to the lists; a second `write` finds no stream and truncates the streamed file.
* `record.py:373`: `DBT_RECORDER_TYPES=all` keeps only records of a type named all: the method `lower` is compared, not called.
* `clients/system.py:606`: `islink` of the target is read before `exists`, and both before the removal: what is removed is whatever is there by then.
* `record.py:578`: The params class cannot be built: the call is not recorded and keeps the calls nested in it from being recorded, for which replay then asks.
* `record.py:242`: Several calls with equal params: replay must answer them in the order in which they were recorded.
* `semver.py:482`: Two spellings of one version share a key of installable_dict: the result has one spelling twice.
* `clients/_jinja_blocks.py:256`: A quote that is never closed makes the search take a later string, beyond the tag's end.
* `clients/_jinja_blocks.py:415`: At the end only the open block is looked at: an if or for that is still open is accepted.
* `helper_types.py:79`: The old WarnErrorOptions replaces an empty exclude or silence by a new list: what the caller appends later is not seen.
* `helper_types.py:237`: An event asked for by its name is not known to be a deprecation, so a name and an event may get different answers.
* `events/logger.py:119`: A logger made with the name of another clears the handlers of the logging.Logger both share: the first goes on, and its lines go to the second's output.
* `events/functions.py:171`: get_metadata_vars keeps the first answer until reset_metadata_vars; environment variables set in between are not seen.
* `events/event_manager_client.py:27`: cleanup_event_logger clears loggers and callbacks but leaves the deferred groups: events deferred before it are never delivered to the loggers they were meant for.
* `events/event_handler.py:32`: A record with a level that is not one of the standard ones has no entry in the map and emit raises KeyError in the code that logged.
* `helper_types.py:310`: Lazy.force takes a memo that is None for one that was never computed: a function that answers None is evaluated again each time, and by each thread that comes before the memo is set.
* `clients/jinja.py:661`: The key of the cache of blocks is a sum of hashes, so different arguments may share it, and a hit gives no warnings.
* `contracts/config/base.py:301`: merge_config_dicts keeps the inner dicts of the caller's dict and updates them at the next call: they change under the caller.
* `contracts/config/base.py:333`: Grants given with "+", plain, and with "+" again: the accumulated dict has both keys and forgets their order, so that a configuration updated once from it differs from one updated from each call. `ConfigsAgree` leaves these out (`InTurns`), and fails without that condition.
* `contracts/config/base.py:46`: A key that is named like a method is set as an attribute, which to_dict does not have: the next update_from forgets it.
* `clients/agate_helper.py:191`: A column of ISODateTime after one of DateTime is merged, the other way round the merge raises.
* `clients/system.py:656`: An archive with no entry for its directory gets a slash at the end of the prefix: `untar_package` with `rename_to` naming that directory then removes what it extracted; with an entry, it extracts over the old version and keeps its stale files.
* `clients/system.py:613`: `rename` with `force` over a plain file fails: only links and directories are removed.
* `utils/connection.py:31`: `max_attempts` counts the retries: the function is called once more.
* `clients/system.py:205`: Two threads that create a directory at once: the loser's EEXIST is taken for success, whatever now exists at the path.

## 2. Modules

| Module | Models | Notes |
|---|---|---|
| `Recorder` | recording half of the recorder | one action per step that other threads can come between: taking each lock, the read and the write of the counter, the separator, the two halves of a serialized record, the check, creation and append of a list; `write` reads the lists one at a time |
| `RecordWrapper` | the wrapper while recording | a call stack per context; the program is arbitrary |
| `RecordReplay` | extends `RecordWrapper`: the same program replayed from what was recorded | composition of the two halves through the recording, which comes from memory, from the list that `write` leaves or from a dict by type |
| `ReplayQueue` | the replaying half under threads | lists and records are objects, so a thread can hold a list that the recorder no longer has |
| `EventManager` | the event manager with receivers that raise and call back | a stack of calls per thread; deferred groups are list objects |
| `EventDelivery` | abstract: what is promised of an event | `EventManager` implements it (`Delivers`) |
| `ContextVars` | context variables, per thread | `set_contextvars` as look up, make, register |
| `BehaviorFlags` | evaluation of flags | check, fire, mark, return; each thread has a stack of evaluations, since a callback of an event may evaluate flags |
| `TaskRun` | executors and the invocation context, composed with `ContextVars` and `BehaviorFlags` | tasks open blocks, evaluate flags and fail |
| `WarnErrorOptions` | both versions of the options and the verdict | lists the caller keeps are shared |
| `TagIterator` | tag search with its cache | positions and searches over texts of tokens |
| `BlockIterator` | extends `TagIterator`: blocks from tags | `find_tags` is a generator: it runs when `find_blocks` asks for a tag |
| `Semver` | order and ranges, as operators | no state |
| `VersionResolution` | reduce, filter, resolve as one pipeline over `Semver` | lists are referred to by their places, and `sorted` is any list of these in order |
| `SystemClient` | the system client on POSIX and the retry | one action per call of the operating system; a file is a number, so that a rename is told from a copy |
| `MacroCalls` | calls of macros and renderings, the template cache, handlers of errors | a stack of calls; the error that goes up is one variable |
| `ConfigMerge` | both merges of configurations, setting and deleting of keys | both are updated by each call, side by side |
| `DictMerge` | `deep_merge` | recursive; one argument per step |
| `ColumnTypes` | types of the columns of tables, `merge_tables` | one column, then one table, per step |
| `MCClients` | `BlockIterator`, `SystemClient` and `MacroCalls` | composition: a state with a text is for its blocks, and of the others `OnlyTemplates` tells which of the two it is for. `MCBlockIterator` has the texts |
| `MCConfiguration` | `WarnErrorOptions`, `VersionResolution`, `ConfigMerge`, `DictMerge`, `ColumnTypes` | composition: `part` is the one at work |
| `MC...` | instances for TLC | constants only |
| `RecorderProofs`, `WrapperProofs`, `QueueProofs`, `ClientProofs`, `ConfigurationProofs`, `TaskProofs` | theorems and their proofs | |
| `EventProofs`, `DeliveryProofs` | theorems about `EventManager`: the inductive invariant, and what follows from it with the refinement of `EventDelivery` | `DeliveryProofs` extends `EventProofs` |

Variables have the names of the attributes they stand for; their comments name the attribute
where it is spelled otherwise. Variables that no attribute corresponds to are histories and
say so: what was returned, seen, announced, answered. The definitions that stand for code are
listed with their lines in `PROJECT.json` under `map`. Some modules hold definitions named as
mutants or as plausible bugs: each is a wrong version of an operation that one of the
properties must refute, and none is part of a specification.

### Abstractions

* `Recorder`: serializing a record puts two tokens into the file. Buffering and crashes of the
  process are not modelled: a recording is read after the program ended. A `write` of lists
  empties the file and reads the lists one by one, each in one step (an append that comes in the
  middle of one list is seen or not, as one that comes before or after it); a type that a
  thread adds meanwhile makes the iteration raise, and the file stays empty. Sorting and dumping
  are one step, since they touch nothing that another thread reads.
* `RecordReplay`: the replayed program takes the steps of the recorded one, in the same
  interleaving of contexts; a mocked call skips what happened in its body. The records come
  from memory (`tests/unit/test_record.py:176` puts them there), from the list that `write` and
  the stream leave, whose look-up raises for every call (`record.py:299`), or from a dict by type,
  which is what `load` says it returns (no code here writes one): there `from_dict` raises for a
  record whose result is null (`record.py:65`), and parameters are what JSON made of them
  (`AsLoaded`, any function). A call that raises ends the replay. An answer is the call whose
  result it is: what `astuple` makes of a result is not modelled.
* `EventManager`: an event is a number; its level, its name and the options are summed up by
  its kind (`AllKinds`). Filters of loggers accept everything.
* `ContextVars`: "no value" and `Ellipsis` are one value, as `get_contextvars` treats them. A
  variable is known by its name and the thread that made it.
* `TaskRun`: the pool is `concurrent.futures` and external: it may start a thread with any
  submission and hands tasks out in order. The connection that `submit_connected` names is
  the adapter's and left out.
* `TagIterator`: a text is a sequence of tokens, one for each thing the regular expressions
  look for; white space, minus signs and escapes are inside the tokens.
* `Semver`: words of prereleases are known by their order; build metadata takes no part in
  comparisons and is left out, parsing too.
* `WarnErrorOptions`: lists are sets, since nothing looks at their order.
* `SystemClient`: a path is the sequence of its names; the file systems that calls start on are
  trees of directories (`JobsAssumption`). A symbolic link leads to a file of its own that is not in
  the tree, by its full path, and that file stays: links to directories, to other files of the tree
  and dangling ones are left out. `open` follows links, `os.unlink`, `os.rename` and copies do not.
  The operating system's calls are atomic; what `os.path.isdir(dst)`, `exists` and `os.rename` see in
  `shutil.move` is one step, and so is what `os.makedirs` does for a copy. Where `os.rename`
  is an error (`across`: source and target are on different file systems; or the target's parent is
  missing, or the source is a directory and the target a file), the source is copied, one entry per
  step in any order, and then removed; `copytree` goes on after an error and raises at its end, and
  of what `copystat` does only its failure is modelled. Removing a
  tree is two steps, what is found below the directory and then the directory, which must be empty
  by then. Tests of `make_file` and `rename` are steps of their own (`islink`, then `exists`, then the
  removal). What is downloaded is whole or short; a short archive fails while it is unpacked, after
  any part of its files.
* `MacroCalls`: a template is the text it was made from; its code may call, render and raise
  anything at any time.
* `ConfigMerge`: values have the types their behavior asks for (the code raises
  `DbtInternalError` elsewhere); the order of insertion of keys of dicts is kept, since the merge
  of grants depends on it; sharing of inner dicts is left out.
* `DictMerge`: strings are left out of the places of lists.
* `ColumnTypes`: which kinds of values a type takes is a constant; a cast changes no value but
  strings for null.

## 3. Checks

| Run | Question | Bounds and why they are enough |
|---|---|---|
| `recorder` | do concurrent adds and writes give complete, well-formed recordings? | two threads, one of which records twice: every race of two adds, a record after a failed one, a write among them (of lists too, one by one, while a type is added) and a second write of a stream. Two types: lists of different types |
| `record_replay` | are the outermost calls recorded and does a recording replay? | two contexts, three calls of every kind, nested three deep, two values of parameters: equal and different parameters, a sibling after a nested call; the three sources of a recording, and JSON making one value of parameters equal to the other |
| `replay_queue` | does each record answer one call under threads? | two threads that share a type and have one of their own, two records of a type, two calls each: both take the same match, one builds a list while the other searches |
| `events` | does each event have exactly one end, in order? | two applications: one thread with two receivers and two groups; two threads with a callback that raises and calls back. Three events, two flushes, three nested calls |
| `tasks` | do tasks see their own blocks and invocation, and are flags announced first? | two threads in the pool and the submitter, two tasks; five programs: nested blocks around and in tasks, three names at once, a race for a new name, evaluations of a flag by all three threads, and four by one thread, each after or within another (three within each other fire three times, the fourth shows that it is over) |
| `configuration` | what do a project's settings amount to? | options: a deprecation, another event and an unknown name, every set of them in every field. Versions: six with nested prereleases, all five matchers and the unbounded specifier, up to three requirements (reducing is pairwise), up to two available versions. Configurations: three of ten calls, with keys of every behavior, the adapter's and of no class, each set or deleted at any time: two calls to merge and a third that merges into the result. Dicts: three (associativity is about three) of thirteen, nested twice. Tables: three of ten (a column that changes its type twice), with and without rows and values |
| `clients` | does the lexer with its cache agree with a plain pass, and are blocks right? Do file operations withstand other threads and failures, and do errors name their macros? | Blocks: every template of up to five pieces from four narrow families of pieces (strings that hide the ends of tags or of expressions, blocks in control flow, paired blocks) and of up to four from two wide ones (strings, tags and expressions together; raw blocks and comments): a string with a hidden tag end, or a block inside an unclosed control flow, needs no more. Files: 34 sets of calls, most of which meet in one directory, paths of up to three names, every order of their steps; writes over a link, renames over a link, of a link and of a directory with one, each within a file system and across two (a copy needs a directory, a file in it and a link); two retries: one that succeeds after a failure, and giving up. Templates: a macro and a model, three texts one of which does not compile, four nested calls: a macro in a rendering in a macro |
| `recorder_error_json` | finding: a record that cannot be serialized | |
| `wrapper_flag_leak` | finding: a marked call that raises | |
| `queue_list_recording` | finding: the format written is not the format read | |
| `macro_error_trace` | finding: the macro an error is raised in is missing in its trace | |
| `options_all` | finding: `"all"` in `error` and a deprecation | |

### What holds, and under which conditions

* **Recorder.** Sequence numbers are unique and without gaps (`SeqIdentifiesRecord`); a streamed
  recording is JSON while every record can be serialized and `write` waits for the threads
  (`StreamIsJson`); a failed record disturbs no other record's own tokens (`ErrorsAreIsolated`);
  what was added is in the stream or the list (`ReturnedIsStored`); a first write of a stream
  after the threads is complete, and a write of lists is complete, as of the time
  it was called (`WriteIsComplete`), or raises and leaves the file empty, which only happens while threads add types
  or when a record cannot be serialized; an `add_record` that began ends, and holds no lock then
  (`AddEnds`). Two conditions are needed because the code does not give more: two threads that
  first add records of one type may each find no list and one of the lists is lost; and a second
  `write` of a streaming recorder finds no stream, and overwrites the file with what was added to
  the lists since.
* **Wrapper and replay.** As long as no call raised in a context, exactly its outermost recorded
  calls are in the recording (`OutermostIsRecorded`), none twice and none that did not return
  (`RecordedOnce`). A replay of such a program from records that are intact (in memory, or in a
  dict by type with every result there and parameters that JSON keeps) finds a record for each
  call, and the call's own one where calls with equal parameters do not overlap
  (`ReplayMatches`). From a file that the recorder wrote no call is replayed, each raises
  (finding 3). Whatever the records come from, a replay that runs to the end has used all of them
  (`ReplayConsumesAll`): one that cannot be read does not pass for one that was replayed. That
  equal calls must not overlap is needed: records are kept in the order in which calls
  ended and asked for in the order in which calls begin, so two contexts whose equal calls overlap
  may get each other's results. Calls whose parameters cannot be built are recorded with none and
  are not replayed.
* **Replay queues.** A record of a list that was built before the threads started, or that one
  thread uses, answers one call (`EntryAnswersOnce`), and those of a type that one thread uses are taken in
  order, and none is missed (`AnsweredInOrder`). Lists that threads build together are outside of these: both may
  build one, and then a record can answer twice.
* **Events.** Each event has one end (`Delivers`: delivered to every receiver, silenced, raised,
  or, where receivers raise or call back or several threads use the manager, dropped), deferred
  events keep their order within a group (`DeferredInOrder`, for one thread and receivers that do
  not call back), receivers that do not call back see nothing of what was stopped
  (`UnseenIfStopped`), and a flush takes only what was deferred before it (`FlushIsBounded`).
* **Tasks.** Between its calls a thread sees what its own blocks say (`ViewIsScoped`). This is
  stated of names that one thread introduced: `set_contextvars` looks a name up and registers
  it in two steps, two threads that introduce one at once make two variables, and the loser
  can never unset the value it set first; the end of its block leaves it visible, which
  `src/tests/unit/test_contextvars.py` ("after the context manager ends, the node_info is
  gone") says it should not be. Tasks run in the invocation their executor captured, however
  late the thread starts, and leave nothing in a pooled thread, failed ones included, but
  names set outside of blocks (`TasksAreIsolated`). A pool keeps the invocation context it
  was made with when the application begins another. A flag is announced before anyone finds
  it off. Several threads may each announce it, and a thread announces it again where a callback of
  the event that is being fired evaluates the flag: `fired` is set after the event. A thread never
  announces a flag more often than it was about to at one time, nested in this way: once, if no
  callback evaluates the flag (`AnnouncedOnce`). Callbacks that do anything else than evaluate
  flags are not in this run (`EventManager` has those that fire events).
* **Templates.** Cached searches return what fresh ones would (`CacheIsTransparent`); the tags
  are those of a plain pass over the text (`LexesLikeReference`); blocks and raw data tile the
  text (`BlocksTileText`), none starts in control flow (`BlocksAreAtTop`), each pairs an allowed
  tag with its end, with a warning for every other block tag (`BlocksPairTags`), and every template
  is accepted or refused in the end (`BlocksEnd`).
* **Options.** The verdict follows the hierarchy in the documentation of the class
  (`FollowsHierarchy`). The documentation of `errors` contradicts it in one case, see finding 5. An append
  to the caller's lists moves verdicts one way (`AppendsAreMonotone`). That options of the new
  version go on reading these lists is proved (`CallersAreHeard`).
* **Versions.** The reduced range admits exactly the versions that every requirement admits,
  whatever their order (`RangeIsIntersection`); the version picked is the greatest available
  one in it (`PicksTheBest`). Both are stated where the
  order of specifiers is an order: with `<` of a release and an upper bound on a prerelease of
  the same release, `compare` calls each greater than the other, and then the reduced range
  depends on the order of the requirements (`BoundsClash`).
* **Files.** Threads that write below a directory that is not there yet all succeed
  (`WritesSucceed`), where they write different files: two writers of one file may mix their
  contents. A write that no other thread
  comes in the way of raises if and only if something that is no directory is in the place of one of its
  directories, or a directory in its own; over a link it writes where the link leads. (Permissions,
  a full disk and other errors of the operating system are not modelled.) A rename loses nothing of its
  source, whatever fails and whether it moves or copies (`SourceIsKept`): the source is removed only
  when all of it has been copied without an error. This is stated where no other thread writes in,
  moves or removes the source, and neither source nor target lies in the other: a target that is there
  is removed first, and with `force` a directory renamed into one of its own subdirectories loses
  that subdirectory before the move turns out to be impossible. If no other thread works at the target
  either, a copy has the contents of the source, and its links as links (`CopyIsWhole`). The old target may be gone. A
  search finds every matching file that is there all the time and fails only because of a matching
  file that is removed between listing and `getmtime` (`SearchSeesStable`).
* **Installation.** What is installed after any failed attempts is the archive's files and no
  other; giving up leaves the version that was there (`PackageIsWhole`); this is stated where the
  archive's directory is not the target itself, nothing of its name is there, and the archive is
  kept elsewhere. Every call ends
  (`CallsEnd`): attempts are bounded.
* **Macros.** The trace of a `CompilationError` lists the macros that were running, innermost
  first, and the node that was rendered (`TraceNamesMacros`); each call runs the template of
  the macro's present text, and a text that does not compile is refused each time
  (`TemplatesAreCurrent`).
* **Merges.** A configuration updated once from the accumulated calls is the one updated from each
  call (`ConfigsAgree`; grants with "+" in turns excepted). `deep_merge` in groups is `deep_merge`
  at once (`DeepMergeAssociates`), unless a list comes in the place of a dict, whose keys it then
  takes over. The type of a merged column does not depend on the order of the tables, and values
  keep their columns and rows (`TablesAreUnited`); of `DateTime` and `ISODateTime` one order
  raises.

### Fairness

Liveness is stated three times. `Recorder!FairSpec` has weak fairness of each thread's next step
of `add_record`, and of the steps of a `write` that has begun: the operating system runs every
thread, `with lock` blocks are released on all paths, and each thread makes a bounded number of
calls, so that no stronger fairness of the locks is needed. `BlockIterator!BlockSpec` has weak
fairness of the loop: one thread runs it and nothing in it waits. `MCClients!ClientSpec` has that
for the part that looks for blocks, and weak
fairness of each thread's calls of the operating system: none of them waits for another thread,
and the network answers or fails, since `download` sets timeouts. Of `run_cmd` this assumes that the
program it starts ends: `communicate` (`clients/system.py:569`) has no timeout, and with a program
that does not end `CallsEnd` is false. It is not assumed that `write`
is ever called; nothing is assumed of receivers of events or of tasks.

Deadlock is not checked in these runs: all specifications are of programs that end, after the
bounded number of calls or at the end of the text.

### Findings

Three runs refute what the documentation says (`docs/guides/record_replay.md:13`: what is
recorded can be "persisted to file for later comparison or for use with replay"), a fourth what
the handlers of errors are written for, a fifth what a method's documentation says:

1. `recorder_error_json`: a record that cannot be serialized leaves a file that is not JSON:
   the error object is written, possibly after half of the record, without noting that the
   next record needs a separator.
2. `wrapper_flag_leak`: a marked function that raises leaves the context variable set, and
   later marked calls of that context are taken for nested ones and not recorded.
3. `queue_list_recording`: recordings are written as a list, and the lists of a replay are
   built from a recording that is a mapping by type.
4. `macro_error_trace`: `CaughtMacroErrorWithNodeError` sets its node before its base class
   resets it (`exceptions/macros.py:43`): for a `TypeError` or an undefined name in a macro, the
   trace begins with the macro's caller.

5. `options_all`: the documentation of `errors` says that with `"all"` in `error` an event is an
   error unless it is itself named in `warn` or `silence` (`helper_types.py:228`). The code
   (line 246), and the hierarchy of the class documentation, which has `Deprecations` before
   `"all"`, also except a deprecation when `Deprecations` is in one of these lists.

Beside these, `record.py:373` compares the method `lower` with `"all"`, so that the documented
value `all` of `DBT_RECORDER_TYPES` filters out every record; no model is needed to see it.

## 4. Proofs

| Theorem | Says | Inductive argument |
|---|---|---|
| `RecorderProofs!TypeCorrect` | types | by itself |
| `RecorderProofs!LocksExclude` | each lock is held exactly in its section | `LocksMatchSections` is inductive with the types |
| `RecorderProofs!SeqsIdentifyRecords` | `SeqIdentifiesRecord` | `Numbering`: a thread between the read and the write of the counter holds the lock and has read its value; every number given is below the counter and no two are equal. Uniqueness alone is not inductive: a thread could write back a stale counter |
| `RecorderProofs!StreamsAreJson` | `StreamIsJson` | `StreamState`: what the file ends with, whether a record was added and where the holder of the file lock is determine each other; so each step appends what JSON wants next |
| `RecorderProofs!FailuresAreIsolated`, `FirstWriteIsWhole` | `ErrorsAreIsolated`, streams of `WriteIsComplete` | `FileState`: a file that ends with the head of a record is in the hands of the thread that holds the file lock, and everybody who has returned before the first write is over has its record whole in it |
| `RecorderProofs!ReturnedRecordsAreStored` | `ReturnedIsStored` | `ListsState`, `StoredState`: where a thread alone adds records of a type, nobody makes the list of that type again once it has been made, so what was appended stays; while the stream is open nobody is in the section of the lists |
| `RecorderProofs!WritesAreComplete` | `WriteIsComplete` | for streams, as above; for lists `GatherState`: while `write` iterates, the types known are those listed, or the iteration will raise; what had been added when it was called is among the records read or in a list still to be read |
| `WrapperProofs!InteractionsAreRecordedOnce`, `OutermostCallsAreRecorded` | `RecordedOnce`, `OutermostIsRecorded` | `WrapperInv`: `CallsAreDistinct`, no number of a call is on two places of the stacks or on one and among the ended; `FlagGuards`, a call that will add a record is the lowest on its stack that could, and where the flag is down none could; `RecordsAreOfWanted`, a record is of a call that ended, returned and was to be recorded, and no two are of one call; `NothingIsLost`, while nobody raised, the flag is up only over a call that will record, the lowest call that could record will, and a call that was to be recorded has its record. Proved for the recording and, since a replay takes the same steps, for `ReplaySpec` |
| `WrapperProofs!ReplaysMatch`, `ReplaysConsumeAll` | `ReplayMatches`, `ReplayConsumesAll` | `OwnInv`, see below |
| `QueueProofs!EntriesAnswerOnce`, `AnswersAreInOrder`, `QueueTypesHold` | `EntryAnswersOnce`, `AnsweredInOrder`, types | `QueueInv`, see below |
| `EventProofs!EventTypes`, `FlushesAreBounded`, `EventsEndOnce` | types, `FlushIsBounded`, an event has one end and rests from then on | `QueueInv`, see below |
| `DeliveryProofs!StoppedAreUnseen` | `UnseenIfStopped` | `SeenIsPast`: an event that a receiver was given is past, so that only "delivered" or "dropped" can follow |
| `DeliveryProofs!DeferralIsInOrder` | `DeferredInOrder` | `OrderInv`, see below |
| `DeliveryProofs!ManagerDelivers` | `Delivers`: `EventManager` implements `EventDelivery` | every step maps to an acceptance, to the end of a set of waiting events, or to a stutter, see below |
| `ClientProofs!TypeCorrect`, `CacheTransparent` | `CacheIsTransparent` | `CacheInv`: the entry of a pattern is what a search from its position gives; rewinding drops entries that start after the new position |
| `ClientProofs!TextIsTiled` | `BlocksTileText` | `ParseInv`: the lexer's tags are in order and behind its position (`TagsInOrder`), `last_position` is not behind a tag to come (`Progress`), and the parts so far are the text up to it (`TileInv`) |
| `ClientProofs!TagsArePaired` | `BlocksPairTags` | `PairInv`: the open block's end is to come, every other allowed tag that was handled makes a block with its first end, and the tags in no block were warned of; `OrderInv` |
| `ClientProofs!BlocksAreOutsideControlFlow` | `BlocksAreAtTop` | `NestInv`: the control flow tags handled are paired without crossings, but for those on the stack, which no pair is around; so nothing is open when the stack is empty |
| `TaskProofs!FlagsAreAnnouncedOnce` | `AnnouncedOnce` | `PhaseInv`: all evaluations of a thread but the innermost are firing, and where each is says what it has found or done; `FiredInv`: set means announced, and who has fired has set `fired` or is about to, so that a thread that is in a callback or in no evaluation begins none that will fire; `DepthInv`: what a thread has fired and what it is in the course of firing is together no more than it was once in the course of firing. Steps of tasks and blocks leave the flags alone (`FlagsChangeByEvaluation`) |
| `TaskProofs!ViewsAreScoped` | `ViewIsScoped` | `ContextInv`, see below |
| `TaskProofs!TasksStayIsolated` | `TasksAreIsolated` | `ContextInv`, `NestInv` and `TaskInv`, see below |
| `ConfigurationProofs!HierarchyHolds`, `NeverBothHolds`, `CallersAreHeard`, `AppendsMoveVerdicts`, `TypeCorrect` | the properties of the options | `ListsKept`: which fields are shared and which were given |
| `ConfigurationProofs!RangesIntersect`, `BestIsPicked` | `RangeIsIntersection`, `PicksTheBest` | `RangeInv`, `ResolveInv`, see below |
| `ClientProofs!InvHolds`, `TemplatesStayCurrent` | `TemplatesAreCurrent` | `CacheKeepsTexts`: an entry of the cache was made from its key, which compiles; with it, a hit gives the macro's text. That macros are only parsed again between renderings is needed: a call in progress would keep the old text |
| `ClientProofs!TracesNameMacros` | `TraceNamesMacros` | `TraceInv`: the calls still open are a prefix of those in progress where the error was raised, and the outermost is a rendering; the stack of an error of dbt's names the macros already left, innermost first; its node is that of the rendering, or none yet |
| `ClientProofs!CallsFitTheirTree` | types: the file system is a tree, and each call is at a step of its own with arguments that fit | by itself |
| `ClientProofs!SearchesSeeStable` | `SearchSeesStable` | `SearchInv`: a file that was there all the time and is to be found was found, is among the names still to look at, or lies below a directory still to walk |
| `ClientProofs!RenamesKeepSources` | `SourceIsKept` | `RenameInv`, see below |
| `ClientProofs!WritesEndWell` | `WritesSucceed` | `NumberInv`, `WriteInv`, see below |
| `ClientProofs!InstallsAreWhole` | `PackageIsWhole` | `InstallInv`, see below |

They hold for every value of the constants that the named assumptions of the modules allow
(for instance: the holder of a free lock is no thread, bounds are natural numbers). Of
`BlockIterator` they assume what callers of `find_blocks` pass: the end of a block is no block
itself, nor is an end of control flow, and no block has the type of raw data.

**Record and replay.** What a replay gets depends on the order in which the calls of all contexts
began and ended, of which the recorder keeps nothing; the trace does, and `OwnInv` of
`WrapperProofs` ties the two together:

* `TraceInv`: a call begins once and ends once, after it began (`TraceIsOrdered`), and the calls
  on the stacks are those that began and have not ended (`RunningIsTraced`).
* `RecordedAreOutermost`: a call is recorded if and only if no recorded call of its context is
  around it, in the trace.
* `SkippedAreInside`: what a replay skips is what is inside a recorded call that it passed.
* `RecordsArePending`: there is a bijection from the records left to the recorded calls that the
  replay has still to come to, which keeps the parameters when the recording is intact. So a call
  then finds a record, and none is left at the end.
* `RecordingIsOrdered`, `RecordsAreOwn`: records are in the order in which their calls ended, and
  where equal calls do not overlap that is the order in which they began: the
  first record with a call's parameters is its own.

**Versions.** `before` of two versions is shown to be a strict order (`BeforeOrder`), and `compare`
to follow it but for "less than a release" (`CompareIs`); so of two bounds the one that is kept
admits what both do (`CombineLowerIs`, `CombineUpperIs`), unless they are of the kind that `compare`
is no order of (`BoundsClash`), and reducing intersects (`ReduceIs`). `RangeInv` says that the range
stands for the specifiers reduced so far (`StandsFor`), and besides that it is drawn from them: its
bounds are theirs, or it is one exact version of theirs. Without the second part the next step
could not exclude a clash. The checks of `find_possible_versions` and
`resolve_to_specific_version`, which reduce the version with both bounds once more, are shown to be
the same as lying between them (`InRangeIs`). `ResolveInv` says that what `filter_installable` returned
has every version that may be installed and nothing else, and that the best of the versions passed is
one that none of them in the range is after. That a list can be sorted at all, which the definition of
`Sorted` chooses from, is proved by a smallest counterexample (`SortedExists`). The assumption on
`Versions` is that available versions are exact; their number, and that of the requirements, is
any.

**Files and installations.** That a file is whole is about its number in `fs` and the contents of
that number in `data`: `Numbered` says that no two paths have the number of one file, that a
number which a thread made says where, as long as nothing was moved, and that the file a thread
has open is the one at its path. With it, `WriteInv` says for a write that nobody comes in the way
of that its missing directories are a suffix of its path (other threads may have made some of
them), and that it will raise if and only if something else is in the way. `InstallInv` says of an
installation that up to the rename the version that was there is as it was, and beside it there
are at most files of the package (`OldKept`); that from the rename on the package is complete
(`Ready`), and nothing is at the target when it is moved; and that then it is in its place
(`InPlace`). The other threads' steps are taken apart once (`WriterSteps`): each adds a file or a
directory, fills a file it has open, or changes nothing. `JobsAssumption` has what these proofs
assume of the constants: trees, and for an installation that its archive is outside of the
directory it installs in, where nothing has the archive's name yet.

`RenameInv` says where everything of a rename's source is (`SourceWhere`): where it was, until it is
moved or its removal begins; then at the target, or in it. What is removed before that is at the target,
and so not below the source. For a copy `CopyGoesOn` says, besides, of each entry of the source that it has
been copied, or is listed, or is below a directory that is listed, unless an error has been noted;
where nothing is listed and nothing failed, everything has a copy, which is when `EndCopy` lets the
removal begin.

**The event manager.** None of its properties is inductive: each speaks of events that have
ended or were fired, and what makes it true is where the other events are. `QueueInv` says that:

* `StackShape`: what may stand on what in a thread's stack. Below a call is a flush at the place
  of the event that the call fires, or a fire that is with a receiver which calls back.
* `IdsAreCounted`: every event in a call, a list or a history was made by a call before.
* `ListsAreOwned`: a list belongs to one group or was popped by one flush, never both. A thread that
  has looked up the list of a group may still hold it after the flush popped it; that is why
  appending calls are not among the owners.
* `PoppedIsOld`: what is in a popped list, or will still be appended to it by such a thread, is
  older than the flush. This is what `FlushIsBounded` needs.
* `PlacesAreDistinct`: an event is in one place of one list and in one call; it is in a list and
  in a call only if a flush has come to it.
* `RaisedWereFired`: an error that a flush keeps for its end is of an event the flush has been at.
* `EndsAreFinal`: an event has one end, and it is at rest then (`AtRest`): in no call, in no flush's
  errors, and in no place of a list that a group or a flush has yet to come to (`Consumed`).

The actions are not taken apart again for each of these. `Moves` says once what a step does to
the calls (each stays, or is new on top, and a flush may catch the error of the call above it),
`StepPositions` what it does to the lists, and `StepEnds` which events it ends; that every action
is of this form is proved once, and the parts are preserved by whatever is of this form.

For `DeferredInOrder`, of one thread and receivers that do not call back, a step is one of a few
turns (`Turn`): then a stack is at most a flush and the event it fires. `OrderInv`: lists are
sorted and hold events of their group, what is being deferred is newer than all of them, what
waits in a group, or in a flush that has not fired it, is newer than all deferred events of its
group that were fired, and `fired` is in order.

For `Delivers`, `Waiting` is shown to be the events that are not at rest, so that an event's
status in the mapping is "new" while its number was not given, "accepted" while it is not at rest,
and its end, or "dropped", afterwards. A step accepts at most the event that it makes, and what
leaves `Waiting` in it has its end in `ended` unless dropping is allowed (`NothingIsLost`, which
needs the turns); nothing comes back, since rest is final.

**Context variables and tasks.** `ViewIsScoped` is not inductive: it says nothing while a call is
going on, and what a block gives back when it is left depends on what it saved when it was
entered, and what a token gives back on what it held. `ContextInv` says, for each thread and each
name that one thread introduced:

* `ScopeInv`: if assignments to the name are still to do, the last of them gives it what `scope`
  says, and if not, that is what the context shows. (Leaving a block first unsets its names and
  then sets those again that were set: only the last assignment counts.)
* `HeadInv`: only the assignment a thread is at may have a variable that is not registered yet,
  one that the thread made.
* `BlocksInv`: what a block saved is what its names showed when it was entered, by `scope`.
* `TokenInv`: the token of a call that is going on will be given what the name shows, and the
  token of one that is over holds what the name showed before it.
* `VariablesInv`: only variables that were made are registered or have values. This is why a name
  with one variable has one value in a context, and why other threads' steps change nothing.

What `Sets` makes of the arguments of a call, in an order that nobody knows, is said once
(`SetsAssign`, `LeavingAssigns`); it needs that the names of an application are finitely many
(`PrefixAssumption`), or there would be no sequence of them.

For `TasksAreIsolated`, `NestInv` says that a thread that has not set a name outside of blocks has
nothing of it outside of its blocks, now and when it will have left those it is in; and `TaskInv`
that a thread of the pool between tasks is in no call and no block (a task ends with as many blocks
as it began with, which were none), that it is in the executor's invocation once it has been
initialized, and that a task whose future is pending waits, runs, or was interrupted in the
application's own thread. An error can only go up through a task while its thread evaluates no
flag: there the proof uses where an evaluation can be, that is, `FlagInv`.

**The replay queue.** What a call gets depends on what the list holds when the call comes to it,
and on what the thread has passed over. `QueueInv` of `QueueProofs` speaks of the types that one
thread asks for and of those whose lists were there at the start:

* `ListInv`: the list of such a type holds, in their order, exactly the saved records that no call
  got (`HoldsTheRest`); while there is no list, no call got any.
* `AsksInv`: a thread that makes the list finds the type not processed, which for these types
  means that nobody else asks for it (`OnlyBuilder`); a thread that searches has the type's list in
  its hands, not an older one.
* `SearchInv`, where the list is one thread's own: what the thread has passed over does not match,
  and its match is still at the index. With other threads on the list neither is true: a record
  before the index may move up as another is removed.
* `OutcomesInv`: a record that a call got is one of the type, with the params of the call. So what
  is in no list has been taken by calls with its params.

Only model-checked: liveness (`AddEnds`, `BlocksEnd`, `CallsEnd`), which needs fairness; the contents of
copies (`CopyIsWhole`; that each file has a copy is proved, `RenamesKeepSources`); and what
folds and recursive functions compute (`LexesLikeReference`, `ConfigsAgree`,
`DeepMergeAssociates`, `TablesAreUnited`), which needs induction over data.

## 5. Not modelled

Formatting of events and their protobuf forms; jinja2, agate, the operating system and the
network themselves (external, as the code uses them); the system client's branches for Windows;
validation of data classes by JSON schema; the recorder's environment variables and its report
of differences; adding and clearing receivers while events are fired; wording of exceptions;
type stubs. The reasons are in `PROJECT.json` under `components`.

## 6. Plan

Done: the recorder and its replay first, since a recording that is silently wrong spoils every
later comparison; then the event manager, the lexer, the options, the versions and the tasks;
then files, installations and macros (`clients`), and the merges (`configuration`).

Next:

1. **Event manager**: adding and clearing receivers while events are fired; loggers that share
   a Python logger.
2. **Merging**: sharing of inner dicts between the accumulated calls and the caller.
