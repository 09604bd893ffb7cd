---------------------------- MODULE SystemClient ----------------------------
(***************************************************************************)
(* dbt_common/clients/system.py and utils/connection.py on POSIX: threads  *)
(* write (write_file, write_json), make, rename, search and remove files,  *)
(* install packages and run commands.  The operating system and Python's   *)
(* os and shutil are external: a step here is one call of theirs, and      *)
(* other threads come between any two.                                     *)
(***************************************************************************)
EXTENDS Integers, Sequences, SequencesExt, FiniteSets

CONSTANTS
    Workers,      \* threads
    Dir,          \* a directory
    Links,        \* symbolic links, each to a file of its own elsewhere, by its full path
    Jobs,         \* sets of calls that threads make at once: records of
                  \* the files there are and of the call of each thread
    Matching,     \* names that file_pattern matches
    Ignored,      \* names that ignore_spec matches
    Executables,  \* names of executable files
    MaxAttempts   \* connection_exception_retry's max_attempts

ASSUME AttemptsAssumption == MaxAttempts \in Nat

Path == Seq(STRING)  \* <<>> is the directory that all paths begin in

\* What is above something is a directory; a file has one path, and a number that
\* no thread gives to another.
IsTree(files) ==
    /\ DOMAIN files \subseteq Path \ {<<>>} /\ IsFiniteSet(DOMAIN files)
    /\ \A p \in DOMAIN files : \A i \in 1 .. Len(p) - 1 :
          SubSeq(p, 1, i) \in DOMAIN files /\ files[SubSeq(p, 1, i)] = Dir
    /\ \A p, q \in DOMAIN files : files[p] = files[q] /\ files[p] # Dir => p = q
    /\ \A p \in DOMAIN files : files[p] \notin Workers \X Path

\* A package is installed by another name than it has in the archive, if any, and
\* the archive is not among the packages.
IsInstallation(files, c) ==
    /\ c.to # <<>> /\ c.dest = Front(c.to) /\ c.top \in STRING /\ c.force
    /\ c.files \subseteq STRING /\ IsFiniteSet(c.files)
    /\ ~IsPrefix(c.dest, c.path)
    /\ Append(c.dest, c.top) \in DOMAIN files => Append(c.dest, c.top) = c.to

IsCall(files, c) ==
    /\ c.path \in Path /\ c.to \in Path
    /\ c.op \in {"write", "make"} => c.path # <<>>
    /\ c.op = "search" => c.roots \in Seq(Path)
    /\ c.op = "install" => IsInstallation(files, c)

ASSUME JobsAssumption ==
    /\ Dir \notin Links /\ ({Dir} \cup Links) \cap (Workers \X Path) = {}
    /\ \A j \in Jobs : IsTree(j.fs) /\ \A t \in Workers : IsCall(j.fs, j.calls[t])

VARIABLES
    fs,     \* what there is: from a path to Dir, a link or the number of a file
    data,   \* from a number, or a link to a file, to what is in the file
    job,    \* the call of each thread: its arguments and where it is
    stable  \* history: what has been there all the time, and a directory or not

systemVars == <<fs, data, job, stable>>

Exists(p) == p \in {<<>>} \cup DOMAIN fs
IsDir(p) == p = <<>> \/ (p \in DOMAIN fs /\ fs[p] = Dir)
Below(p) == {q \in DOMAIN fs : IsStrictPrefix(p, q)}
Above(p) == {SubSeq(p, 1, i) : i \in 1 .. Len(p) - 1}
Name(p) == Last(p)
Entries(d) == {p \in DOMAIN fs : p # <<>> /\ Front(p) = d}

\* The file system without some paths; a function with new values at some places.
Without(S) == [q \in DOMAIN fs \ S |-> fs[q]]
Updated(old, new) ==
    [x \in DOMAIN old \cup DOMAIN new |-> IF x \in DOMAIN new THEN new[x] ELSE old[x]]
All(S, v) == [x \in S |-> v]

\* The files at p and below it, of some file system.
Files(files, p) ==
    [q \in {q \in DOMAIN files : IsPrefix(p, q) /\ files[q] # Dir} |-> files[q]]

SystemInit ==
    \E j \in Jobs :
        /\ fs = j.fs /\ stable = DOMAIN j.fs
        /\ data = [f \in {j.fs[p] : p \in DOMAIN j.fs} \ {Dir} |-> "old"]
        /\ job = [t \in Workers |->
                    [args |-> j.calls[t], at |-> "start", path |-> j.calls[t].path,
                     todo |-> <<>>, names |-> {}, found |-> {}, file |-> <<>>,
                     attempt |-> 0, source |-> Files(j.fs, j.calls[t].to),
                     link |-> FALSE, target |-> <<>>, entries |-> <<>>, failed |-> FALSE,
                     removal |-> "", result |-> "none"]]

Args(t) == job[t].args
At(t, op, at) == Args(t).op = op /\ job[t].at = at
Goto(t, at) == job' = [job EXCEPT ![t].at = at]
Stop(t, result) == job' = [job EXCEPT ![t].at = "done", ![t].result = result]

\* The file system becomes new: what stays is there as what it was.
SetFs(new) ==
    /\ fs' = new
    /\ stable' = {p \in stable \cap DOMAIN new : fs[p] = Dir <=> new[p] = Dir}
SameFs == UNCHANGED <<fs, stable>>

-----------------------------------------------------------------------------
(* write_file, make_file and download: a directory, a file, its contents.  *)

\* How many of a path's names lead to what is there already, without the last.
FoundAbove(p) ==
    CHOOSE i \in 0 .. Len(p) - 1 :
        Exists(SubSeq(p, 1, i)) /\ \A j \in i + 1 .. Len(p) - 1 : ~Exists(SubSeq(p, 1, j))

\* make_directory, up to os.makedirs, which looks for missing ancestors
StartWrite(t) ==
    /\ At(t, "write", "start")
    /\ LET p == Args(t).path
       IN  job' = [job EXCEPT
                     ![t].todo = LET k == FoundAbove(p)
                                 IN  [i \in 1 .. Len(p) - 1 - k |-> SubSeq(p, 1, k + i)],
                     ![t].at = IF Exists(Front(p)) THEN "open" ELSE "mkdir"]
    /\ UNCHANGED data /\ SameFs

\* mkdir of the next missing directory d; what to do when it is there by now
MkDir(t, IfThere(_)) ==
    /\ job[t].at = "mkdir"
    /\ LET d == Head(job[t].todo)
           rest == Tail(job[t].todo)
       IN  IF Exists(d) /\ rest = <<>> THEN IfThere(t) /\ SameFs
           ELSE IF ~Exists(d) /\ ~IsDir(Front(d)) THEN Stop(t, "OSError") /\ SameFs
           ELSE /\ job' = [job EXCEPT ![t].todo = rest,
                                      ![t].at = IF rest = <<>> THEN "open" ELSE "mkdir"]
                /\ IF Exists(d) THEN SameFs ELSE SetFs(Updated(fs, All({d}, Dir)))
    /\ UNCHANGED data

\* Mutant: any error of os.makedirs is raised.
MakeDirectoryRaises(t) == MkDir(t, LAMBDA u : Stop(u, "OSError"))

\* Another thread's directory is taken for ours (EEXIST).
MakeDirectory(t) == MkDir(t, LAMBDA u : Goto(u, "open"))

StartMake(t) ==
    /\ At(t, "make", "start")
    /\ IF Args(t).overwrite \/ ~Exists(Args(t).path) THEN Goto(t, "open") ELSE Stop(t, "false")
    /\ UNCHANGED data /\ SameFs

\* open(path, "w"): truncates a file that is there, if need be where a link leads
Open(t) ==
    /\ job[t].at = "open"
    /\ LET p == Args(t).path
           f == IF Exists(p) THEN fs[p] ELSE <<t, p>>
       IN  IF IsDir(p) \/ ~IsDir(Front(p))
           THEN Stop(t, "OSError") /\ UNCHANGED data /\ SameFs
           ELSE /\ SetFs(Updated(fs, All({p}, f)))
                /\ data' = Updated(data, All({f}, ""))
                /\ job' = [job EXCEPT ![t].at = "fill", ![t].file = f]

\* Two threads that have a file open write over each other.
Contents(f, new) == IF data[f] \in {"", new} THEN new ELSE "mixed"

\* The contents are written; the file may have been moved or removed by now.
Fill(t) ==
    /\ job[t].at = "fill" /\ Args(t).op \in {"write", "make"}
    /\ data' = [data EXCEPT ![job[t].file] = Contents(job[t].file, Args(t).contents)]
    /\ Stop(t, "ok") /\ SameFs

-----------------------------------------------------------------------------
(* rename(path, to, force), also as the end of untar_package               *)

To(t) == Args(t).to

\* path_is_symlink(to_path), and the paths compared: given whether they are the same
BeginRename(t, same) ==
    /\ At(t, "rename", "start") \/ At(t, "install", "rename")
    /\ job' = [job EXCEPT ![t].at = IF same THEN "done" ELSE "exists",
                          ![t].result = IF same THEN "ok" ELSE @,
                          ![t].link = To(t) \in DOMAIN fs /\ fs[To(t)] \in Links,
                          ![t].source = Files(fs, job[t].path)]
    /\ UNCHANGED data /\ SameFs

\* A path with a slash at its end is another string than the one without.
SamePath(t) == job[t].path = To(t) /\ ~(Args(t).op = "install" /\ Args(t).archive = "bare")

\* Mutant: a path is renamed to itself like to another.
StartRenameSame(t) == BeginRename(t, FALSE)

StartRename(t) == BeginRename(t, SamePath(t))

\* Mutant: the target is left alone.
KeepTarget(t) ==
    /\ job[t].at = "exists"
    /\ Goto(t, "move")
    /\ UNCHANGED data /\ SameFs

\* os.path.exists(to_path): a target that is there is removed, as what it was before.
CheckTarget(t) ==
    /\ job[t].at = "exists"
    /\ Goto(t, CASE ~(Exists(To(t)) /\ Args(t).force) -> "move"
                [] Exists(To(t)) /\ Args(t).force -> IF job[t].link THEN "unlink" ELSE "rmtree")
    /\ UNCHANGED data /\ SameFs

\* A call that ends with a removal: remove_file, and a move by copying.
RemovesLast(t) == Args(t).op = "remove" \/ job[t].removal # ""

\* What is removed before the move, or last.
Doomed(t) == IF RemovesLast(t) THEN job[t].path ELSE To(t)
AfterRemoval(t) == IF RemovesLast(t) THEN Stop(t, "ok") ELSE Goto(t, "move")

\* remove_file, os.unlink
RemoveFile(t) ==
    /\ job[t].at = "unlink" \/ At(t, "remove", "start")
    /\ IF Exists(Doomed(t)) /\ ~IsDir(Doomed(t)) THEN SetFs(Without({Doomed(t)})) /\ AfterRemoval(t)
       ELSE Stop(t, "OSError") /\ SameFs
    /\ UNCHANGED data

\* rmdir: shutil.rmtree removes what it finds, then the directory, which must be
\* empty by then.
RmTree(t) ==
    /\ job[t].at = "rmtree"
    /\ IF IsDir(Doomed(t)) THEN Goto(t, "rmdir") /\ SetFs(Without(Below(Doomed(t))))
       ELSE Stop(t, "OSError") /\ SameFs
    /\ UNCHANGED data

RmDir(t) ==
    /\ job[t].at = "rmdir"
    /\ IF IsDir(Doomed(t)) /\ Below(Doomed(t)) = {}
       THEN SetFs(Without({Doomed(t)})) /\ AfterRemoval(t)
       ELSE Stop(t, "OSError") /\ SameFs
    /\ UNCHANGED data

Moved(p, q) ==
    LET tree == {p} \cup Below(p)
        new == {q \o SubSeq(r, Len(p) + 1, Len(r)) : r \in tree}
    IN  Updated(Without(tree), [r \in new |-> fs[p \o SubSeq(r, Len(q) + 1, Len(r))]])

\* The two paths are on different file systems.
Across(t) == Args(t).op = "rename" /\ Args(t).across

\* Mutant: links are followed.
KindFollowed(p) == IF IsDir(p) THEN "dir" ELSE "file"

Kind(p) == CASE IsDir(p) -> "dir" [] p \in DOMAIN fs /\ fs[p] \in Links -> "link" [] OTHER -> "file"

\* shutil.move, into a directory that is there or over a file: os.rename and, where
\* that is an error, a copy of what is there and then its removal
Move(t) ==
    /\ job[t].at = "move"
    /\ LET p == job[t].path
           q == IF IsDir(To(t)) THEN Append(To(t), Name(p)) ELSE To(t)
           possible == p \in DOMAIN fs /\ ~IsPrefix(p, q) /\ (Exists(q) => ~IsDir(To(t)))
           renamed == IsDir(Front(q)) /\ ~Across(t) /\ (Exists(q) => ~IsDir(p))
       IN  IF ~possible THEN Stop(t, "OSError") /\ SameFs
           ELSE IF renamed THEN SetFs(Moved(p, q)) /\ Stop(t, "ok")
           ELSE /\ job' = [job EXCEPT ![t].at = "copy", ![t].target = q,
                                      ![t].entries = [r \in {p} |-> Kind(r)],
                                      ![t].removal = IF IsDir(p) THEN "rmtree" ELSE "unlink"]
                /\ SameFs
    /\ UNCHANGED data

\* Where an entry of the source is copied to.
Copy(t, p) == job[t].target \o SubSeq(p, Len(job[t].path) + 1, Len(p))
Listed(t, kind) == {p \in DOMAIN job[t].entries : job[t].at = "copy" /\ job[t].entries[p] = kind}

\* What is left to be copied after p; errors are collected.
Copied(t, p, new, ok) ==
    job' = [job EXCEPT ![t].entries = Updated([r \in DOMAIN @ \ {p} |-> @[r]], new),
                       ![t].failed = @ \/ ~ok]

\* shutil.copytree lists a directory, then makes its copy with what misses above.
CopyDirectory(t) ==
    /\ \E p \in Listed(t, "dir") :
          LET q == Copy(t, p)
              ok == IsDir(p) /\ ~Exists(q) /\ \A d \in Above(q) : Exists(d) => IsDir(d)
              new == [r \in {p} \cup Entries(p) |-> IF r = p THEN "made" ELSE Kind(r)]
          IN  /\ IF ok THEN SetFs(Updated(fs, All({q} \cup Above(q), Dir))) ELSE SameFs
              /\ Copied(t, p, IF ok THEN new ELSE <<>>, ok)
    /\ UNCHANGED data

\* os.readlink, os.symlink
CopyLink(t) ==
    /\ \E p \in Listed(t, "link") :
          LET q == Copy(t, p)
              ok == Exists(p) /\ Kind(p) = "link" /\ ~Exists(q) /\ IsDir(Front(q))
          IN  /\ IF ok THEN SetFs(Updated(fs, All({q}, fs[p]))) ELSE SameFs
              /\ Copied(t, p, <<>>, ok)
    /\ UNCHANGED data

\* shutil.copy2, into a directory that is there or over a file
CopyFile(t) ==
    \E p \in Listed(t, "file") :
        LET q == IF IsDir(Copy(t, p)) THEN Append(Copy(t, p), Name(p)) ELSE Copy(t, p)
            f == IF Exists(q) THEN fs[q] ELSE <<t, q>>
            ok == /\ Exists(p) /\ ~IsDir(p) /\ fs[p] # f
                  /\ ~IsDir(q) /\ IsDir(Front(q))
        IN  /\ IF ok THEN SetFs(Updated(fs, All({q}, f))) ELSE SameFs
            /\ data' = IF ok THEN Updated(data, All({f}, data[fs[p]])) ELSE data
            /\ Copied(t, p, <<>>, ok)

\* shutil.copystat, when everything in a directory has been copied
CopyStat(t) ==
    /\ \E p \in Listed(t, "made") :
          /\ \A r \in DOMAIN job[t].entries : ~IsStrictPrefix(p, r)
          /\ Copied(t, p, <<>>, Exists(p) /\ Exists(Copy(t, p)))
    /\ UNCHANGED data /\ SameFs

\* The source is removed unless anything has not been copied.
EndCopy(t) ==
    /\ job[t].at = "copy" /\ DOMAIN job[t].entries = {}
    /\ IF job[t].failed THEN Stop(t, "OSError") ELSE Goto(t, job[t].removal)
    /\ UNCHANGED data /\ SameFs

-----------------------------------------------------------------------------
(* connection_exception_retry of a function that downloads an archive and  *)
(* unpacks it with untar_package, as its handlers of both errors expect.   *)

Archive(t) == Args(t).path
Package(t) == Append(Args(t).dest, Args(t).top)
InPackage(t, S) == {Package(t) \o <<f>> : f \in S}

\* Mutant: the attempts are not counted.
RetryForEver(t) ==
    IF job[t].attempt <= MaxAttempts - 1 THEN Goto(t, "start") ELSE Stop(t, "ConnectionError")

\* One of the two events may raise, or the function is called again.
Retry(t) ==
    IF job[t].attempt <= MaxAttempts - 1
    THEN \/ Stop(t, "callback")
         \/ job' = [job EXCEPT ![t].attempt = @ + 1, ![t].at = "start"]
    ELSE Stop(t, "ConnectionError")

\* requests.get
Request(t) ==
    /\ At(t, "install", "start")
    /\ Retry(t) \/ Goto(t, "open")
    /\ UNCHANGED data /\ SameFs

\* The response is written: all of it, less than there is, or an error of
\* requests comes in between.
Download(t) ==
    /\ At(t, "install", "fill")
    /\ \/ \E answer \in {"whole", "short"} :
             /\ data' = [data EXCEPT ![job[t].file] = Contents(job[t].file, answer)]
             /\ Goto(t, "untar")
       \/ data' = [data EXCEPT ![job[t].file] = Contents(job[t].file, "short")] /\ Retry(t)
    /\ SameFs

\* Files of the archive are extracted, over those that are there, with the
\* directories above them.
Extract(t, S, contents) ==
    LET dirs == Above(Package(t)) \cup {Package(t)}
    IN  /\ SetFs(Updated(Updated(fs, All(dirs, Dir)), [p \in InPackage(t, S) |-> <<t, p>>]))
        /\ data' = Updated(data, All({<<t, p>> : p \in InPackage(t, S)}, contents))

\* Nothing is in the way of an extraction, no link out of dest_dir either, and the
\* archive is a file.
Extractable(t) ==
    /\ Archive(t) \in DOMAIN fs /\ fs[Archive(t)] # Dir
    /\ \A d \in Above(Package(t)) \cup {Package(t)} : Exists(d) => IsDir(d)
    /\ \A p \in InPackage(t, Args(t).files) : p \in DOMAIN fs => fs[p] \notin {Dir} \cup Links

\* untar_package, up to its rename.  The common prefix of the names is the
\* package's directory, with a slash at its end if the archive is "bare", that
\* is, has no entry for the directory itself.
Untar(t) ==
    /\ At(t, "install", "untar")
    /\ IF ~Extractable(t) THEN Stop(t, "OSError") /\ UNCHANGED data /\ SameFs
       ELSE IF data[fs[Archive(t)]] = "whole"
       THEN /\ Extract(t, Args(t).files, "new")
            /\ job' = [job EXCEPT ![t].at = "rename", ![t].path = Package(t)]
       ELSE /\ \E S \in SUBSET Args(t).files : Extract(t, S, "cut")
            /\ Retry(t)

-----------------------------------------------------------------------------
(* find_matching and run_cmd                                               *)

StartSearch(t) ==
    /\ At(t, "search", "start")
    /\ job' = [job EXCEPT ![t].at = "walk", ![t].todo = Args(t).roots]
    /\ UNCHANGED data /\ SameFs

\* Mutant: the pattern is looked at after the time of modification.
WalkAll(t) ==
    /\ At(t, "search", "walk") /\ job[t].names = {}
    /\ LET entries == IF job[t].todo = <<>> THEN {} ELSE Entries(Head(job[t].todo))
       IN  IF job[t].todo = <<>> THEN Stop(t, "ok")
           ELSE job' = [job EXCEPT ![t].names = {p \in entries : ~IsDir(p)},
                                   ![t].todo = SetToSeq({p \in entries : IsDir(p)}) \o Tail(@)]
    /\ UNCHANGED data /\ SameFs

\* os.walk lists the next directory, if it is still there.
Walk(t) ==
    /\ At(t, "search", "walk") /\ job[t].names = {}
    /\ LET entries == IF job[t].todo = <<>> THEN {} ELSE Entries(Head(job[t].todo))
       IN  IF job[t].todo = <<>> THEN Stop(t, "ok")
           ELSE job' = [job EXCEPT
                         ![t].names = {p \in entries : ~IsDir(p) /\ Name(p) \in Matching},
                         ![t].todo = SetToSeq({p \in entries : IsDir(p)}) \o Tail(@)]
    /\ UNCHANGED data /\ SameFs

\* os.path.getmtime of the next file
Stat(t) ==
    /\ At(t, "search", "walk")
    /\ \E p \in job[t].names :
          job' = IF Exists(p)
                 THEN [job EXCEPT ![t].names = @ \ {p},
                                  ![t].found = IF Name(p) \in Ignored THEN @ ELSE @ \cup {p}]
                 ELSE [job EXCEPT ![t].names = {p}, ![t].at = "done", ![t].result = "OSError"]
    /\ UNCHANGED data /\ SameFs

StartCommand(t) ==
    /\ At(t, "run", "start")
    /\ IF Args(t).cmd = <<>> THEN Stop(t, "CommandError") ELSE Goto(t, "spawn")
    /\ UNCHANGED data /\ SameFs

\* _interpret_oserror, by the file name that Popen reports
Interpret(filename, cwd) ==
    IF filename = cwd THEN "WorkingDirectoryError" ELSE "ExecutableError"

\* subprocess.Popen changes directory, then executes, in the new process.
Spawn(t) ==
    /\ At(t, "run", "spawn")
    /\ LET cwd == Args(t).path
           cmd == Args(t).cmd
       IN  IF ~IsDir(cwd) THEN Stop(t, Interpret(cwd, cwd))
           ELSE IF ~Exists(cmd) \/ Name(cmd) \notin Executables
           THEN Stop(t, Interpret(cmd, cwd))
           ELSE \E r \in {"ok", "CommandResultError"} : Stop(t, r)
    /\ UNCHANGED data /\ SameFs

-----------------------------------------------------------------------------

Step(t) ==
    \/ StartWrite(t) \/ MakeDirectory(t) \/ StartMake(t) \/ Open(t) \/ Fill(t)
    \/ StartRename(t) \/ CheckTarget(t) \/ RemoveFile(t) \/ RmTree(t) \/ RmDir(t) \/ Move(t)
    \/ CopyDirectory(t) \/ CopyLink(t) \/ CopyFile(t) \/ CopyStat(t) \/ EndCopy(t)
    \/ Request(t) \/ Download(t) \/ Untar(t)
    \/ StartSearch(t) \/ Walk(t) \/ Stat(t) \/ StartCommand(t) \/ Spawn(t)

SystemNext == \E t \in Workers : Step(t)

SystemSpec == SystemInit /\ [][SystemNext]_systemVars

-----------------------------------------------------------------------------
(* Properties                                                              *)

Ended(t, op) == Args(t).op = op /\ job[t].at = "done"
Others(t) == Workers \ {t}

\* Thread u only reads, or writes to a path that is not on p or below it.
Harmless(u, p) ==
    /\ Args(u).op \notin {"rename", "remove", "install"}
    /\ Args(u).op \in {"write", "make"} =>
           ~IsPrefix(Args(u).path, p) /\ ~IsPrefix(p, Args(u).path)

\* No file is where a directory has to be, and nothing else where the file is to be.
Writable(p) ==
    /\ \A d \in Above(p) : Exists(d) => IsDir(d)
    /\ ~IsDir(p)

\* However many threads write below one directory that is not there yet, each
\* write_file succeeds, and its file has its contents; no thread fails or returns
\* early because another was about to make the directory.  It raises if and only
\* if there is something else in its way.
WritesSucceed ==
    \A t \in Workers :
        (Ended(t, "write") /\ \A u \in Others(t) : Harmless(u, Args(t).path)) =>
            IF Writable(Args(t).path)
            THEN job[t].result = "ok" /\ data[fs[Args(t).path]] = Args(t).contents
            ELSE job[t].result = "OSError"

\* The source has been copied, and its removal has begun.
SourceIsRemoved(t) == job[t].removal # "" /\ (job[t].at = "rmdir" \/ job[t].result = "ok")

\* Where the files of a rename's source are: where they were, until it is moved or
\* all of it is copied, and if anything fails; and else at the target, or in it if
\* another thread made a directory there again.  Nothing is lost whatever the steps
\* in between, as long as the source is not in the target that has to be removed,
\* nor the target in the source, where it is removed before the move turns out to
\* be impossible.
SourceIsKept ==
    \A t \in Workers :
        (/\ Args(t).op = "rename" /\ job[t].at # "start" /\ ~IsStrictPrefix(To(t), job[t].path)
         /\ ~IsStrictPrefix(job[t].path, To(t))
         /\ \A u \in Others(t) : Harmless(u, job[t].path)) =>
            \E p \in IF job[t].result = "ok" \/ SourceIsRemoved(t)
                     THEN {To(t), Append(To(t), Name(job[t].path))}
                     ELSE {job[t].path} :
                \A q \in DOMAIN job[t].source :
                    LET r == p \o SubSeq(q, Len(job[t].path) + 1, Len(q))
                    IN  r \in DOMAIN fs /\ (SourceIsRemoved(t) \/ fs[r] = job[t].source[q])

\* A source that was copied and removed is at the target as it was, its links as
\* links, if no other thread writes there either.
CopyIsWhole ==
    \A t \in Workers :
        (/\ Args(t).op = "rename" /\ SourceIsRemoved(t) /\ job[t].path # To(t)
         /\ ~IsStrictPrefix(To(t), job[t].path) /\ ~IsStrictPrefix(job[t].path, To(t))
         /\ \A u \in Others(t), p \in {job[t].path, To(t)} : Harmless(u, p)) =>
            \A q \in DOMAIN job[t].source :
                LET r == job[t].target \o SubSeq(q, Len(job[t].path) + 1, Len(q))
                    f == job[t].source[q]
                IN  /\ r \in DOMAIN fs
                    /\ IF f \in Links THEN fs[r] = f ELSE fs[r] # Dir /\ data[fs[r]] = data[f]

\* An installation that succeeds leaves exactly the files of the archive, whole,
\* where the package is to be, whatever the attempts before it left behind and
\* whatever version was there; one that gives up leaves the version that was there.
\* (The directory in the archive has another name than the package, and Jobs has
\* nothing of that name in dest: files that are there would be installed too.)
PackageIsWhole ==
    \A t \in Workers :
        (/\ Args(t).op = "install" /\ Package(t) # To(t)
         /\ \A u \in Others(t), p \in {Args(t).path, Args(t).dest} : Harmless(u, p)) =>
            /\ job[t].result = "ok" =>
                  /\ Below(To(t)) = {To(t) \o <<f>> : f \in Args(t).files}
                  /\ \A p \in Below(To(t)) : data[fs[p]] = "new"
            /\ (job[t].at \in {"start", "open", "fill", "untar"}
                   \/ job[t].result \in {"callback", "ConnectionError"}) =>
                  /\ Files(fs, To(t)) = job[t].source
                  /\ \A p \in DOMAIN job[t].source : data[fs[p]] = "old"

\* A search finds every file that matches and is there all the time, and none
\* that is to be ignored; it fails only because of a file that matches and is gone,
\* never because of another that comes and goes.
SearchSeesStable ==
    \A t \in Workers : Ended(t, "search") =>
        IF job[t].result = "ok"
        THEN {p \in stable : /\ Name(p) \in Matching \ Ignored /\ ~IsDir(p)
                             /\ \E r \in ToSet(Args(t).roots) : IsStrictPrefix(r, p)}
             \subseteq job[t].found
        ELSE \A p \in job[t].names : Name(p) \in Matching /\ p \notin stable

\* Every call comes to an end: failing attempts are repeated a bounded number of
\* times.
CallsEnd == \A t \in Workers : (Args(t).op # "none") ~> (job[t].at = "done")
=============================================================================
