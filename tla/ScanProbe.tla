------------------------------ MODULE ScanProbe ------------------------------
(***************************************************************************)
(* How one volume is measured, or one directory of it listed: the choice   *)
(* of a strategy (scanner.service.ts), the shell script in the sidecar     *)
(* (scan.script.ts) with the parser of what it prints (scan.parser.ts),    *)
(* and the walk of the mountpoint in this process (host-fs.strategy.ts).   *)
(*                                                                         *)
(* The volume is two levels deep: a root with children, some of them       *)
(* directories with a plain file and a file with two hard links.  Sizes    *)
(* are blocks.  A name may have a second line, which the script prints as  *)
(* it is, so that the parser reads it as a line of its own: of any type    *)
(* there is.  Left out: times, sparse files, names with a tab or more than *)
(* two lines, the listing of a directory whose own name has two, and other *)
(* file systems mounted inside the volume, at which du stops and the walk  *)
(* does not.                                                               *)
(***************************************************************************)
EXTENDS Naturals, FiniteSets, Sequences, Functions

CONSTANTS
    Children,     \* the possible children of the root, in the order they are listed
    MaxEntries    \* Config.scan.browseMaxEntries

Child == Range(Children)
Root == "/"

\* Every path without a slash, which is no path of the volume: names hold
\* none, so that no second line can spell another.
Elsewhere == "elsewhere"

ASSUME ProbeOptions ==
    /\ MaxEntries \in Nat \ {0}
    /\ Children \in Seq(Child) /\ \A i, j \in DOMAIN Children : Children[i] = Children[j] => i = j
    /\ Root \notin Child /\ Elsewhere \notin Child

VARIABLES
    tree,         \* tree[c]: the child c: its kind, what is in it, whether this process may read it
    cutTo,        \* cutTo[c]: c's name up to its first newline, c itself if it has none
    second,       \* second[c]: what the parser takes the rest of c's name for
    target,       \* is the daemon local, the walk allowed, the mountpoint readable here
    request,      \* to "measure" the root or to "list" a path
    stage,        \* "new", "probing", "walking" or "done"
    left,         \* what the script has yet to print
    parsed,       \* what the parser makes of the lines that arrived
    whole,        \* FALSE once du was killed inside the sidecar
    walk,         \* the walk under way
    answer        \* the verdict, with the measurement or listing if there is one

world == <<tree, cutTo, second, target, request>>
probeVars == <<world, stage, left, parsed, whole, walk, answer>>

-----------------------------------------------------------------------------
(* The volume                                                              *)

Missing == [kind |-> "none", inner |-> {}, open |-> TRUE]
Inner == <<"file", "linked">>
Entry ==
    {Missing} \cup [kind : {"file", "linked", "symlink"}, inner : {{}}, open : {TRUE}]
    \cup [kind : {"dir"}, inner : SUBSET Range(Inner), open : BOOLEAN]

\* All hard links of the volume lead to one inode of two blocks; every other
\* inode has one block.  Symlinks have none, and lead out of the volume.
Shared == <<"shared">>
Blocks(inodes) == Cardinality(inodes) + Cardinality(inodes \cap {Shared})
FileInode(kind, path) == IF kind = "linked" THEN Shared ELSE path

InodesUnder(c) ==
    CASE tree[c].kind = "dir" -> {<<c, "dir">>} \cup {FileInode(k, <<c, k>>) : k \in tree[c].inner}
      [] tree[c].kind \in {"file", "linked"} -> {FileInode(tree[c].kind, <<c, "file">>)}
      [] OTHER -> {}
Inodes(path, x) == IF path = Root THEN InodesUnder(x) ELSE {FileInode(x, <<path, x>>)}

\* The elements of a sequence at some of its indexes, in their order.
Nth(S, k) == CHOOSE i \in S : Cardinality({j \in S : j < i}) = k - 1
At(S, s) == [k \in 1 .. Cardinality(S) |-> s[Nth(S, k)]]

Items(path) ==
    IF path = Root THEN At({i \in DOMAIN Children : tree[Children[i]].kind # "none"}, Children)
    ELSE At({i \in DOMAIN Inner : Inner[i] \in tree[path].inner}, Inner)
Kind(path, x) == IF path = Root THEN tree[x].kind ELSE x
Volume == {<<Root, "dir">>} \cup UNION {InodesUnder(c) : c \in Child}
Under(path) == IF path = Root THEN Volume ELSE InodesUnder(path)

\* The regular files and the directories of a child, the root not among them.
FilesIn(c) ==
    CASE tree[c].kind = "dir" -> {<<c, k>> : k \in tree[c].inner}
      [] tree[c].kind \in {"file", "linked"} -> {<<c, "file">>}
      [] OTHER -> {}
DirsIn(c) == IF tree[c].kind = "dir" THEN {<<c, "dir">>} ELSE {}
Files == UNION {FilesIn(c) : c \in Child}
Dirs == UNION {DirsIn(c) : c \in Child}

\* The lines a name can end with: of no type the parser knows, perhaps
\* beginning with a number, or of any that it does.
Nothing == [type |-> "NONE"]
Tokens == {"OUTSIDE_ROOT", "NOT_A_DIRECTORY", "UNKNOWN"}
SecondLine ==
    [type : {"TEXT", "FILE_COUNT", "DIR_COUNT"}, n : Nat] \cup [type : {"TRUNCATED", "END"}]
    \cup [type : {"BASE"}, path : {Elsewhere}] \cup [type : {"DU"}, path : {Elsewhere}, n : Nat]
    \cup [type : {"STAT"}, path : {Elsewhere}, kind : {"file", "dir", "symlink"}, n : Nat]
    \cup [type : {"ERROR"}, token : Tokens]

\* Where a path leads once its symlinks are resolved.
Resolved(path) ==
    CASE path = Root \/ tree[path].kind = "dir" -> "directory"
      [] path # Root /\ tree[path].kind = "symlink" -> "outside"
      [] OTHER -> "no directory"

Nowhere == [verdict |-> "none"]
NoWalk == [left |-> <<>>, counted |-> {}, entries |-> <<>>, bytes |-> 0, files |-> 0, dirs |-> 0,
           late |-> FALSE, cut |-> FALSE]
NoLines == [base |-> {}, sizes |-> [path \in Child \cup {Root, Elsewhere} |-> 0], stats |-> <<>>,
            files |-> 0, dirs |-> 0, truncated |-> FALSE, error |-> "none", completed |-> FALSE]

ProbeInit ==
    /\ tree \in [Child -> Entry]
    /\ cutTo \in {[c \in Child |-> IF c = b THEN a ELSE c] : a, b \in Child}
    /\ second \in [Child -> SecondLine]
    /\ target \in [local : BOOLEAN, allowed : BOOLEAN, readable : BOOLEAN]
    /\ request \in [mode : {"measure"}, path : {Root}]
                  \cup [mode : {"list"}, path : {Root} \cup {c \in Child : cutTo[c] = c}]
    /\ stage = "new" /\ left = <<>> /\ parsed = NoLines /\ whole = TRUE
    /\ walk = NoWalk /\ answer = Nowhere

Reject(verdict) == stage' = "done" /\ answer' = [verdict |-> verdict]

-----------------------------------------------------------------------------
(* The script                                                              *)

Capped(items) == SubSeq(items, 1, IF Len(items) < MaxEntries THEN Len(items) ELSE MaxEntries)
CutName(path, x) == IF path = Root THEN cutTo[x] ELSE x

\* What follows a record that ends with the name of x.  awk makes a record
\* of du's second line, with whatever number that line begins with.
TwoLines(path, x) == path = Root /\ cutTo[x] # x
AfterName(path, x) == IF TwoLines(path, x) THEN second[x] ELSE Nothing
AfterSize(path, x) ==
    IF TwoLines(path, x)
    THEN [type |-> "DU", path |-> Elsewhere, n |-> IF second[x].type = "TEXT" THEN second[x].n ELSE 0]
    ELSE Nothing

\* du counts an inode where it meets it first.
FirstMet(path, i) ==
    Inodes(path, Items(path)[i]) \ UNION {Inodes(path, Items(path)[j]) : j \in 1 .. i - 1}

\* One line of du for every directory, the base last.
DuLines(path) ==
    LET items == Items(path)
        dirs == {i \in DOMAIN items : Kind(path, items[i]) = "dir"}
    IN  [k \in 1 .. Cardinality(dirs) |->
            [type |-> "DU", path |-> CutName(path, items[Nth(dirs, k)]),
             n |-> Blocks(FirstMet(path, Nth(dirs, k))),
             more |-> AfterSize(path, items[Nth(dirs, k)])]]
        \o <<[type |-> "DU", path |-> path, n |-> Blocks(Under(path)), more |-> Nothing]>>

StatLines(path) ==
    LET items == Capped(Items(path))
    IN  [i \in 1 .. Len(items) |->
            [type |-> "STAT", path |-> CutName(path, items[i]), kind |-> Kind(path, items[i]),
             n |-> IF Kind(path, items[i]) = "dir" THEN 0 ELSE Blocks(Inodes(path, items[i])),
             more |-> AfterName(path, items[i])]]

\* find | wc -l: a newline in a name makes two lines of every path under it.
LineCount(paths) == Cardinality(paths) + Cardinality({p \in paths : cutTo[p[1]] # p[1]})
CountLines ==
    <<[type |-> "FILE_COUNT", n |-> LineCount(Files), more |-> Nothing],
      [type |-> "DIR_COUNT", n |-> 1 + LineCount(Dirs), more |-> Nothing]>>

End == <<[type |-> "END", more |-> Nothing]>>
Refusal(token) == <<[type |-> "ERROR", token |-> token, more |-> Nothing]>> \o End

Script(mode, path) ==
    CASE Resolved(path) = "no directory" -> Refusal("NOT_A_DIRECTORY")
      [] Resolved(path) = "outside" -> Refusal("OUTSIDE_ROOT")
      [] OTHER -> <<[type |-> "BASE", path |-> path, more |-> Nothing]>> \o DuLines(path) \o StatLines(path)
                  \o (IF Len(Items(path)) > MaxEntries
                      THEN <<[type |-> "TRUNCATED", more |-> Nothing]>> ELSE <<>>)
                  \o (IF mode = "measure" THEN CountLines ELSE <<>>) \o End

\* du or the awk behind it is killed; the script goes on.
DuDies ==
    /\ stage = "probing" /\ left # <<>> /\ Head(left).type = "DU"
    /\ \E k \in DOMAIN left :
            /\ left[k].type # "DU" /\ \A i \in 1 .. k - 1 : left[i].type = "DU"
            /\ left' = SubSeq(left, k, Len(left))
    /\ whole' = FALSE
    /\ UNCHANGED <<world, stage, parsed, walk, answer>>

\* The container is killed, or the rest of its log is lost.
ProbeDies ==
    /\ stage = "probing" /\ left # <<>>
    /\ left' = <<>>
    /\ UNCHANGED <<world, stage, parsed, whole, walk, answer>>

-----------------------------------------------------------------------------
(* The parser                                                              *)

\* What one line adds.  A later line for the same path, or of the same type,
\* wins; a line that is none of these is dropped.
Parse(p, line) ==
    CASE line.type = "BASE" -> [p EXCEPT !.base = {line.path}]
      [] line.type = "DU" -> [p EXCEPT !.sizes = [@ EXCEPT ![line.path] = line.n]]
      [] line.type = "STAT" -> [p EXCEPT !.stats = Append(@, line)]
      [] line.type = "FILE_COUNT" -> [p EXCEPT !.files = line.n]
      [] line.type = "DIR_COUNT" -> [p EXCEPT !.dirs = line.n]
      [] line.type = "TRUNCATED" -> [p EXCEPT !.truncated = TRUE]
      [] line.type = "ERROR" -> [p EXCEPT !.error = line.token]
      [] line.type = "END" -> [p EXCEPT !.completed = TRUE]
      [] OTHER -> p

\* The next record arrives, and what follows the name in it.  A stream that
\* ends between the two is as good as one that ends before them.
PrintLine ==
    /\ stage = "probing" /\ left # <<>>
    /\ parsed' = Parse(Parse(parsed, Head(left)), Head(left).more) /\ left' = Tail(left)
    /\ UNCHANGED <<world, stage, whole, walk, answer>>

\* directorySizes, which has nothing of a path that was not printed.
Outcome ==
    [verdict |-> "ok", by |-> "sidecar",
     total |-> IF parsed.base = {} THEN 0 ELSE parsed.sizes[CHOOSE base \in parsed.base : TRUE],
     files |-> parsed.files,
     dirs |-> IF parsed.dirs = 0 THEN 0 ELSE parsed.dirs - 1,
     entries |-> [i \in DOMAIN parsed.stats |->
                    LET stat == parsed.stats[i]
                    IN  <<stat.path, IF stat.kind = "dir" THEN parsed.sizes[stat.path] ELSE stat.n>>],
     truncated |-> parsed.truncated]

\* _probe: what the lines amount to.
ProbeVerdict ==
    /\ stage = "probing" /\ left = <<>>
    /\ CASE parsed.error = "OUTSIDE_ROOT" -> Reject("PATH_TRAVERSAL")
         [] parsed.error = "NOT_A_DIRECTORY" -> Reject("PATH_NOT_FOUND")
         [] OTHER -> IF parsed.completed THEN stage' = "done" /\ answer' = Outcome
                     ELSE Reject("SCAN_FAILED")
    /\ UNCHANGED <<world, left, parsed, whole, walk>>

-----------------------------------------------------------------------------
(* The walk in this process                                                *)

\* readdir of the directory asked for, after the path was resolved.
StartWalk ==
    LET path == request.path
        readable == path = Root \/ tree[path].open
    IN  CASE request.mode = "list" /\ Resolved(path) = "outside" ->
                Reject("PATH_TRAVERSAL") /\ UNCHANGED walk
          [] request.mode = "list" /\ Resolved(path) = "no directory" ->
                Reject("PATH_NOT_FOUND") /\ UNCHANGED walk
          [] Resolved(path) = "directory" /\ ~ readable -> Reject("SCAN_FAILED") /\ UNCHANGED walk
          [] OTHER -> /\ stage' = "walking" /\ answer' = answer
                      /\ walk' = [NoWalk EXCEPT !.left = Capped(Items(path))]

\* Mutant: every link of a file counts.
NewInodesEveryLink(x) == Inodes(request.path, x)

\* _countFileBytes: an inode with several links counts once.
NewInodes(x) == Inodes(request.path, x) \ walk.counted

\* One entry: its size, what it adds to the counts, whether it was cut short.
\* measure() adds the sizes up in the end.
Visit(x, size, inodes, files, dirs, cut) ==
    walk' = [walk EXCEPT !.left = Tail(@), !.entries = Append(@, <<x, size>>), !.bytes = @ + size,
                         !.counted = @ \cup (inodes \cap {Shared}),
                         !.files = @ + files, !.dirs = @ + dirs, !.cut = @ \/ cut]

WalkDirectory ==
    LET x == Head(walk.left) IN
    /\ stage = "walking" /\ walk.left # <<>> /\ Kind(request.path, x) = "dir"
    /\ IF walk.late \/ ~ tree[x].open
       THEN Visit(x, 0, {}, 0, 1, TRUE)
       ELSE Visit(x, Blocks(NewInodes(x)), Inodes(request.path, x), Cardinality(FilesIn(x)), 1, FALSE)
    /\ UNCHANGED <<world, stage, left, parsed, whole, answer>>

WalkOther ==
    LET x == Head(walk.left) IN
    /\ stage = "walking" /\ walk.left # <<>> /\ Kind(request.path, x) # "dir"
    /\ Visit(x, Blocks(NewInodes(x)), Inodes(request.path, x),
             IF Kind(request.path, x) = "symlink" THEN 0 ELSE 1, 0, FALSE)
    /\ UNCHANGED <<world, stage, left, parsed, whole, answer>>

\* lstat fails: the entry was removed since the directory was read.
Vanished ==
    /\ stage = "walking" /\ walk.left # <<>>
    /\ Visit(Head(walk.left), 0, {}, 0, 0, TRUE)
    /\ UNCHANGED <<world, stage, left, parsed, whole, answer>>

\* SCAN_TIMEOUT_MS is over.
DeadlinePasses ==
    /\ stage = "walking" /\ ~ walk.late
    /\ walk' = [walk EXCEPT !.late = TRUE]
    /\ UNCHANGED <<world, stage, left, parsed, whole, answer>>

FinishWalk ==
    /\ stage = "walking" /\ walk.left = <<>>
    /\ stage' = "done"
    /\ answer' = [verdict |-> "ok", by |-> "walk",
                  total |-> 1 + walk.bytes,
                  files |-> walk.files, dirs |-> walk.dirs, entries |-> walk.entries,
                  truncated |-> walk.cut \/ Len(Items(request.path)) > MaxEntries]
    /\ UNCHANGED <<world, left, parsed, whole, walk>>

-----------------------------------------------------------------------------
(* The choice                                                              *)

\* Mutant: the mountpoint decides.
WalkUsableIfReadable == target.allowed /\ target.readable

\* _strategiesFor and isUsable: another machine's mountpoint may exist here too.
WalkUsable == target.local /\ target.allowed /\ target.readable

ResolveStrategy ==
    /\ stage = "new"
    /\ IF WalkUsable
       THEN StartWalk /\ left' = left
       ELSE /\ stage' = "probing" /\ left' = Script(request.mode, request.path)
            /\ UNCHANGED <<walk, answer>>
    /\ UNCHANGED <<world, parsed, whole>>

ProbeNext ==
    \/ ResolveStrategy
    \/ PrintLine \/ DuDies \/ ProbeDies \/ ProbeVerdict
    \/ WalkDirectory \/ WalkOther \/ Vanished \/ DeadlinePasses \/ FinishWalk

ProbeSpec == ProbeInit /\ [][ProbeNext]_probeVars

-----------------------------------------------------------------------------
(* Properties                                                              *)

Answered == answer.verdict = "ok"
OneLinePerName == \A c \in Child : tree[c].kind # "none" => cutTo[c] = c

\* The second line of a name among those asked for reads as a record.
Says(type) ==
    request.path = Root /\ \E c \in Child : tree[c].kind # "none" /\ cutTo[c] # c /\ second[c].type = type

ProbeTypeOK ==
    /\ tree \in [Child -> Entry] /\ cutTo \in [Child -> Child] /\ second \in [Child -> SecondLine]
    /\ stage \in {"new", "probing", "walking", "done"} /\ {whole, walk.late, walk.cut} \subseteq BOOLEAN
    /\ answer.verdict \in {"none", "ok", "PATH_TRAVERSAL", "PATH_NOT_FOUND", "SCAN_FAILED"}

\* What is listed is a directory of the volume, whoever listed it and
\* whatever names it found there.  A path that leads out of the volume, or
\* to no directory, is refused for that reason, unless the probe was
\* killed; one that does neither is never refused for it, unless the name
\* of a child ends with a line that reads as an error.
ListsOnlyInside ==
    /\ Answered => Resolved(request.path) = "directory"
    /\ answer.verdict = "PATH_TRAVERSAL" => Resolved(request.path) = "outside" \/ Says("ERROR")
    /\ answer.verdict = "PATH_NOT_FOUND" => Resolved(request.path) = "no directory" \/ Says("ERROR")

\* Bytes of this machine are never taken for those of another.
ReadsItsOwnMachine == Answered /\ answer.by = "walk" => target.local

ProbeInv == ProbeTypeOK /\ ListsOnlyInside /\ ReadsItsOwnMachine

\* Hard links, entry caps, closed directories, vanished files and deadlines
\* notwithstanding: a measurement never exceeds what is there, one that is
\* not flagged is exact, and one whose entries were capped is flagged.  The
\* sidecar's total is exact even then, as long as du ran to its end.  Names
\* of two lines take from the sidecar what they can reach, and nothing else:
\* its counts, which are lines; its total, if the line names another base;
\* its flag, if the line is an END and the probe is killed after it.  The
\* walk does not mind them.
WholeUnlessFlagged ==
    Answered /\ request.mode = "measure" =>
        /\ answer.by = "walk" \/ ~ Says("BASE") => answer.total <= Blocks(Volume)
        /\ answer.by = "walk" \/ ~ Says("END") => (Len(Items(Root)) > MaxEntries => answer.truncated)
        /\ answer.by = "sidecar" /\ whole /\ ~ Says("BASE") => answer.total = Blocks(Volume)
        /\ answer.by = "walk" /\ ~ answer.truncated => answer.total = Blocks(Volume)
        /\ \/ answer.by = "sidecar" /\ OneLinePerName
           \/ answer.by = "walk" /\ ~ answer.truncated
           => /\ answer.files = Cardinality(Files)
              /\ answer.dirs = Cardinality(Dirs)
=============================================================================
