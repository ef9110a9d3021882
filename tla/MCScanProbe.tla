---------------------------- MODULE MCScanProbe -----------------------------
(* The instance of ScanProbe for TLC: a root with up to three children, of *)
(* which two are listed; the name of one may begin like another's and go   *)
(* on with a line of any type.                                             *)
EXTENDS ScanProbe, SequencesExt

Names == <<"a", "b", "c">>
Numbers == {0, 3}

\* A line of each type, with the numbers that matter.
Lines ==
    [type : {"TEXT"}, n : Numbers] \cup [type : {"FILE_COUNT", "DIR_COUNT"}, n : {3}]
    \cup [type : {"TRUNCATED", "END"}] \cup [type : {"BASE"}, path : {Elsewhere}]
    \cup [type : {"DU"}, path : {Elsewhere}, n : {3}]
    \cup [type : {"STAT"}, path : {Elsewhere}, kind : {"dir"}, n : {3}]
    \cup [type : {"ERROR"}, token : Tokens]

\* Bounds: one strange name, and of the targets the usable one and those one
\* condition short of it.
MCInit ==
    /\ \E line \in Lines : second = [c \in Child |-> line]
    /\ cutTo \in {[c \in Child |-> c], [c \in Child |-> IF c = "b" THEN "a" ELSE c]}
    /\ cutTo["b"] = "b" => second["b"].type = "TEXT" /\ second["b"].n = 0
    /\ target \in [local : BOOLEAN, allowed : BOOLEAN, readable : BOOLEAN]
    /\ Cardinality({k \in DOMAIN target : target[k]}) >= 2
    /\ ProbeInit
MCSpec == MCInit /\ [][ProbeNext]_probeVars

-----------------------------------------------------------------------------
(* What one name does to a measurement                                     *)

Stream(more) ==
    <<[type |-> "BASE", path |-> Root, more |-> Nothing],
      [type |-> "DU", path |-> Root, n |-> 3, more |-> Nothing],
      [type |-> "STAT", path |-> "a", kind |-> "file", n |-> 2, more |-> more]>> \o End

\* directorySizes at the base of a stream that is parsed to its end.
TotalOf(lines) ==
    LET p == FoldLeft(LAMBDA q, line : Parse(Parse(q, line), line.more), NoLines, lines)
    IN  p.sizes[CHOOSE base \in p.base : TRUE]

\* "Filenames containing newlines will yield one unparseable record, which the
\* parser drops, rather than corrupting the totals" (scan.script.ts:18-20): it
\* does, unless the second line of the name reads as BASE (scan.parser.ts:77).
\* Then the total is that of a path du never printed.
ASSUME ANameCanHideTheTotal ==
    /\ \A line \in {l \in Lines : l.type # "BASE"} : TotalOf(Stream(line)) = 3
    /\ TotalOf(Stream([type |-> "BASE", path |-> Elsewhere])) = 0
=============================================================================
