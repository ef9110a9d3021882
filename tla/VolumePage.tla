----------------------------- MODULE VolumePage -----------------------------
(***************************************************************************)
(* The page of one volume and its row in the list: the measurement that is *)
(* submitted and polled, the typed confirmation of a removal, the browser  *)
(* of directories, the bars and the chart.  Each operator is one event or  *)
(* one thing shown; ClientChecks strings the events together.              *)
(*                                                                         *)
(* A value that may be null is the set of it; a path is a sequence of      *)
(* segments; a share is in percent, rounded down where the code keeps a    *)
(* fraction.                                                               *)
(***************************************************************************)
EXTENDS Integers, Sequences, FiniteSets, SequencesExt, FiniteSetsExt

-----------------------------------------------------------------------------
(* useScan.  id: the job being followed; job: what is known of it; done:   *)
(* settledRef; refreshed: how often the caches were discarded.             *)

IsSettled(state) == state \in {"SUCCEEDED", "FAILED", "CANCELLED"}

NoScan == [pending |-> FALSE, id |-> {}, job |-> {}, done |-> FALSE, error |-> {}, refreshed |-> 0]

\* From the submission until the job is settled.
IsRunning(s) ==
    s.pending \/ (s.id # {} /\ \A state \in s.job : ~IsSettled(state))

\* The button is disabled while the scan is running.
Start(s) == IF IsRunning(s) THEN s ELSE [s EXCEPT !.pending = TRUE, !.error = {}]
Accepted(s, id) ==
    IF ~s.pending THEN s
    ELSE [s EXCEPT !.pending = FALSE, !.done = FALSE, !.id = {id},
                   !.job = IF s.id = {id} THEN @ ELSE {}]
Refused(s) == IF s.pending THEN [s EXCEPT !.pending = FALSE, !.error = {"refused"}] ELSE s

\* The job is asked for until it is settled; the effect that follows its
\* settling discards the caches once.
Polls(s) == s.id # {} /\ \A state \in s.job : ~IsSettled(state)
Answered(s, state) ==
    IF ~Polls(s) THEN s
    ELSE [s EXCEPT !.job = {state}, !.done = @ \/ IsSettled(state),
                   !.refreshed = IF IsSettled(state) /\ ~s.done THEN @ + 1 ELSE @]

\* A poll that is answered with an error keeps what was known.
Unanswered(s) == s

ScanError(s) == IF s.job = {"FAILED"} THEN {"failed"} ELSE s.error

\* SizeCell: a volume without a size offers the measurement.
SizeCell(size, freshness, s) ==
    CASE size = {} /\ IsRunning(s) -> [shows |-> "measuring"]
      [] size = {} /\ ~IsRunning(s) -> [shows |-> "measure"]
      [] OTHER -> [shows |-> "size", stale |-> freshness = "STALE"]

-----------------------------------------------------------------------------
(* The dialog that removes a volume.                                       *)

NoDialog == [open |-> FALSE, typed |-> "", pending |-> FALSE, left |-> FALSE]

Opened(d) == [d EXCEPT !.open = TRUE]
\* Escape, the backdrop: Dialog.onOpenChange.  Cancel: the prop alone.
Dismissed(d) == [d EXCEPT !.open = FALSE, !.typed = ""]
Cancelled(d) == IF d.pending THEN d ELSE [d EXCEPT !.open = FALSE]
Typed(d, text) == IF d.open THEN [d EXCEPT !.typed = text] ELSE d

Sends(d, name) == d.open /\ d.typed = name /\ ~d.pending
Submitted(d, name) == IF Sends(d, name) THEN [d EXCEPT !.pending = TRUE] ELSE d
\* onDeleted leaves for the list, wherever the user has gone meanwhile.
Settled(d, succeeded) ==
    IF d.pending THEN [d EXCEPT !.pending = FALSE, !.left = @ \/ succeeded] ELSE d

-----------------------------------------------------------------------------
(* The row.                                                                *)

\* ConsumerCell: the first by name, the others by their number.
ConsumerCell(consumers) ==
    IF consumers = <<>> THEN [first |-> {}, more |-> 0]
    ELSE [first |-> {Head(consumers)}, more |-> Len(consumers) - 1]

-----------------------------------------------------------------------------
(* The browser of directories.                                             *)

Crumbs(path) == [i \in DOMAIN path |-> SubSeq(path, 1, i)]
\* "Up" is there once a listing is, unless it is the root's.
Up(listing) == UNION {l.parent : l \in listing}
Largest(sizes) == Max(sizes \cup {1})
RowShare(size, sizes) == Max({0, Min({100, (100 * size) \div Largest(sizes)})})

\* Composition: the largest entries as bars, the first of the list.
Shown(entries, limit) == SubSeq(entries, 1, Min({limit, Len(entries)}))
Hidden(entries, limit) == Len(entries) - Len(Shown(entries, limit))
BarWidth(size, shown) == Max({1, (100 * size) \div Largest(ToSet(shown))})
ShareOfTotal(size, entries) ==
    LET sum == FoldLeft(LAMBDA a, b : a + b, 0, entries)
        total == IF sum = 0 THEN 1 ELSE sum
    IN (200 * size + total) \div (2 * total)

-----------------------------------------------------------------------------
(* The chart: points from the left edge to the right, the least size at    *)
(* the bottom and the greatest at the top, within a margin.                *)

MinPointsForTrend == 2
Project(sizes, view) ==
    LET least == Min(ToSet(sizes))
        span == Max(ToSet(sizes)) - least
        usable == view.height - 2 * view.padY
    IN [i \in DOMAIN sizes |->
          [x |-> ((i - 1) * view.width) \div (Len(sizes) - 1),
           y |-> view.height - view.padY
                   - (IF span = 0 THEN usable \div 2 ELSE ((sizes[i] - least) * usable) \div span)]]

Chart(sizes, view) == IF Len(sizes) < MinPointsForTrend THEN <<>> ELSE Project(sizes, view)

Distance(a, b) == IF a < b THEN b - a ELSE a - b
\* handleMove: the first of the nearest points.
Nearest(points, x) ==
    FoldLeft(LAMBDA best, i : IF Distance(points[i].x, x) < Distance(points[best].x, x)
                              THEN i ELSE best,
             1, [i \in DOMAIN points |-> i])

-----------------------------------------------------------------------------
(* The chrome around the page.                                             *)

\* DaemonStatus: the host on screen, not an aggregate.  report: {} before
\* the first one, else a function from hosts to what they answered.
DaemonStatus(failed, report, h) ==
    CASE failed -> "API unreachable"
      [] ~failed /\ report = {} -> "loading"
      [] OTHER -> LET r == CHOOSE r \in report : TRUE
                  IN CASE h \notin DOMAIN r -> "no longer registered"
                       [] h \in DOMAIN r /\ r[h] -> "Docker"
                       [] OTHER -> "unreachable"

\* ReachabilityDot.
Dot(host) == CASE ~host.enabled -> "Disabled"
               [] host.enabled /\ host.reachable -> "Reachable"
               [] OTHER -> "Unreachable"
=============================================================================
