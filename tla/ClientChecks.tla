---------------------------- MODULE ClientChecks ----------------------------
(* Checks of the operators the client is made of, over small inputs; TLC   *)
(* evaluates them before a run whose module extends this one.              *)
EXTENDS Naturals, Sequences, FiniteSets, SequencesExt, FiniteSetsExt

Routes == INSTANCE ApiRoutes
Forms == INSTANCE HostForms
Page == INSTANCE VolumePage
Queries == INSTANCE VolumeQueries

\* Names that are also segments of the API.
OddNames == {"test", "trust", "system", "summary", "volumes", "hosts", "health", "jobs",
             "entries", "growth", "scans", "local", "v1", "db"}

\* Every call of the client reaches its own handler, on the host and with
\* the name it was made for, whatever the host and the volume are called.
ASSUME CallsReachTheirHandler ==
    \A h \in OddNames, v \in OddNames :
        /\ \A e \in DOMAIN Routes!VolumeApi(h, v) :
             LET got == Routes!Dispatch(Routes!Sent(Routes!VolumeApi(h, v)[e]))
             IN got.route = e /\ got.host = h /\ (e # "volumes" => got.name = v)
        /\ \A e \in DOMAIN Routes!SystemApi(h, v) :
             LET got == Routes!Dispatch(Routes!Sent(Routes!SystemApi(h, v)[e]))
             IN /\ got.route = e
                /\ e = "summary" => got.host = h
                /\ e = "job" => got.id = v
        /\ \A e \in DOMAIN Routes!HostApi(h) :
             LET got == Routes!Dispatch(Routes!Sent(Routes!HostApi(h)[e]))
             IN got.route = e /\ (e \notin {"hosts", "createHost"} => got.host = h)

\* No path without a host in it reaches another machine than this one.
ASSUME AliasesAreLocal ==
    \A rest \in UNION {[1..n -> OddNames \ {"hosts"}] : n \in 1..3},
       method \in {"GET", "POST", "DELETE"} :
        Routes!Dispatch([method |-> method, path |-> Routes!Prefix \o rest]).host = "local"

\* A page is about the host its URL names, and the pages without one are
\* about this machine.
ASSUME PagesNameTheirHost ==
    /\ \A h, v \in OddNames : /\ Routes!HostIdOf(Routes!DashboardPage(h)) = h
                              /\ Routes!HostIdOf(Routes!VolumePage(h, v)) = h
    /\ \A p \in {<<>>, <<"settings">>, <<"hosts">>} : Routes!HostIdOf(p) = "local"

\* A scan or a removal discards everything of its own volume but the
\* directory listings, and nothing of another host or of another volume's
\* page, although both have a volume of that name; a change of a host
\* discards no host's volumes, the ones of its old address included.
ASSUME DiscardsStayOnTheHost ==
    \A h, g, v, w \in {"local", "db"}, after \in {"scan", "delete"} :
        LET prefixes == IF after = "scan" THEN Routes!AfterScan(h, v) ELSE Routes!AfterDelete(h, v)
            Gone(key) == Routes!Discarded(key, prefixes)
        IN /\ Gone(Routes!VolumesKey(g, "any")) <=> g = h
           /\ Gone(Routes!SummaryKey(g)) <=> g = h
           /\ Gone(Routes!VolumeKey(g, w)) <=> g = h /\ w = v
           /\ ~Gone(Routes!EntriesKey(g, w, "/"))
           /\ \A k \in Routes!HostKeys : ~Gone(k) /\ Routes!Discarded(k, Routes!AfterHostChange)
           /\ ~Routes!Discarded(Routes!VolumesKey(g, "any"), Routes!AfterHostChange)

-----------------------------------------------------------------------------
(* Sizes and ages: units of 16 instead of 1024, a day of 4, a month of 12, *)
(* and a year that is no whole number of months, as in the code.           *)

Small == INSTANCE Formats WITH Scales <- <<16 * 16, 16>>, Ages <- <<150, 12, 4>>
Real == INSTANCE Formats WITH Scales <- <<1024 * 1024, 1024>>, Ages <- <<150, 12, 4>>

\* How many tenths of a byte a shown size stands for, given the scales.
Worth(scales, shown) == shown.tenths * (scales \o <<1>>)[shown.unit]

\* A larger size is never shown as a smaller one, a size is shown no further
\* from itself than half of its last digit, and one that is not zero is never
\* shown as zero.
ASSUME SizesKeepTheirOrder ==
    \A b \in 0..5000 :
        LET scales == <<16 * 16, 16>>
            shown == Small!Split(TRUE, b)
            unit == (scales \o <<1>>)[shown.unit]
            error == Worth(scales, shown) - 10 * b
        IN /\ Worth(scales, shown) <= Worth(scales, Small!Split(TRUE, b + 1))
           /\ 2 * error \in (-10 * unit)..(10 * unit)
           /\ b < 10 * unit => 2 * error \in (-unit)..unit
           /\ b > 0 => shown.tenths > 0

\* Rounding does not carry into the next unit or over ten: a size may read
\* "1024 KB", and "10.0 KB" where the next larger one reads "10 KB".
ASSUME RoundingStaysInTheUnit ==
    /\ Real!Split(TRUE, 1024 * 1024 - 1) = [unit |-> 2, tenths |-> 10240]
    /\ Real!Split(TRUE, 10 * 1024 - 1) = [unit |-> 2, tenths |-> 100]

\* A change and its opposite differ in the sign alone.
ASSUME ChangesMirror ==
    \A b \in 1..600 :
        /\ Small!Signed(TRUE, b).size = Small!Signed(TRUE, -b).size
        /\ Small!Signed(TRUE, b).sign = "+" /\ Small!Signed(TRUE, -b).sign = "-"
        /\ Small!Split(TRUE, -b) = Small!Dash

\* An older time never reads as a younger one, and none is in the future.
ASSUME AgesKeepTheirOrder ==
    \A at \in -400..20, now \in {0, 10} :
        LET older == Small!Relative(at - 1, now)
            this == Small!Relative(at, now)
        IN /\ older.unit < this.unit \/ (older.unit = this.unit /\ older.count >= this.count)
           /\ at >= now => this.count = 0
           /\ this.unit <= 3 => this.count >= 1

-----------------------------------------------------------------------------
(* One host's card, and what else happens to the host: someone else moves  *)
(* it to "b" or renames it.  The machine at an address presents the key    *)
(* named like it; a probe of a host with another pin, or none, is refused  *)
(* with that key.                                                          *)

FirstHost == [label |-> "db", readOnly |-> FALSE, fingerprint |-> {},
              ssh |-> {[host |-> "a", port |-> 22, user |-> "u", keyPath |-> {}]}]
FirstCard == [host |-> FirstHost, form |-> Forms!Mounted({FirstHost}), probe |-> {},
              trustedAt |-> {}, typed |-> {}]

AddressOf(host) == (CHOOSE s \in host.ssh : TRUE).host
MovedTo(host, request) ==
    [host EXCEPT !.label = request.label, !.ssh = {request.ssh},
                 !.fingerprint = IF request.ssh.host = AddressOf(host) THEN @ ELSE {}]
Save(c) == [c EXCEPT !.host = MovedTo(@, Forms!Request(c.form.draft)),
                     !.form = Forms!Settled(Forms!Submitted(@), TRUE), !.typed = {}]
FillIn(c, field, text) ==
    IF c.form.open THEN [c EXCEPT !.form = Forms!Typed(@, field, text), !.typed = @ \cup {field}]
    ELSE c

CardEvents == {"pencil", "label", "addr", "blank", "save", "refused", "escape",
               "moved", "test", "trust"}
CardStep(c, e) ==
    CASE e = "pencil" -> [c EXCEPT !.form = Forms!Opened(@)]
      [] e = "escape" -> [c EXCEPT !.form = Forms!Closed(@)]
      [] e = "label" -> FillIn(c, "label", "new")
      [] e = "addr" -> FillIn(c, "host", "b")
      [] e = "blank" -> FillIn(c, "user", " ")
      [] e = "save" -> IF Forms!MaySubmit(c.form) THEN Save(c) ELSE c
      [] e = "refused" -> IF Forms!MaySubmit(c.form)
                          THEN [c EXCEPT !.form = Forms!Settled(Forms!Submitted(@), FALSE)] ELSE c
      [] e = "moved" -> [c EXCEPT !.host = MovedTo(@, Forms!Request(
                                    [Forms!DraftFrom({c.host}) EXCEPT !.host = "b"]))]
      [] e = "test" -> LET key == AddressOf(c.host)
                       IN [c EXCEPT !.probe =
                             {IF c.host.fingerprint = {key}
                              THEN [outcome |-> "OK", fingerprint |-> {}]
                              ELSE [outcome |-> "FINGERPRINT_UNVERIFIED", fingerprint |-> {key}]}]
      [] e = "trust" -> IF Forms!Prompted(c.probe) = {} THEN c
                        ELSE [c EXCEPT !.host.fingerprint = Forms!Prompted(c.probe),
                                       !.trustedAt = {AddressOf(c.host)}]
After(events) == FoldLeft(CardStep, FirstCard, events)

\* Whatever is clicked in whatever order: a pinned key was pinned at the
\* address the host still has, and nothing incomplete is ever saved.
ASSUME PinsStayWithTheirAddress ==
    \A events \in UNION {[1..n -> CardEvents] : n \in 1..5} :
        LET c == After(events)
        IN /\ c.host.fingerprint # {} => c.trustedAt = {AddressOf(c.host)}
           /\ \A s \in c.host.ssh : s.user = "u" /\ s.port = 22 /\ s.keyPath = {}

\* A form that only its label was typed into may still send another address
\* than the host has: the draft is the one of the page's first rendering,
\* or of an earlier opening, whatever was saved since.
ASSUME AReopenedFormIsStale ==
    /\ AddressOf(After(<<"moved", "pencil", "label", "save">>).host) = "a"
    /\ AddressOf(After(<<"pencil", "addr", "escape", "pencil", "label", "save">>).host) = "b"

\* The key of a probe outlives an edit of the address: it can be confirmed
\* for a machine that never presented it, and the next test refuses.
ASSUME AnOldProbeCanBeConfirmed ==
    LET c == After(<<"test", "moved", "trust", "test">>)
    IN c.host.fingerprint = {"a"} /\ AddressOf(c.host) = "b" /\ Forms!Prompted(c.probe) = {"b"}

\* A key just confirmed reads as one that has changed, until the next test:
\* the prompt stays, and tells a rotation by whether any key is pinned.
ASSUME AConfirmedKeyReadsAsChanged ==
    LET c == After(<<"test", "trust">>)
    IN /\ ~Forms!IsRotation(After(<<"test">>).host, After(<<"test">>).probe)
       /\ c.host.fingerprint = Forms!Prompted(c.probe)
       /\ Forms!IsRotation(c.host, c.probe)
       /\ LET d == After(<<"test", "trust", "test">>) IN ~Forms!IsRotation(d.host, d.probe)

\* The status next to a host is the one of the health report, and a host the
\* report does not have yet is not shown as online.
ASSUME ReachabilityIsTheReports ==
    \A enabled \in BOOLEAN, answers \in {"pong", "silent", "throws"} :
        LET host == [enabled |-> enabled]
            report == Queries!Health([h \in {"db"} |-> host], [h \in {"db"} |-> answers])
            health == [h \in {"db"} |-> report.hosts[h] = "ONLINE"]
            shown == Forms!HostsWithStatus([h \in {"db", "new"} |-> host], health)
        IN /\ shown["db"].status = report.hosts["db"]
           /\ shown["new"].status # "ONLINE" /\ Page!Dot(shown["new"]) # "Reachable"
           /\ (Page!Dot(shown["db"]) = "Reachable") <=> (report.hosts["db"] = "ONLINE")
           /\ (Page!DaemonStatus(FALSE, {health}, "db") = "Docker") <=> shown["db"].reachable
           /\ Page!DaemonStatus(FALSE, {health}, "gone") = "no longer registered"
           /\ ~enabled => Page!DaemonStatus(FALSE, {health}, "db") = "unreachable"
           /\ Forms!CurrentHost(shown, "db") = {shown["db"]} /\ Forms!CurrentHost(shown, "gone") = {}

-----------------------------------------------------------------------------
(* The page of a volume: events of a measurement and of a removal in any   *)
(* order.                                                                  *)

ScanEvents == {"start", "j1", "j2", "refused", "RUNNING", "SUCCEEDED", "FAILED", "gone"}
ScanStep(s, e) ==
    CASE e = "start" -> Page!Start(s)
      [] e \in {"j1", "j2"} -> Page!Accepted(s, e)
      [] e = "refused" -> Page!Refused(s)
      [] e = "gone" -> Page!Unanswered(s)
      [] OTHER -> Page!Answered(s, e)
Scanned(events) == FoldLeft(ScanStep, Page!NoScan, events)

\* Every job that is seen settled discards the caches, once: not for each
\* poll, and again for the next job, also one that starts over from a failed
\* one; and what is polled is running.
ASSUME EveryJobRefreshesOnce ==
    \A events \in UNION {[1..n -> ScanEvents \ {"refused", "gone", "RUNNING"}] : n \in 1..6}
                  \cup [1..4 -> ScanEvents] :
        LET At(i) == Scanned(SubSeq(events, 1, i))
            settled == {i \in DOMAIN events : /\ events[i] \in {"SUCCEEDED", "FAILED"}
                                              /\ Page!Polls(At(i - 1))}
            s == At(Len(events))
        IN /\ s.refreshed = Cardinality(settled)
           /\ Page!Polls(s) => Page!IsRunning(s)

\* A job that was forgotten by the server, as by its restart, is polled for
\* good, and the button stays "Measuring".
ASSUME AForgottenJobRunsOn ==
    LET s == Scanned(<<"start", "j1", "RUNNING", "gone", "gone", "start">>)
    IN Page!IsRunning(s) /\ Page!Polls(s) /\ s.refreshed = 0 /\ Page!ScanError(s) = {}

\* A row without a size offers exactly the measurements that do not run.
ASSUME TheRowOffersWhatIsIdle ==
    \A events \in UNION {[1..n -> ScanEvents] : n \in 1..4} :
        LET s == Scanned(events)
        IN (Page!SizeCell({}, "UNKNOWN", s).shows = "measure") <=> (Page!Start(s) # s)

DialogEvents == {"open", "name", "other", "cancel", "escape", "enter", "ok", "failed"}
DialogStep(x, e) ==
    LET d == x.d
        next == CASE e = "open" -> Page!Opened(d)
                  [] e = "name" -> Page!Typed(d, "db")
                  [] e = "other" -> Page!Typed(d, "db2")
                  [] e = "cancel" -> Page!Cancelled(d)
                  [] e = "escape" -> Page!Dismissed(d)
                  [] e = "enter" -> Page!Submitted(d, "db")
                  [] e = "ok" -> Page!Settled(d, TRUE)
                  [] e = "failed" -> Page!Settled(d, FALSE)
    IN [d |-> next, sent |-> IF next.pending /\ ~d.pending THEN x.sent + 1 ELSE x.sent,
        answered |-> IF d.pending /\ e \in {"ok", "failed"} THEN x.answered + 1 ELSE x.answered,
        blind |-> x.blind \/ (next.pending /\ ~d.pending /\ d.typed # "db")]
Removed(events) ==
    FoldLeft(DialogStep, [d |-> Page!NoDialog, sent |-> 0, answered |-> 0, blind |-> FALSE], events)

\* A removal is never sent without the name in the field, and never twice at
\* a time; the page is left only after one succeeded.
ASSUME RemovalsAreTyped ==
    \A events \in UNION {[1..n -> DialogEvents] : n \in 1..5} :
        LET x == Removed(events)
        IN /\ ~x.blind /\ x.sent - x.answered = (IF x.d.pending THEN 1 ELSE 0)
           /\ x.d.left => x.answered > 0 /\ "name" \in ToSet(events)

\* Cancel, unlike Escape, keeps the name for the next opening, where Enter
\* is enough; and a removal goes on when the dialog is dismissed, and then
\* takes the user away from wherever they are.
ASSUME CancelKeepsTheName ==
    /\ Removed(<<"open", "name", "cancel", "open", "enter">>).sent = 1
    /\ Removed(<<"open", "name", "escape", "open", "enter">>).sent = 0
    /\ Removed(<<"open", "name", "enter", "escape", "ok">>).d.left

-----------------------------------------------------------------------------
\* The consumer a row names is running if any of them is, and the ones it
\* does not name are counted.
ASSUME TheRowNamesALiveConsumer ==
    \A lives \in UNION {[1..n -> BOOLEAN] : n \in 0..3} :
        LET containers == [i \in DOMAIN lives |-> [name |-> i, live |-> lives[i], mounts |-> <<"v">>]]
            consumers == Queries!Consumers(containers, "v")
            cell == Page!ConsumerCell(consumers)
        IN /\ Cardinality(cell.first) + cell.more = Len(lives)
           /\ \A c \in cell.first : c.live <=> \E i \in DOMAIN lives : lives[i]

\* The crumbs of a directory and "Up" agree with each other and with the
\* server's reading of the path each of them asks for.
ASSUME CrumbsLeadBack ==
    \A path \in UNION {[1..n -> {"a", "b"}] : n \in 0..3} :
        LET listing == Queries!Browse(path, {})
            crumbs == Page!Crumbs(path)
        IN /\ listing.path = path
           /\ \A i \in DOMAIN crumbs : Queries!Normalize(crumbs[i]) = crumbs[i]
           /\ path # <<>> => /\ crumbs[Len(crumbs)] = path
                             /\ Page!Up({[parent |-> {listing.parent}]})
                                  = {IF Len(path) = 1 THEN <<>> ELSE crumbs[Len(path) - 1]}

\* Bars fit, are never missing and keep the order of the sizes; the rows of
\* a directory have one full bar, unless all are empty; and nothing that is
\* left out is uncounted.
ASSUME BarsKeepTheOrder ==
    \A sizes \in UNION {[1..n -> {0, 1, 2, 300}] : n \in 1..4} :
        LET shown == Page!Shown(sizes, 3)
        IN /\ Len(shown) + Page!Hidden(sizes, 3) = Len(sizes)
           /\ \A i, j \in DOMAIN sizes :
                LET Bar(k) == Page!RowShare(sizes[k], ToSet(sizes))
                IN /\ Bar(i) \in 0..100 /\ (sizes[i] <= sizes[j] => Bar(i) <= Bar(j))
                   /\ sizes[i] = Max(ToSet(sizes) \cup {1}) => Bar(i) = 100
           /\ \A i \in DOMAIN shown : /\ Page!BarWidth(shown[i], shown) \in 1..100
                                       /\ Page!ShareOfTotal(shown[i], sizes) \in 0..100

\* The chart stays within its margins, a larger size is never drawn lower,
\* and the pointer on a sample reads that sample.
View == [width |-> 60, height |-> 40, padY |-> 5]
ASSUME TheChartIsReadable ==
    \A sizes \in UNION {[1..n -> {0, 3, 5, 9}] : n \in 0..4} :
        LET points == Page!Chart(sizes, View)
        IN /\ (points = <<>>) <=> (Len(sizes) < 2)
           /\ \A i, j \in DOMAIN points :
                /\ points[i].x \in 0..View.width
                /\ points[i].y \in View.padY..(View.height - View.padY)
                /\ sizes[i] <= sizes[j] => points[i].y >= points[j].y
                /\ i < j => points[i].x < points[j].x
                /\ Page!Nearest(points, points[i].x) = i
=============================================================================
