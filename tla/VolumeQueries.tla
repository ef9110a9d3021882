--------------------------- MODULE VolumeQueries ---------------------------
(***************************************************************************)
(* What the services read out of one state of a host: who uses a volume,   *)
(* whether it may be removed, the list and its pages, the summary, the     *)
(* growth series and the health report.  Pure operators, no state: the     *)
(* module Dashboard shows what they return, and MCDashboard checks them    *)
(* against what they are for.                                              *)
(*                                                                         *)
(* A volume is a record with a name, whether it carries a managed label,   *)
(* and the time of its creation; a container has a name, a liveness and    *)
(* the volumes it mounts, in order; a row of the measurement table has     *)
(* a host, a volume, its bytes, when it was captured and the last write.   *)
(* Names are numbers, in the order of localeCompare.                       *)
(***************************************************************************)
EXTENDS Integers, Sequences, FiniteSets, SequencesExt, FiniteSetsExt

Null == -1     \* null: an absent size, time or delta

(***************************************************************************)
(* dependency.service.ts.                                                  *)
(***************************************************************************)
ByName(a, b) == a.name < b.name \/ (a.name = b.name /\ a.edge < b.edge)

\* Live containers first, then by name; equal ones as they were listed.
ByRelevance(a, b) ==
    IF a.live # b.live THEN a.live ELSE ByName(a, b)

\* The consumers of a volume: an edge for every mount, so that a container
\* which mounts it twice is there twice.
Consumers(containers, v) ==
    LET edges == {e \in UNION {{<<c, m>> : m \in DOMAIN containers[c].mounts} :
                                    c \in DOMAIN containers} :
                        containers[e[1]].mounts[e[2]] = v}
    IN SetToSortSeq({[name |-> containers[e[1]].name, live |-> containers[e[1]].live,
                      edge |-> 100 * e[1] + e[2]] : e \in edges}, ByRelevance)

Live(consumer) == consumer.live
Stopped(consumer) == ~consumer.live

Summarize(consumers) ==
    LET live == Len(SelectSeq(consumers, Live))
        stopped == Len(consumers) - live
    IN [status |-> CASE live > 0 -> "IN_USE"
                     [] live = 0 /\ stopped > 0 -> "RESERVED"
                     [] OTHER -> "ORPHANED",
        live |-> live, stopped |-> stopped, consumers |-> consumers]

(***************************************************************************)
(* safety.service.ts.  The label goes before the containers.               *)
(***************************************************************************)
Evaluate(volume, usage, bytes) ==
    LET live == SelectSeq(usage.consumers, Live)
        stopped == SelectSeq(usage.consumers, Stopped)
        verdict == CASE volume.managed -> "SYSTEM_LABEL"
                     [] ~volume.managed /\ live # <<>> -> "RUNNING_CONTAINER"
                     [] ~volume.managed /\ live = <<>> /\ stopped # <<>> -> "STOPPED_CONTAINER"
                     [] OTHER -> "SAFE"
    IN [deletable |-> verdict = "SAFE", verdict |-> verdict, reclaimable |-> bytes,
        blockers |-> CASE verdict = "RUNNING_CONTAINER" -> live
                       [] verdict = "STOPPED_CONTAINER" -> stopped
                       [] OTHER -> <<>>]

(***************************************************************************)
(* measurement.repository.ts.  The table is a sequence of rows.            *)
(***************************************************************************)
RowsOf(table, h, v) == {i \in DOMAIN table : table[i].host = h /\ table[i].volume = v}
Newest(table, rows) == {i \in rows : \A j \in rows : table[j].at <= table[i].at}

\* latest(): LIMIT 1 of the newest.  Which one, of rows of one millisecond,
\* the statement leaves open.
LatestRows(table, h, v) == Newest(table, RowsOf(table, h, v))

\* latestForAll(): the newest rows of every volume, the first one kept.
\* A map from the volumes that were ever measured to an index of the table.
LatestForAll(table, h) ==
    [v \in {table[i].volume : i \in {i \in DOMAIN table : table[i].host = h}} |->
        Min(LatestRows(table, h, v))]

(***************************************************************************)
(* volume.service.ts: one row of the list, composed of the daemon's        *)
(* record, the containers and the newest measurement.                      *)
(***************************************************************************)
Freshness(size, at, now, ttl) ==
    CASE size = Null -> "UNKNOWN"
      [] size # Null /\ now - at > ttl -> "STALE"
      [] OTHER -> "FRESH"

\* world: the volumes, containers and rows one answer is made of, and the
\* time and the lifetime of a measurement (Config.scan.cacheTtlMs).
ToSummary(world, h, volume) ==
    LET latest == LatestForAll(world.table, h)
        measured == volume.name \in DOMAIN latest
        row == world.table[latest[volume.name]]
        usage == Summarize(Consumers(world.containers, volume.name))
        bytes == IF measured THEN row.bytes ELSE Null
    IN [host |-> h, name |-> volume.name, createdAt |-> volume.createdAt, usage |-> usage,
        size |-> bytes, lastWriteAt |-> IF measured THEN row.lastWriteAt ELSE Null,
        freshness |-> Freshness(bytes, IF measured THEN row.at ELSE Null, world.now, world.ttl),
        safety |-> Evaluate(volume, usage, bytes)]

\* A filter that is not set is Unset; a search is a set of the names it is in.
Unset == "unset"
Matches(summary, q) ==
    /\ q.usage # Unset => summary.usage.status = q.usage
    /\ summary.name \in q.search

SortKey(summary, key) ==
    CASE key = "SIZE" -> summary.size
      [] key = "CREATED_AT" -> summary.createdAt
      [] key = "LAST_WRITE_AT" -> summary.lastWriteAt
      [] OTHER -> Null

\* An unknown value comes last in either direction.
CompareNullable(left, right, order) ==
    /\ left # Null
    /\ right = Null \/ (IF order = "ASC" THEN left < right ELSE left > right)

Precedes(a, b, q) ==
    IF q.sort = "NAME"
    THEN IF q.order = "ASC" THEN a.name < b.name ELSE a.name > b.name
    ELSE \/ CompareNullable(SortKey(a, q.sort), SortKey(b, q.sort), q.order)
         \/ (SortKey(a, q.sort) = SortKey(b, q.sort) /\ a.name < b.name)

\* No two rows of a host have one name, so that a row's place is the number
\* of rows that precede it.
RowAt(rows, q, i) ==
    CHOOSE r \in rows : Cardinality({x \in rows : Precedes(x, r, q)}) = i - 1
Sorted(rows, q) == [i \in 1..Cardinality(rows) |-> RowAt(rows, q, i)]

\* Pagination.slice (api-response.util.ts).
Slice(rows, limit, offset) ==
    [items |-> SubSeq(rows, offset + 1, Min({offset + limit, Len(rows)})),
     total |-> Len(rows), limit |-> limit, offset |-> offset,
     hasMore |-> offset + limit < Len(rows)]

Listed(world, h, q) ==
    {s \in {ToSummary(world, h, volume) : volume \in world.volumes} : Matches(s, q)}

List(world, h, q) == Slice(Sorted(Listed(world, h, q), q), q.limit, q.offset)

-----------------------------------------------------------------------------
(***************************************************************************)
(* system.service.ts: the summary of a host, and the health report.        *)
(***************************************************************************)
Bytes(world, h, v) ==
    LET latest == LatestForAll(world.table, h)
    IN IF v \in DOMAIN latest THEN world.table[latest[v]].bytes ELSE Null

SummaryOf(world, h) ==
    LET names == {volume.name : volume \in world.volumes}
        Status(v) == Summarize(Consumers(world.containers, v)).status
        measured == {v \in names : Bytes(world, h, v) # Null}
        Total(S) == MapThenSumSet(LAMBDA v : Bytes(world, h, v), S)
    IN [host |-> h, volumes |-> Cardinality(names),
        inUse |-> Cardinality({v \in names : Status(v) = "IN_USE"}),
        reserved |-> Cardinality({v \in names : Status(v) = "RESERVED"}),
        orphaned |-> Cardinality({v \in names : Status(v) = "ORPHANED"}),
        measuredBytes |-> Total(measured),
        reclaimableBytes |-> Total({v \in measured : Status(v) = "ORPHANED"}),
        unmeasured |-> Cardinality(names \ measured)]

\* One entry of the report: a disabled host is not probed, and a probe that
\* throws is an unreachable host.
HostStatus(record, answers) ==
    CASE ~record.enabled -> "DISABLED"
      [] record.enabled /\ answers = "pong" -> "ONLINE"
      [] OTHER -> "OFFLINE"

\* records[h], answers[h]: "pong", "silent" or "throws".
Health(records, answers) ==
    LET hosts == [h \in DOMAIN records |-> HostStatus(records[h], answers[h])]
    IN [status |-> IF \E h \in DOMAIN hosts : hosts[h] = "ONLINE" THEN "ok" ELSE "degraded",
        hosts |-> hosts]

\* daemon() of a host that answered, and only of one, records that it was seen.
MarkedSeen(records, answers) ==
    {h \in DOMAIN records : HostStatus(records[h], answers[h]) = "ONLINE"}

-----------------------------------------------------------------------------
(***************************************************************************)
(* The growth series: series() of measurement.repository.ts and            *)
(* _buildGrowth of volume.service.ts.  A bucket is captured_at / width.    *)
(* Whether SQLite truncates that depends on how the driver binds the width:*)
(* node:sqlite binds every number as a REAL, and a REAL division does not  *)
(* truncate.  truncates = FALSE is that build.                             *)
(***************************************************************************)
BucketMs(days, day, hour, maxPoints) ==
    Max({hour, (days * day + maxPoints - 1) \div maxPoints})

Bucket(at, width, truncates) == IF truncates THEN at \div width ELSE at

\* Of every bucket the newest row, oldest bucket first.
Series(table, h, v, since, width, truncates) ==
    LET rows == {i \in RowsOf(table, h, v) : table[i].at >= since}
        In(b) == {i \in rows : Bucket(table[i].at, width, truncates) = b}
        kept == {Min(Newest(table, In(b))) :
                    b \in {Bucket(table[i].at, width, truncates) : i \in rows}}
    IN SetToSortSeq({[at |-> table[i].at, bytes |-> table[i].bytes] : i \in kept},
                    LAMBDA a, b : a.at < b.at)

Growth(points) ==
    [points |-> [i \in DOMAIN points |->
        [at |-> points[i].at, bytes |-> points[i].bytes,
         delta |-> IF i = 1 THEN [known |-> FALSE, by |-> 0]
                   ELSE [known |-> TRUE, by |-> points[i].bytes - points[i - 1].bytes]]],
     window |-> IF Len(points) > 1
                THEN [known |-> TRUE, by |-> points[Len(points)].bytes - points[1].bytes]
                ELSE [known |-> FALSE, by |-> 0]]

-----------------------------------------------------------------------------
(***************************************************************************)
(* volume-path.util.ts and browse.service.ts.  A path is the sequence of   *)
(* its segments, as they were written: "" is an empty one, "." and ".." are*)
(* themselves, and "a_" stands for a name that ends in a space.  Trimming  *)
(* the text takes the space off the last segment.                          *)
(***************************************************************************)
TrimName(s) == IF s = "a_" THEN "a" ELSE s
Trim(path) == IF path = <<>> THEN path
              ELSE [path EXCEPT ![Len(path)] = TrimName(@)]

\* posix.normalize of an absolute path: ".." goes up and stays at the root.
Step(path, s) ==
    CASE s \in {"", "."} -> path
      [] s = ".." -> IF path = <<>> THEN path ELSE Front(path)
      [] OTHER -> Append(path, s)

Rejected == <<"rejected">>
Normalize(path) ==
    LET normalized == FoldLeft(Step, <<>>, Trim(path))
    IN IF ".." \in {normalized[i] : i \in DOMAIN normalized} THEN Rejected ELSE normalized

NoParent == <<"none">>
ParentOf(path) == IF path = <<>> THEN NoParent ELSE Front(path)
Child(path, name) == FoldLeft(Step, path, <<name>>)

\* BrowseService.list: the live listing of a directory, with the paths the
\* next requests will carry.
Browse(path, names) ==
    LET at == Normalize(path)
    IN [path |-> at, parent |-> ParentOf(at), entries |-> {Child(at, n) : n \in names}]
=============================================================================
