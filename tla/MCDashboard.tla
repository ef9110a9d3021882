---------------------------- MODULE MCDashboard ----------------------------
(* Two hosts, of which the first has both volumes and the second one, and  *)
(* a location that was pasted, in the middle of a list of one usage.  A    *)
(* container may stop using a volume.  The assumptions below check the     *)
(* operators of VolumeQueries and HttpLayer over every small input: TLC    *)
(* evaluates them before it explores the model.                            *)
EXTENDS Dashboard, HttpLayer, ClientChecks

MCNames == 1..2
MCNamesWith == [t \in {"", "a"} |-> IF t = "a" THEN {1} ELSE MCNames]
Uses(mounts) == <<[name |-> 1, live |-> TRUE, mounts |-> mounts]>>
MCUsages == {Unset, "IN_USE", "ORPHANED"}
MCContainers == {Uses(<<2>>), Uses(<<1, 2>>)}
MCTable == <<[host |-> "h1", volume |-> 1, bytes |-> 5, at |-> 0, lastWriteAt |-> Null]>>

MCInit ==
    /\ url = [Link("h1", "IN_USE") EXCEPT !.order = "ASC", !.offset = 1]
    /\ PageInit
    /\ inventory["h1"] = MCNames /\ inventory["h2"] = {2}
    /\ containers["h1"] = Uses(<<1, 2>>) /\ containers["h2"] = Uses(<<2>>)
MCSpec == MCInit /\ [][PageNext]_pageVars /\ Fairness

-----------------------------------------------------------------------------
(* Worlds: three volumes of which the first may be managed, up to two      *)
(* containers, and up to two measurements.                                 *)

SmallContainers ==
    LET one == [name : {1}, live : BOOLEAN, mounts : {<<>>, <<1>>, <<2, 1>>}]
        other == [name : {1, 2}, live : BOOLEAN, mounts : {<<1>>, <<1, 1>>}]
    IN {<<>>} \cup {<<c>> : c \in one} \cup {<<c, d>> : c \in one, d \in other}
SmallRows == [host : {"h1"}, volume : {1, 2}, bytes : {0, 5}, at : {1, 2}, lastWriteAt : {Null, 1}]
SmallTables == {<<>>} \cup {<<a>> : a \in SmallRows} \cup {<<a, b>> : a, b \in SmallRows}
WorldsOf(users, tables) ==
    [volumes : {{[name |-> n, managed |-> m /\ n = 1, createdAt |-> 3 - n] : n \in 1..3} :
                    m \in BOOLEAN},
     containers : users, table : tables, now : {3}, ttl : {1}]
MeasuredWorlds == WorldsOf({<<>>}, SmallTables)
SmallWorlds == WorldsOf(SmallContainers, {<<>>, <<[host |-> "h1", volume |-> 1, bytes |-> 5,
                                                   at |-> 2, lastWriteAt |-> 1]>>})
                   \cup MeasuredWorlds
SmallQueries == [usage : {Unset}, search : {1..3},
                 sort : {"NAME", "SIZE", "CREATED_AT", "LAST_WRITE_AT"},
                 order : {"ASC", "DESC"}]

\* A client that follows hasMore gets every volume of the list once, in its
\* order, no page but the last is short, and that one is not empty.
ASSUME PagesAreTheList ==
    \A n \in 0..5, limit \in 1..3 :
        LET rows == [i \in 1..n |-> i]
            At(k) == Slice(rows, limit, k * limit)
            last == CHOOSE k \in 0..n : /\ ~At(k).hasMore
                                        /\ \A j \in 0..(k - 1) : At(j).hasMore
        IN /\ FoldLeft(LAMBDA seen, k : seen \o At(k - 1).items, <<>>, [k \in 1..(last + 1) |-> k])
                = rows
           /\ \A j \in 0..(last - 1) : Len(At(j).items) = limit
           /\ n > 0 => At(last).items # <<>>

\* A list is in a strict order, so that two requests for it agree, and what
\* was never measured comes last in both directions.
ASSUME UnknownComesLast ==
    \A w \in MeasuredWorlds, q \in SmallQueries :
        LET rows == Sorted(Listed(w, "h1", q), q)
        IN /\ Len(rows) = Cardinality(Listed(w, "h1", q))
           /\ q.sort # "NAME" =>
                \A i, j \in DOMAIN rows :
                    i < j /\ SortKey(rows[i], q.sort) = Null => SortKey(rows[j], q.sort) = Null

\* The counts of the summary are the totals of the lists its scopes link to.
ASSUME CountsAreTheTotals ==
    \A w \in SmallWorlds :
        LET s == SummaryOf(w, "h1")
            Total(u) == List(w, "h1", [usage |-> u, search |-> 1..3, sort |-> "NAME",
                                       order |-> "ASC", limit |-> 1, offset |-> 0]).total
        IN /\ s.volumes = Total(Unset) /\ s.inUse = Total("IN_USE")
           /\ s.reserved = Total("RESERVED") /\ s.orphaned = Total("ORPHANED")
           /\ s.volumes = s.inUse + s.reserved + s.orphaned
           /\ s.reclaimableBytes <= s.measuredBytes

\* What may be deleted is orphaned, an orphan that may not carries a managed
\* label, and only one of those makes the summary's reclaimable bytes more
\* than what can be reclaimed.
ASSUME DeletableIsOrphaned ==
    \A w \in SmallWorlds :
        LET rows == {ToSummary(w, "h1", volume) : volume \in w.volumes}
            deletable == {s \in rows : s.safety.deletable}
        IN /\ \A s \in rows : s.safety.deletable <=>
                 s.usage.status = "ORPHANED" /\ s.safety.verdict # "SYSTEM_LABEL"
           /\ \A s \in rows : s.safety.verdict \in {"RUNNING_CONTAINER", "STOPPED_CONTAINER"}
                 => s.safety.blockers # <<>>
           /\ (\A volume \in w.volumes : ~volume.managed) =>
                 SummaryOf(w, "h1").reclaimableBytes =
                    MapThenSumSet(LAMBDA s : s.size, {s \in deletable : s.size # Null})

\* The two ways of reading the newest measurement agree when no two are of
\* the same millisecond.
ASSUME LatestAgrees ==
    \A t \in SmallTables :
        (\A i, j \in DOMAIN t : t[i].at = t[j].at => i = j) =>
            \A v \in DOMAIN LatestForAll(t, "h1") :
                LatestRows(t, "h1", v) = {LatestForAll(t, "h1")[v]}

\* A window of two days, of six hours each, for at most three points.
GrowthTables == {[i \in 1..Cardinality(S) |->
                    [host |-> "h1", volume |-> 1, at |-> SetToSortSeq(S, <)[i],
                     bytes |-> (5 * i) % 7, lastWriteAt |-> Null]] : S \in UNION {kSubset(k, 3..14) : k \in 1..4}}

\* The deltas of a growth series add up to the change over its window; with
\* a truncating division it has at most one point more than MAX_POINTS, and
\* with the division node:sqlite makes of it there is a point for every
\* time at which the volume was measured.
ASSUME SeriesTellsTheGrowth ==
    \A t \in GrowthTables, truncates \in BOOLEAN :
        LET width == BucketMs(2, 6, 2, 3)
            points == Series(t, "h1", 1, 3, width, truncates)
            growth == Growth(points)
        IN /\ growth.window.known =>
                growth.window.by = MapThenSumSet(LAMBDA i : growth.points[i].delta.by,
                                                 2..Len(points))
           /\ points # <<>> => points[Len(points)].at = t[Len(t)].at
           /\ IF truncates THEN Len(points) <= 4 ELSE Len(points) = Len(t)

Segments == {"", ".", "..", "a", "a_"}
SmallPaths == UNION {[1..n -> Segments] : n \in 0..4}

\* No path leaves the volume: ".." stops at the root, so that the rejection
\* that follows is never reached.  A listing's own paths come back as they
\* were sent, except for a directory whose name ends in a space.
ASSUME PathsStayInside ==
    \A path \in SmallPaths :
        LET here == Browse(path, {"a", "a_"})
            Spaced(p) == p # <<>> /\ Last(p) = "a_"
        IN /\ here.path # Rejected
           /\ \A i \in DOMAIN here.path : here.path[i] \in {"a", "a_"}
           /\ \A p \in here.entries \cup ({here.path, here.parent} \ {NoParent}) :
                Normalize(p) = p <=> ~Spaced(p)
           /\ \A p \in here.entries : ParentOf(p) = here.path

\* The report is ok exactly if a host answered, and exactly those are marked
\* as seen; a disabled host is neither probed nor held against it.
ASSUME HealthIsOfTheHosts ==
    \A records \in [Hosts -> [enabled : BOOLEAN]], answers \in [Hosts -> {"pong", "silent", "throws"}] :
        LET report == Health(records, answers)
            seen == MarkedSeen(records, answers)
        IN /\ report.status = "ok" <=> seen # {}
           /\ \A h \in Hosts : ~records[h].enabled => h \notin seen

-----------------------------------------------------------------------------
(* Requests to the API.  Only what the routes below read is varied.        *)

Requests(routes) ==
    [route : routes, alias : BOOLEAN, host : {"malformed", "local", "h1"}, nameValid : BOOLEAN,
     queryValid : BOOLEAN, path : {"ok", "unusable"}, confirm : {"right", "wrong"},
     credentials : BOOLEAN, bodyValid : BOOLEAN, givesSsh : BOOLEAN]
Worlds(S) == {[hostKnown |-> w.known, daemon |-> w.daemon, volumeExists |-> w.exists,
               deletionAllowed |-> w.allowed, deletable |-> w.deletable, removal |-> w.removal,
               liveJob |-> FALSE, queueFull |-> TRUE, idTaken |-> FALSE, jobKnown |-> FALSE,
               anyReachable |-> FALSE] : w \in S}
Fates == Worlds([known : BOOLEAN, daemon : {"answers", "hostKey", "ssh"}, exists : BOOLEAN,
                 allowed : BOOLEAN, deletable : BOOLEAN, removal : {"done", "conflict", "api"}])
VolumeRequests ==
    {r \in Requests({"volumes", "volume", "growth", "entries", "scan", "remove"}) :
        ~r.credentials /\ r.bodyValid /\ ~r.givesSsh}
HostRequests ==
    {r \in Requests({"host", "createHost", "updateHost", "removeHost", "testHost", "trustHost",
                     "hosts", "health", "elsewhere"}) :
        r.nameValid /\ r.queryValid /\ r.path = "ok" /\ r.confirm = "right"}
Calm == Worlds([known : BOOLEAN, daemon : {"answers"}, exists : {TRUE}, allowed : {TRUE},
                deletable : {TRUE}, removal : {"done"}])

\* A volume is deleted only through every gate, and the daemon of the host
\* is asked for nothing before the gates that need no daemon are passed.
ASSUME DeleteGoesThroughTheGates ==
    \A r \in {r \in VolumeRequests : r.route = "remove"}, w \in Fates :
        /\ Respond(r, w).success =>
             /\ w.deletionAllowed /\ r.confirm = "right" /\ r.nameValid
             /\ w.volumeExists /\ w.deletable /\ w.removal = "done"
        /\ Respond(r, w).asked => w.deletionAllowed /\ r.confirm = "right"
        /\ w.deletionAllowed /\ r.confirm # "right" => ~Respond(r, w).success

\* A request that says something malformed is refused without the daemon;
\* one through an alias does not depend on what it says of a host; a host
\* that cannot be reached fails every listing, and never as a missing volume.
ASSUME RefusedBeforeTheDaemon ==
    \A r \in VolumeRequests, w \in Fates :
        LET response == Respond(r, w)
        IN /\ response.status = 400 => ~response.asked
           /\ r.alias => response = Respond([r EXCEPT !.host = "local"], w)
           /\ w.daemon # "answers" /\ response.asked => response.code = Translated(w.daemon)

\* The local host is never removed, re-addressed or trusted, and a payload
\* with credentials in it is never taken.
ASSUME LocalIsProtected ==
    \A r \in HostRequests, w \in Calm :
        LET response == Respond(r, w)
        IN /\ r.host = "local" /\ response.success =>
                /\ r.route \notin {"removeHost", "trustHost"}
                /\ r.route = "updateHost" => ~r.givesSsh
           /\ r.credentials /\ r.route \in {"createHost", "updateHost", "trustHost"} =>
                response.status = 400

\* What the client makes of an answer: a degraded health report is data
\* although its status is 503, a refusal is not although it came as JSON,
\* and only the daemon's absence or no answer at all is "unreachable".
ASSUME ClientGoesByTheEnvelope ==
    /\ \A r \in HostRequests, w \in Calm : r.route = "health" =>
         LET response == Respond(r, w)
         IN response.status = 503 /\ Received(TRUE, TRUE, response).data
    /\ \A r \in VolumeRequests, w \in Fates :
         LET response == Respond(r, w)
         IN /\ Received(TRUE, TRUE, response).data <=> response.status < 400
            /\ IsUnreachable(Received(TRUE, TRUE, response)) <=>
                    response.code = "DOCKER_UNAVAILABLE"
            /\ IsUnreachable(Received(FALSE, TRUE, response))
            /\ ~IsUnreachable(Received(TRUE, FALSE, response))
=============================================================================
