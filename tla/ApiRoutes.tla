----------------------------- MODULE ApiRoutes -----------------------------
(***************************************************************************)
(* Which handler a request reaches: the URLs the client builds from the    *)
(* shared route builders, and the routers in the order in which Express    *)
(* tries them; and which cached answers a change in the client discards.   *)
(*                                                                         *)
(* A path is a sequence of segments, since encodeURIComponent makes one    *)
(* segment of any name; it leaves the names "." and ".." as they are.      *)
(* Pure operators; a handler bears the name HttpLayer gives its route.     *)
(***************************************************************************)
EXTENDS Naturals, Sequences, SequencesExt

Prefix == <<"api", "v1">>
Get(path) == [method |-> "GET", path |-> path]
Post(path) == [method |-> "POST", path |-> path]

-----------------------------------------------------------------------------
(* The client: ApiRoute, and the endpoint of each call.                    *)

HostPath(h) == Prefix \o <<"hosts", h>>
VolumesPath(h) == HostPath(h) \o <<"volumes">>
VolumePath(h, v) == VolumesPath(h) \o <<v>>

VolumeApi(h, v) ==
    [volumes |-> Get(VolumesPath(h)),
     volume |-> Get(VolumePath(h, v)),
     entries |-> Get(VolumePath(h, v) \o <<"entries">>),
     growth |-> Get(VolumePath(h, v) \o <<"growth">>),
     scan |-> Post(VolumePath(h, v) \o <<"scans">>),
     remove |-> [method |-> "DELETE", path |-> VolumePath(h, v)]]
SystemApi(h, j) ==
    [summary |-> Get(HostPath(h) \o <<"system", "summary">>),
     health |-> Get(Prefix \o <<"health">>),
     job |-> Get(Prefix \o <<"jobs", j>>)]
HostApi(h) ==
    [hosts |-> Get(Prefix \o <<"hosts">>),
     createHost |-> Post(Prefix \o <<"hosts">>),
     updateHost |-> [method |-> "PATCH", path |-> HostPath(h)],
     removeHost |-> [method |-> "DELETE", path |-> HostPath(h)],
     testHost |-> Post(HostPath(h) \o <<"test">>),
     trustHost |-> Post(HostPath(h) \o <<"trust">>)]

\* What the URL parser makes of the dot segments, before anything is sent.
Sent(request) ==
    LET Walk(path, s) == CASE s = "." -> path
                           [] s = ".." -> IF path = <<>> THEN path ELSE Front(path)
                           [] OTHER -> Append(path, s)
    IN [request EXCEPT !.path = FoldLeft(Walk, <<>>, @)]

-----------------------------------------------------------------------------
(* The server: each router is the sequence of its routes.                  *)

Host == ":hostId"
Name == ":name"
Id == ":id"
Params == {Host, Name, Id}

On(method, pattern, route) == [method |-> method, pattern |-> pattern, route |-> route]
Mount(prefix, router) ==
    [i \in DOMAIN router |-> [router[i] EXCEPT !.pattern = prefix \o @]]

VolumeRouter ==
    <<On("GET", <<>>, "volumes"), On("GET", <<Name>>, "volume"),
      On("GET", <<Name, "entries">>, "entries"), On("GET", <<Name, "growth">>, "growth"),
      On("POST", <<Name, "scans">>, "scan"), On("DELETE", <<Name>>, "remove")>>

\* What is behind one host, by parameter or by the alias.
Scoped ==
    <<On("GET", <<"system", "summary">>, "summary")>> \o Mount(<<"volumes">>, VolumeRouter)

HostRouter ==
    <<On("GET", <<>>, "hosts"), On("POST", <<>>, "createHost"), On("GET", <<Host>>, "host"),
      On("PATCH", <<Host>>, "updateHost"), On("DELETE", <<Host>>, "removeHost"),
      On("POST", <<Host, "test">>, "testHost"), On("POST", <<Host, "trust">>, "trustHost")>>
        \o Mount(<<Host>>, Scoped)

ApiRouter ==
    Mount(Prefix, <<On("GET", <<"health">>, "health"), On("GET", <<"jobs", Id>>, "job")>>
                    \o Mount(<<"hosts">>, HostRouter) \o Scoped)

Matches(r, request) ==
    /\ r.method = request.method
    /\ Len(r.pattern) = Len(request.path)
    /\ \A i \in DOMAIN r.pattern : r.pattern[i] \in Params \/ r.pattern[i] = request.path[i]

Bound(r, request, param, default) ==
    IF \E i \in DOMAIN r.pattern : r.pattern[i] = param
    THEN request.path[CHOOSE i \in DOMAIN r.pattern : r.pattern[i] = param]
    ELSE default

\* The first route that matches; the host of an alias is always "local".
Dispatch(request) ==
    LET hits == SelectSeq(ApiRouter, LAMBDA r : Matches(r, request))
    IN IF hits = <<>> THEN [route |-> "elsewhere", host |-> "local", name |-> "", id |-> ""]
       ELSE [route |-> hits[1].route,
             host |-> Bound(hits[1], request, Host, "local"),
             name |-> Bound(hits[1], request, Name, ""),
             id |-> Bound(hits[1], request, Id, "")]

-----------------------------------------------------------------------------
(* The pages, and the host a page is about: useHostId.                     *)

DashboardPage(h) == <<"hosts", h, "volumes">>
VolumePage(h, v) == DashboardPage(h) \o <<v>>
HostIdOf(pathname) ==
    IF Len(pathname) >= 2 /\ pathname[1] = "hosts" THEN pathname[2] ELSE "local"

-----------------------------------------------------------------------------
(* QueryKey, and the keys a change discards: a key is the prefix of all    *)
(* it stands for.                                                          *)

VolumesKey(h, query) == <<"volumes", h, query>>
AllVolumesKey(h) == <<"volumes", h>>
VolumeKey(h, v) == <<"volume", h, v>>
EntriesKey(h, v, path) == <<"volume-entries", h, v, path>>
SummaryKey(h) == <<"system-summary", h>>
HostKeys == {<<"hosts">>, <<"health">>}

Discarded(key, prefixes) == \E p \in prefixes : IsPrefix(p, key)

\* useScan, once its job is settled; useDeleteVolume; the host mutations.
AfterScan(h, v) == {AllVolumesKey(h), VolumeKey(h, v), SummaryKey(h)}
AfterDelete(h, v) == {AllVolumesKey(h), SummaryKey(h), VolumeKey(h, v)}
AfterHostChange == HostKeys
=============================================================================
