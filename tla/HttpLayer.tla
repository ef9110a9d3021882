----------------------------- MODULE HttpLayer -----------------------------
(***************************************************************************)
(* What a request to the API is answered: the routes, the validation of    *)
(* what they carry, the services' refusals, the translation of failures of *)
(* the daemon to codes, and what the client makes of the envelope.  Pure   *)
(* operators; a handler is the sequence of its checks, in the order the    *)
(* code makes them, and the first that fails is the answer.                *)
(*                                                                         *)
(* A request says what is wrong with each of its parts, a world what the   *)
(* server would find; neither is a text.                                   *)
(***************************************************************************)
EXTENDS Naturals, Sequences, FiniteSets

\* api-error.util.ts: every code has one status.  INTERNAL_ERROR is also
\* what an error no one foresaw is reported as (wrapUnknown, handle()).
StatusOf(code) ==
    CASE code \in {"VALIDATION_FAILED", "CONFIRMATION_REQUIRED", "PATH_TRAVERSAL_REJECTED"} -> 400
      [] code \in {"HOST_PROTECTED", "HOST_KEY_UNVERIFIED", "VOLUME_PROTECTED"} -> 403
      [] code \in {"ROUTE_NOT_FOUND", "VOLUME_NOT_FOUND", "HOST_NOT_FOUND", "JOB_NOT_FOUND",
                   "NOT_FOUND"} -> 404
      [] code \in {"HOST_ALREADY_EXISTS", "VOLUME_IN_USE"} -> 409
      [] code = "QUEUE_SATURATED" -> 429
      [] code \in {"DOCKER_UNAVAILABLE", "SCAN_IMAGE_UNAVAILABLE"} -> 503
      [] code = "SCAN_TIMEOUT" -> 504
      [] OTHER -> 500     \* DOCKER_ERROR, SCAN_FAILED, INTERNAL_ERROR

\* toApiError() of docker.client.ts and host-context.ts: what a call that
\* failed is, by what it failed with.
Translated(failure) ==
    CASE failure = "hostKey" -> "HOST_KEY_UNVERIFIED"
      [] failure \in {"ssh", "breaker", "socket"} -> "DOCKER_UNAVAILABLE"
      [] failure = "api" -> "DOCKER_ERROR"
      [] OTHER -> "INTERNAL_ERROR"

-----------------------------------------------------------------------------
(***************************************************************************)
(* The checks.  Each is a record: whether it holds and what it answers if  *)
(* it does not; "asks" says that the daemon is asked for it.               *)
(***************************************************************************)
Check(holds, code) == [holds |-> holds, code |-> code, asks |-> FALSE]
Asked(holds, code) == [holds |-> holds, code |-> code, asks |-> TRUE]

\* HostMiddleware.fromParam and localAlias: the aliases always mean "local".
HostResolved(r, w) ==
    <<Check(r.alias \/ r.host # "malformed", "VALIDATION_FAILED"),
      Check(r.alias \/ w.hostKnown, "HOST_NOT_FOUND")>>

NameValid(r, w) == <<Check(r.nameValid, "VALIDATION_FAILED")>>
QueryValid(r, w) == <<Check(r.queryValid, "VALIDATION_FAILED")>>
DaemonAnswers(r, w) == <<Asked(w.daemon = "answers", Translated(w.daemon))>>

\* findOrFail.
VolumeFound(r, w) == DaemonAnswers(r, w) \o <<Check(w.volumeExists, "VOLUME_NOT_FOUND")>>

\* BrowseService.list rejects the path before it asks for the volume.
PathInside(r, w) == <<Check(r.path # "unusable", "PATH_TRAVERSAL_REJECTED")>>
DirectoryThere(r, w) == <<Asked(r.path # "escapes", "PATH_TRAVERSAL_REJECTED"),
                          Asked(r.path # "missing", "NOT_FOUND")>>

\* VolumeService.remove: its gates, then the daemon's own.
Gates(r, w) ==
    <<Check(w.deletionAllowed, "VOLUME_PROTECTED"),
      Check(r.confirm = "right", "CONFIRMATION_REQUIRED")>>
Safe(r, w) == <<Check(w.deletable, "VOLUME_IN_USE")>>
DaemonRemoves(r, w) ==
    <<Asked(w.removal # "notFound", "VOLUME_NOT_FOUND"),
      Asked(w.removal # "conflict", "VOLUME_IN_USE"),
      Asked(w.removal = "done", Translated(w.removal))>>

\* ScanQueue.enqueue does not ask the daemon; a job that is already live
\* is returned, whatever the queue's length.
QueueHasRoom(r, w) == <<Check(w.liveJob \/ ~w.queueFull, "QUEUE_SATURATED")>>

\* _assertNoCredentials comes before the schema, which would refuse the
\* same payload; trust() has the schema alone.
NoCredentials(r, w) == <<Check(~r.credentials, "VALIDATION_FAILED")>>
BodyValid(r, w) == <<Check(r.bodyValid /\ ~r.credentials, "VALIDATION_FAILED")>>
IdValid(r, w) == <<Check(r.host # "malformed", "VALIDATION_FAILED")>>
HostFound(r, w) == <<Check(w.hostKnown, "HOST_NOT_FOUND")>>
NotLocal(r, w) == <<Check(r.host # "local", "HOST_PROTECTED")>>
\* The id of the payload, or the slug of its label: that may be taken too.
IdFree(r, w) == <<Check(~w.idTaken, "HOST_ALREADY_EXISTS")>>

(***************************************************************************)
(* routes/*.ts and controllers/*.ts: what each handler goes through.       *)
(***************************************************************************)
Checks(r, w) ==
    CASE r.route = "volumes" -> HostResolved(r, w) \o QueryValid(r, w) \o DaemonAnswers(r, w)
      [] r.route \in {"volume", "growth"} ->
            HostResolved(r, w) \o NameValid(r, w) \o QueryValid(r, w) \o VolumeFound(r, w)
      [] r.route = "entries" ->
            HostResolved(r, w) \o NameValid(r, w) \o QueryValid(r, w) \o PathInside(r, w)
                \o VolumeFound(r, w) \o DirectoryThere(r, w)
      [] r.route = "scan" -> HostResolved(r, w) \o NameValid(r, w) \o QueueHasRoom(r, w)
      [] r.route = "remove" ->
            HostResolved(r, w) \o NameValid(r, w) \o QueryValid(r, w) \o Gates(r, w)
                \o VolumeFound(r, w) \o Safe(r, w) \o DaemonRemoves(r, w)
      [] r.route = "summary" -> HostResolved(r, w) \o DaemonAnswers(r, w)
      [] r.route = "host" -> IdValid(r, w) \o HostFound(r, w)
      [] r.route = "createHost" -> NoCredentials(r, w) \o BodyValid(r, w) \o IdFree(r, w)
      [] r.route = "updateHost" ->
            NoCredentials(r, w) \o BodyValid(r, w) \o IdValid(r, w) \o HostFound(r, w)
                \o (IF r.givesSsh THEN NotLocal(r, w) ELSE <<>>)
      [] r.route = "removeHost" -> IdValid(r, w) \o NotLocal(r, w) \o HostFound(r, w)
      [] r.route = "testHost" -> IdValid(r, w) \o HostFound(r, w)
      [] r.route = "trustHost" ->
            BodyValid(r, w) \o IdValid(r, w) \o HostFound(r, w) \o NotLocal(r, w)
      [] r.route = "job" -> NameValid(r, w) \o <<Check(w.jobKnown, "JOB_NOT_FOUND")>>
      [] r.route \in {"hosts", "health"} -> <<>>
      [] OTHER -> <<Check(FALSE, "ROUTE_NOT_FOUND")>>

\* ApiResponse: 202 for a scan, 201 for a host, 503 for a health report of
\* which no host answered, 200 for the rest.
Success(r, w) == CASE r.route = "scan" -> 202
                   [] r.route = "createHost" -> 201
                   [] r.route = "health" /\ ~w.anyReachable -> 503
                   [] OTHER -> 200

\* How many checks are made: up to the first that fails.
Made(r, w) ==
    LET checks == Checks(r, w)
    IN {i \in DOMAIN checks : \A j \in 1..(i - 1) : checks[j].holds}

\* The envelope.  asked: the daemon was asked for something.
Respond(r, w) ==
    LET checks == Checks(r, w)
        failed == {i \in Made(r, w) : ~checks[i].holds}
        code == checks[CHOOSE i \in failed : TRUE].code
        asked == \E i \in Made(r, w) : checks[i].asks
    IN IF failed = {}
       THEN [success |-> TRUE, status |-> Success(r, w), code |-> "OK", asked |-> asked]
       ELSE [success |-> FALSE, status |-> StatusOf(code), code |-> code, asked |-> asked]

\* api.client.ts: what a call resolves with or throws.  What counts is the
\* envelope and not the status, so that a degraded report is data.
Received(answered, json, response) ==
    CASE ~answered -> [data |-> FALSE, code |-> "DOCKER_UNAVAILABLE", status |-> 0]
      [] answered /\ ~json -> [data |-> FALSE, code |-> "INTERNAL_ERROR",
                               status |-> response.status]
      [] OTHER -> [data |-> response.success, code |-> response.code,
                   status |-> response.status]

IsUnreachable(received) ==
    ~received.data /\ (received.code = "DOCKER_UNAVAILABLE" \/ received.status = 0)
=============================================================================
