--------------------------- MODULE VolumeRemoval ----------------------------
(***************************************************************************)
(* What the program does to the volumes of one host and to its own records *)
(* about them: DELETE requests (volume.service.ts remove), the body of a   *)
(* scan job (_execute in scan.queue.ts), rounds of the attachment ledger   *)
(* (sighting.service.ts refresh), and the two cached listings they read    *)
(* (volume.repository.ts, container.repository.ts).  Everything is kept    *)
(* per host, so one host shows it all.                                     *)
(*                                                                         *)
(* A name can be reused, so each volume that ever existed under a name has *)
(* a generation of its own.  The program never sees generations; they say  *)
(* here what a name stood for when it was read.                            *)
(***************************************************************************)
EXTENDS Naturals, FiniteSets

CONSTANTS
    Volume,       \* names
    Container,    \* containers other than the program's own sidecars
    Request,      \* DELETE requests, each of them sent once
    Round,        \* readers of both listings: rounds of the ledger, pages rendered
    MaxGen,       \* bound of the model: volumes ever created
    Absent

ASSUME RemovalOptions ==
    MaxGen \in Nat /\ Absent \notin [gen : Nat, pinned : BOOLEAN]

VARIABLES
    (* the daemon *)
    volume,       \* volume[v]: the volume of that name, or Absent
    created,      \* generations used up so far
    mounts,       \* <<c, v>>: container c refers to v, running or not
    (* the cached listings; see TtlCache for their own interleavings *)
    listing,      \* listing[kind]: the live entry, or Absent
    flight,       \* flight[kind]: the call for a listing, "none", "sent" or "read"
    (* operations under way *)
    request, scan, round,
    (* the store *)
    measured,     \* rows of volume_measurement: <<v, generation measured>>
    sighted,      \* sighted[v]: the generations v's ledger row has seen
    audit,        \* rows of the audit log that DELETE requests write
    (* history of the run *)
    erased,       \* generations the program removed and then forgot
    overlapped    \* generations that a scan, a round or a listing still held then

daemon == <<volume, created, mounts>>
caches == <<listing, flight>>
store == <<measured, sighted, audit>>
history == <<erased, overlapped>>
vars == <<daemon, caches, request, scan, round, store, history>>

NoGen == 0
GenOf(v) == IF volume[v] = Absent THEN NoGen ELSE volume[v].gen

NoFlight == [stage |-> "none", snapshot |-> Absent]

\* A scan in the stage "probing" has a sidecar container, which the daemon
\* and the listing count like any other container.
Referenced(v) == scan[v].pc = "probing" \/ \E c \in Container : <<c, v>> \in mounts

Init ==
    /\ volume = [v \in Volume |-> Absent] /\ created = 0 /\ mounts = {}
    /\ listing = [kind \in {"volumes", "containers"} |-> Absent]
    /\ flight = [kind \in {"volumes", "containers"} |-> NoFlight]
    /\ request = [r \in Request |-> [pc |-> "idle", name |-> Absent, pinned |-> FALSE,
                                     inventory |-> Absent, gone |-> NoGen]]
    /\ scan = [v \in Volume |-> [pc |-> "idle", gen |-> NoGen]]
    /\ round = [n \in Round |-> [pc |-> "idle", volumes |-> Absent, containers |-> Absent]]
    /\ measured = {} /\ sighted = [v \in Volume |-> {}] /\ audit = {}
    /\ erased = {} /\ overlapped = {}

-----------------------------------------------------------------------------
(* The daemon's other clients.                                             *)

CreateOutside(v) ==
    /\ volume[v] = Absent
    /\ created < MaxGen
    /\ created' = created + 1
    /\ \E pinned \in BOOLEAN :
          volume' = [volume EXCEPT ![v] = [gen |-> created + 1, pinned |-> pinned]]
    /\ UNCHANGED <<mounts, caches, request, scan, round, store, history>>

RemoveOutside(v) ==
    /\ volume[v] # Absent
    /\ ~ Referenced(v)
    /\ volume' = [volume EXCEPT ![v] = Absent]
    /\ UNCHANGED <<created, mounts, caches, request, scan, round, store, history>>

Attach(c, v) ==
    /\ volume[v] # Absent
    /\ <<c, v>> \notin mounts
    /\ mounts' = mounts \cup {<<c, v>>}
    /\ UNCHANGED <<volume, created, caches, request, scan, round, store, history>>

Detach(c, v) ==
    /\ <<c, v>> \in mounts
    /\ mounts' = mounts \ {<<c, v>>}
    /\ UNCHANGED <<volume, created, caches, request, scan, round, store, history>>

-----------------------------------------------------------------------------
(* The cached listings.                                                    *)

\* What the daemon answers.
Snapshot(kind) ==
    [of |-> [v \in Volume |-> IF kind = "volumes" THEN GenOf(v) ELSE Referenced(v)]]

\* A request that is past its evaluation forgets what it evaluated.
At(pc, r) == [request[r] EXCEPT !.pc = pc, !.pinned = FALSE, !.inventory = Absent]
Done(r) == At("done", r)

\* Whoever needs a listing that is neither cached nor under way starts it.
Asked(kinds) ==
    flight' = [kind \in DOMAIN flight |->
        IF kind \in kinds /\ listing[kind] = Absent /\ flight[kind].stage = "none"
        THEN [NoFlight EXCEPT !.stage = "sent"] ELSE flight[kind]]

ReadListing(kind) ==
    /\ flight[kind].stage = "sent"
    /\ flight' = [flight EXCEPT ![kind] = [stage |-> "read", snapshot |-> Snapshot(kind)]]
    /\ UNCHANGED <<daemon, listing, request, scan, round, store, history>>

\* The listing arrives: it is stored and handed to everyone who waits.
Land(kind) ==
    /\ flight[kind].stage = "read"
    /\ listing' = [listing EXCEPT ![kind] = flight[kind].snapshot]
    /\ flight' = [flight EXCEPT ![kind] = NoFlight]
    /\ request' = [r \in Request |->
          IF kind = "containers" /\ request[r].pc = "consulting"
          THEN [request[r] EXCEPT !.pc = "consulted", !.inventory = flight[kind].snapshot] ELSE request[r]]
    /\ round' = [n \in Round |->
          IF round[n].pc = "listing" /\ round[n][kind] = Absent
          THEN [round[n] EXCEPT ![kind] = flight[kind].snapshot] ELSE round[n]]
    /\ UNCHANGED <<daemon, scan, store, history>>

\* The call fails: a waiting request answers 503, a waiting round is skipped.
FailListing(kind) ==
    /\ flight[kind].stage # "none"
    /\ flight' = [flight EXCEPT ![kind] = NoFlight]
    /\ request' = [r \in Request |->
          IF kind = "containers" /\ request[r].pc = "consulting"
          THEN Done(r) ELSE request[r]]
    /\ round' = [n \in Round |->
          IF round[n].pc = "listing" /\ round[n][kind] = Absent
          THEN [pc |-> "idle", volumes |-> Absent, containers |-> Absent] ELSE round[n]]
    /\ UNCHANGED <<daemon, listing, scan, store, history>>

Expire(kind) ==
    /\ listing[kind] # Absent
    /\ listing' = [listing EXCEPT ![kind] = Absent]
    /\ UNCHANGED <<daemon, flight, request, scan, round, store, history>>

-----------------------------------------------------------------------------
(* DELETE: volume.service.ts remove().  The feature flag and the           *)
(* confirmation token are tested before anything else; a request that      *)
(* fails them changes nothing and is not modelled.                         *)

\* findOrFail: the daemon's inspect of the volume; 404 if it has none, 503
\* if the call fails.
Inspect(r, v) ==
    /\ request[r].pc = "idle"
    /\ \/ request' = [request EXCEPT ![r] = Done(r)]
       \/ /\ volume[v] # Absent
          /\ request' = [request EXCEPT ![r] =
                [@ EXCEPT !.pc = "inspected", !.name = v, !.pinned = volume[v].pinned]]
    /\ UNCHANGED <<daemon, caches, scan, round, store, history>>

\* DependencyService.consumersOf, from the cached inventory if there is one.
Consult(r) ==
    /\ request[r].pc = "inspected"
    /\ Asked({"containers"})
    /\ request' = [request EXCEPT ![r].inventory = listing["containers"],
          ![r].pc = IF listing["containers"] = Absent THEN "consulting" ELSE "consulted"]
    /\ UNCHANGED <<daemon, listing, scan, round, store, history>>

Deletable(r) == ~ request[r].pinned /\ ~ request[r].inventory.of[request[r].name]

\* SafetyService.evaluate and what remove() does with its verdict.
Evaluate(r) ==
    /\ request[r].pc = "consulted"
    /\ IF Deletable(r)
       THEN request' = [request EXCEPT ![r] = At("removing", r)] /\ UNCHANGED audit
       ELSE /\ request' = [request EXCEPT ![r] = Done(r)]
            /\ audit' = audit \cup {<<r, "VOLUME_DELETE_BLOCKED", NoGen>>}
    /\ UNCHANGED <<daemon, caches, scan, round, measured, sighted, history>>

\* Mutant: a 404 counts as success, as an idempotent DELETE would have it.
DaemonRemoveIdempotent(r) ==
    LET v == request[r].name
    IN  /\ request[r].pc = "removing"
        /\ \/ /\ volume[v] # Absent /\ Referenced(v)
              /\ request' = [request EXCEPT ![r] = Done(r)]
              /\ UNCHANGED volume
           \/ /\ ~ Referenced(v)
              /\ volume' = [volume EXCEPT ![v] = Absent]
              /\ request' = [request EXCEPT ![r].pc = "removed", ![r].gone = GenOf(v)]
        /\ UNCHANGED <<created, mounts, caches, scan, round, store, history>>

\* Mutant: a refused removal is logged, and the rest of remove() goes on.
DaemonRemoveSwallowed(r) ==
    LET v == request[r].name
    IN  /\ request[r].pc = "removing"
        /\ volume' = IF Referenced(v) THEN volume ELSE [volume EXCEPT ![v] = Absent]
        /\ request' = [request EXCEPT ![r] = [At("removed", r) EXCEPT
                                !.gone = IF Referenced(v) THEN NoGen ELSE GenOf(v)]]
        /\ UNCHANGED <<created, mounts, caches, scan, round, store, history>>

\* The daemon's own answer: 404, 409, or the volume is gone, and the reply
\* to that may be lost.  The call may also fail before it has any effect.
DaemonRemove(r) ==
    LET v == request[r].name
    IN  /\ request[r].pc = "removing"
        /\ \/ /\ request' = [request EXCEPT ![r] = Done(r)]
              /\ UNCHANGED volume
           \/ /\ volume[v] # Absent /\ ~ Referenced(v)
              /\ volume' = [volume EXCEPT ![v] = Absent]
              /\ \E reply \in {"removed", "done"} :
                    request' = [request EXCEPT ![r] = [At(reply, r) EXCEPT !.gone = GenOf(v)]]
        /\ UNCHANGED <<created, mounts, caches, scan, round, store, history>>

\* Generations of v known to an operation or a listing that may yet write.
Held(v) ==
    {scan[v].gen}
    \cup {round[n].volumes.of[v] : n \in {m \in Round : round[m].volumes # Absent}}
    \cup (IF flight["volumes"].stage = "read" THEN {flight["volumes"].snapshot.of[v]} ELSE {})

\* Mutant: the volume listing keeps the removed volume.
RemoveLandsStale(r) ==
    /\ request[r].pc = "removed"
    /\ request' = [request EXCEPT ![r].pc = "landed"]
    /\ overlapped' = overlapped \cup (Held(request[r].name) \cap {request[r].gone})
    /\ UNCHANGED <<daemon, caches, scan, round, store, erased>>

\* VolumeRepository.remove: the reply arrives, the volume listing is dropped.
RemoveLands(r) ==
    /\ request[r].pc = "removed"
    /\ request' = [request EXCEPT ![r].pc = "landed"]
    /\ listing' = [listing EXCEPT !["volumes"] = Absent]
    /\ overlapped' = overlapped \cup (Held(request[r].name) \cap {request[r].gone})
    /\ UNCHANGED <<daemon, flight, scan, round, store, erased>>

\* remove() goes on: both histories are forgotten by name, the container
\* inventory is dropped, and the removal goes to the audit log.
Forget(r) ==
    LET v == request[r].name
    IN  /\ request[r].pc = "landed"
        /\ request' = [request EXCEPT ![r] = Done(r)]
        /\ measured' = {row \in measured : row[1] # v}
        /\ sighted' = [sighted EXCEPT ![v] = {}]
        /\ listing' = [listing EXCEPT !["containers"] = Absent]
        /\ audit' = audit \cup {<<r, "VOLUME_DELETED", request[r].gone>>}
        /\ erased' = erased \cup {request[r].gone}
        /\ UNCHANGED <<daemon, flight, scan, round, overlapped>>

-----------------------------------------------------------------------------
(* A scan job's body with the sidecar strategy.  ScanQueue runs at most    *)
(* one per volume.                                                         *)

ScanFinds(v) ==
    /\ scan[v].pc = "idle"
    /\ volume[v] # Absent
    /\ scan' = [scan EXCEPT ![v].pc = "found"]
    /\ UNCHANGED <<daemon, caches, request, round, store, history>>

\* createContainer binds the volume by name: the daemon creates what it
\* does not have.
ScanCreates(v) ==
    /\ scan[v].pc = "found"
    /\ IF volume[v] = Absent
       THEN /\ created < MaxGen
            /\ created' = created + 1
            /\ volume' = [volume EXCEPT ![v] = [gen |-> created + 1, pinned |-> FALSE]]
       ELSE UNCHANGED <<volume, created>>
    /\ scan' = [scan EXCEPT ![v] = [pc |-> "probing", gen |-> volume'[v].gen]]
    /\ UNCHANGED <<mounts, caches, request, round, store, history>>

\* The finally-block of SidecarRunner.run: the container goes, whether the
\* probe has succeeded or not.
ScanRemovesSidecar(v) ==
    /\ scan[v].pc = "probing"
    /\ \/ scan' = [scan EXCEPT ![v].pc = "probed"]
       \/ scan' = [scan EXCEPT ![v] = [pc |-> "idle", gen |-> NoGen]]
    /\ UNCHANGED <<daemon, caches, request, round, store, history>>

ScanRecords(v) ==
    /\ scan[v].pc = "probed"
    /\ scan' = [scan EXCEPT ![v] = [pc |-> "idle", gen |-> NoGen]]
    /\ measured' = measured \cup {<<v, scan[v].gen>>}
    /\ UNCHANGED <<daemon, caches, request, round, sighted, audit, history>>

-----------------------------------------------------------------------------
(* A round of the attachment ledger, or VolumeService.list and .detail     *)
(* rendering a page: both wait for the two listings.                       *)

StartRound(n) ==
    /\ round[n].pc = "idle"
    /\ round' = [round EXCEPT ![n] = [pc |-> "listing", volumes |-> listing["volumes"],
                                      containers |-> listing["containers"]]]
    /\ Asked({"volumes", "containers"})
    /\ UNCHANGED <<daemon, listing, request, scan, store, history>>

\* SightingRepository.observe, in one transaction: a row for every volume
\* of the listing; rows of other volumes stay.
Observe(n) ==
    /\ round[n].pc = "listing"
    /\ round[n].volumes # Absent /\ round[n].containers # Absent
    /\ sighted' = [v \in Volume |->
          IF round[n].volumes.of[v] = NoGen THEN sighted[v]
          ELSE sighted[v] \cup {round[n].volumes.of[v]}]
    /\ round' = [round EXCEPT ![n] = [pc |-> "idle", volumes |-> Absent, containers |-> Absent]]
    /\ UNCHANGED <<daemon, caches, request, scan, measured, audit, history>>

\* A page has its rows and writes nothing.
Render(n) ==
    /\ round[n].pc = "listing"
    /\ round[n].volumes # Absent /\ round[n].containers # Absent
    /\ round' = [round EXCEPT ![n] = [pc |-> "idle", volumes |-> Absent, containers |-> Absent]]
    /\ UNCHANGED <<daemon, caches, request, scan, store, history>>

-----------------------------------------------------------------------------
Outside(v) ==
    \/ CreateOutside(v) \/ RemoveOutside(v)
    \/ \E c \in Container : Attach(c, v) \/ Detach(c, v)

Listings ==
    \E kind \in DOMAIN listing : ReadListing(kind) \/ Land(kind) \/ FailListing(kind) \/ Expire(kind)

Remove(r) ==
    \/ \E v \in Volume : Inspect(r, v)
    \/ Consult(r) \/ Evaluate(r) \/ DaemonRemove(r) \/ RemoveLands(r) \/ Forget(r)

Execute(v) == ScanFinds(v) \/ ScanCreates(v) \/ ScanRemovesSidecar(v) \/ ScanRecords(v)

Next ==
    \/ Listings
    \/ \E v \in Volume : Outside(v) \/ Execute(v)
    \/ \E r \in Request : Remove(r)
    \/ \E n \in Round : StartRound(n) \/ Observe(n) \/ Render(n)

Safety == Init /\ [][Next]_vars

-----------------------------------------------------------------------------
Gen == 1 .. MaxGen

(* Type invariant.                                                         *)
TypeOK ==
    /\ created \in 0 .. MaxGen
    /\ \A v \in Volume :
          /\ volume[v] = Absent
                \/ volume[v] \in [gen : Gen, pinned : BOOLEAN]
          /\ scan[v] \in [pc : {"idle", "found", "probing", "probed"}, gen : {NoGen} \cup Gen]
    /\ mounts \subseteq Container \X Volume
    /\ measured \subseteq Volume \X Gen
    /\ sighted \in [Volume -> SUBSET Gen]
    /\ erased \subseteq Gen /\ overlapped \subseteq Gen

(* The audit log tells the truth about removals: a VOLUME_DELETED row is   *)
(* written for a volume that this very request removed, and no volume has  *)
(* two.  Concurrent requests for one name, and requests for a name that is *)
(* reused meanwhile, are where this could go wrong.                        *)
DeletedAuditedOnce ==
    \A a, b \in audit :
        a[2] = "VOLUME_DELETED" /\ b[2] = "VOLUME_DELETED" =>
            /\ a[3] \in Gen /\ a[3] = request[a[1]].gone
            /\ a[3] = b[3] => a = b

(* History is lost only to a removal: rows of a volume are deleted only by *)
(* a request that made the daemon remove a volume of that name; a request  *)
(* that was blocked or answered 404 or 409 leaves them alone.              *)
HistoryLostOnlyToRemoval ==
    [][\A v \in Volume, g \in Gen :
          (<<v, g>> \in measured /\ <<v, g>> \notin measured')
          \/ (g \in sighted[v] /\ g \notin sighted'[v])
          => \E r \in Request : request[r].name = v /\ request[r].gone # NoGen
                                /\ request[r].pc = "landed" /\ request'[r].pc = "done"]_vars

Phantoms(v) == {g \in erased : <<v, g>> \in measured \/ g \in sighted[v]}

(* Operations that overlap a removal can write its history anew, which is  *)
(* then shown for the next volume of the name; nothing else can: what is   *)
(* left of a removed volume after it was forgotten was written by a scan,  *)
(* a round or a listing that already held the volume when the reply to its *)
(* removal arrived.                                                        *)
PhantomsComeFromOverlap == \A v \in Volume : Phantoms(v) \subseteq overlapped

(* Records and daemon agree in every state.                                *)
RemovalInv == TypeOK /\ PhantomsComeFromOverlap
=============================================================================
