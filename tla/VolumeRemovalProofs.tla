------------------------ MODULE VolumeRemovalProofs -------------------------
(***************************************************************************)
(* Proofs about VolumeRemoval, for all names, containers, requests and     *)
(* readers, and any number of volumes.                                     *)
(*                                                                         *)
(* The program knows volumes by name, the properties by generation.  The   *)
(* invariant therefore says which generations are known under which name,  *)
(* and to whom; that a generation some request removed is nobody's volume  *)
(* any more; and that whoever still holds one whose removal has landed     *)
(* held it at that moment.                                                 *)
(***************************************************************************)
EXTENDS VolumeRemoval, TLAPS

AnyGen == {NoGen} \cup Gen
VolumeList == [of : [Volume -> AnyGen]]
Inventory == [of : [Volume -> BOOLEAN]]

Flight(Answers) ==
    [stage : {"none", "sent"}, snapshot : {Absent}] \cup [stage : {"read"}, snapshot : Answers]

Before == {"idle", "inspected", "consulting", "consulted", "removing"}
After == {"removed", "landed", "done"}

RequestRecord ==
    [pc : Before \cup After, name : {Absent} \cup Volume, pinned : BOOLEAN,
     inventory : {Absent} \cup Inventory, gone : AnyGen]

RoundRecord ==
    [pc : {"idle", "listing"}, volumes : {Absent} \cup VolumeList,
     containers : {Absent} \cup Inventory]

Types ==
    /\ created \in 0 .. MaxGen
    /\ volume \in [Volume -> {Absent} \cup [gen : Gen, pinned : BOOLEAN]]
    /\ mounts \subseteq Container \X Volume
    /\ listing \in [volumes : {Absent} \cup VolumeList, containers : {Absent} \cup Inventory]
    /\ flight \in [volumes : Flight(VolumeList), containers : Flight(Inventory)]
    /\ request \in [Request -> RequestRecord]
    /\ scan \in [Volume -> [pc : {"idle", "found", "probing", "probed"}, gen : AnyGen]]
    /\ \A v \in Volume : scan[v].pc \in {"probing", "probed"} => scan[v].gen # NoGen
    /\ round \in [Round -> RoundRecord]
    /\ measured \subseteq Volume \X Gen
    /\ sighted \in [Volume -> SUBSET Gen]
    /\ erased \subseteq Gen /\ overlapped \subseteq Gen

\* A request has a generation to show from the daemon's answer on, and not before.
RequestOK ==
    \A r \in Request :
        /\ request[r].pc \in Before => request[r].gone = NoGen
        /\ request[r].pc \in {"removed", "landed"} => request[r].gone # NoGen
        /\ request[r].pc # "idle" /\ request[r].pc # "done" => request[r].name \in Volume
        /\ request[r].gone # NoGen => request[r].name \in Volume

\* Who may yet write generation g into the store, under the name v.
Holds(v, g) ==
    \/ scan[v].gen = g
    \/ listing["volumes"] # Absent /\ listing["volumes"].of[v] = g
    \/ flight["volumes"].stage = "read" /\ flight["volumes"].snapshot.of[v] = g
    \/ \E n \in Round : round[n].volumes # Absent /\ round[n].volumes.of[v] = g

RemovedAs(v, g) == \E r \in Request : request[r].gone = g /\ request[r].name = v

Belongs(v, g) ==
    \/ GenOf(v) = g
    \/ Holds(v, g)
    \/ <<v, g>> \in measured
    \/ g \in sighted[v]
    \/ RemovedAs(v, g)

\* A generation has existed, under one name.
OneName ==
    \A g \in Gen : \A u \in Volume :
        Belongs(u, g) => g <= created /\ \A v \in Volume : Belongs(v, g) => u = v

\* Only one request is told that it removed a volume, and the volume is gone.
GoneOnce ==
    \A r \in Request : request[r].gone # NoGen =>
        /\ \A s \in Request : request[s].gone = request[r].gone => r = s
        /\ \A v \in Volume : GenOf(v) # request[r].gone

AuditOK ==
    \A a \in audit : a[2] = "VOLUME_DELETED" =>
        /\ a[1] \in Request /\ a = <<a[1], "VOLUME_DELETED", request[a[1]].gone>>
        /\ request[a[1]].gone # NoGen /\ request[a[1]].pc = "done"

Landed(g) == \E r \in Request : request[r].gone = g /\ request[r].pc = "landed"

ErasedOK == \A g \in erased : \E v \in Volume : RemovedAs(v, g)

\* Who still holds what has been removed and forgotten, or is about to be.
HeldWasOverlapped ==
    \A v \in Volume, g \in Gen : Holds(v, g) /\ (g \in erased \/ Landed(g)) => g \in overlapped

IInv ==
    /\ Types /\ RequestOK /\ OneName /\ GoneOnce /\ AuditOK /\ ErasedOK
    /\ HeldWasOverlapped /\ PhantomsComeFromOverlap

-----------------------------------------------------------------------------
(* Steps that remove nothing on behalf of a request and forget nothing: a  *)
(* volume comes or goes, and what was known spreads from the daemon to the *)
(* listings, from there to those who read them, and on to the store.       *)
Quiet ==
    /\ created' \in {created, created + 1}
    /\ \A v \in Volume : GenOf(v)' \in {GenOf(v), NoGen} \/ GenOf(v)' = created + 1
    /\ \A u, v \in Volume : GenOf(u)' = created + 1 /\ GenOf(v)' = created + 1 => u = v
    /\ \A v \in Volume : GenOf(v)' = created + 1 => created' = created + 1
    /\ \A v \in Volume, g \in Gen : Holds(v, g)' => Holds(v, g) \/ GenOf(v)' = g
    /\ \A v \in Volume, g \in Gen : <<v, g>> \in measured' => <<v, g>> \in measured \/ Holds(v, g)
    /\ \A v \in Volume, g \in Gen : g \in sighted'[v] => g \in sighted[v] \/ Holds(v, g)
    /\ \A r \in Request :
          /\ request'[r].gone = request[r].gone
          /\ request[r].gone # NoGen => request'[r].name = request[r].name
          /\ request'[r].pc = "landed" => request[r].pc = "landed"
          /\ request[r].pc = "done" => request'[r].pc = "done"
    /\ \A a \in audit' : a \in audit \/ a[2] # "VOLUME_DELETED"
    /\ UNCHANGED history

LEMMA QuietInv ==
    ASSUME IInv, Quiet, Types', RequestOK'
    PROVE  IInv'
<1>1. /\ created \in Nat /\ erased \subseteq Gen
      /\ erased' = erased /\ overlapped' = overlapped
      /\ \A r \in Request : request[r].gone \in AnyGen /\ request'[r].gone = request[r].gone
  BY RemovalOptions DEF IInv, Types, RequestRecord, Quiet, history
<1>2. ASSUME NEW v \in Volume, NEW g \in Gen, Belongs(v, g)'
      PROVE  Belongs(v, g) \/ (GenOf(v)' = g /\ g = created + 1)
  <2>1. g # NoGen
    BY DEF Gen, NoGen
  <2>2. RemovedAs(v, g)' => RemovedAs(v, g)
    BY <2>1 DEF Quiet, RemovedAs
  <2>3. GenOf(v)' = g => GenOf(v) = g \/ g = created + 1
    BY <2>1 DEF Quiet
  <2>4. Holds(v, g)' \/ <<v, g>> \in measured' \/ g \in sighted'[v]
        => \/ Holds(v, g) \/ <<v, g>> \in measured \/ g \in sighted[v]
           \/ GenOf(v)' = g
    BY DEF Quiet
  <2> QED BY <1>2, <2>2, <2>3, <2>4 DEF Belongs
<1>3. OneName'
  <2> SUFFICES ASSUME NEW g \in Gen, NEW u \in Volume, Belongs(u, g)'
               PROVE  g <= created' /\ \A v \in Volume : Belongs(v, g)' => u = v
    BY DEF OneName
  <2>1. CASE GenOf(u)' = g /\ g = created + 1
    <3>1. created' = g
      BY <2>1 DEF Quiet
    <3>2. \A v \in Volume : ~ Belongs(v, g)
      BY <1>1, <2>1 DEF IInv, OneName
    <3>3. \A v \in Volume : Belongs(v, g)' => u = v
      BY <1>2, <2>1, <3>2 DEF Quiet
    <3> QED BY <1>1, <2>1, <3>1, <3>3
  <2>2. CASE Belongs(u, g)
    <3>1. g <= created /\ \A v \in Volume : Belongs(v, g) => u = v
      BY <2>2 DEF IInv, OneName
    <3>2. g <= created' /\ g # created + 1
      BY <1>1, <3>1 DEF Quiet, Gen
    <3> QED BY <1>2, <3>1, <3>2
  <2> QED BY <1>2, <2>1, <2>2
<1>4. ASSUME NEW r \in Request, request[r].gone # NoGen
      PROVE  /\ request[r].gone \in Gen /\ request[r].gone <= created
             /\ \A v \in Volume : GenOf(v)' # request[r].gone
  <2>1. request[r].gone \in Gen /\ request[r].name \in Volume
    BY <1>1, <1>4 DEF AnyGen, IInv, RequestOK
  <2>2. request[r].gone <= created
    BY <2>1 DEF IInv, OneName, Belongs, RemovedAs
  <2>3. request[r].gone # created + 1
    BY <1>1, <2>1, <2>2 DEF Gen
  <2> QED BY <1>4, <2>1, <2>2, <2>3 DEF IInv, GoneOnce, Quiet
<1>5. GoneOnce'
  BY <1>1, <1>4 DEF IInv, GoneOnce
<1>6. AuditOK'
  BY <1>1 DEF IInv, AuditOK, Quiet
<1>7. ErasedOK'
  <2>1. ASSUME NEW g \in erased PROVE \E v \in Volume : RemovedAs(v, g)'
    <3>1. PICK v \in Volume : RemovedAs(v, g)
      BY DEF IInv, ErasedOK
    <3>2. g # NoGen
      BY <1>1 DEF Gen, NoGen
    <3> QED BY <3>1, <3>2 DEF RemovedAs, Quiet
  <2> QED BY <1>1, <2>1 DEF ErasedOK
<1>8. \A g \in Gen : g \in erased \/ Landed(g)' =>
         /\ g \in erased \/ Landed(g)
         /\ \A v \in Volume : GenOf(v)' # g
  <2> SUFFICES ASSUME NEW g \in Gen, g \in erased \/ Landed(g)'
               PROVE  (g \in erased \/ Landed(g)) /\ \A v \in Volume : GenOf(v)' # g
    OBVIOUS
  <2>1. g # NoGen
    BY DEF Gen, NoGen
  <2>2. \E r \in Request : request[r].gone = g
    BY <1>1 DEF IInv, ErasedOK, RemovedAs, Landed
  <2>3. g \in erased \/ Landed(g)
    BY DEF Landed, Quiet
  <2> QED BY <1>4, <2>1, <2>2, <2>3
<1>9. HeldWasOverlapped'
  BY <1>1, <1>8 DEF HeldWasOverlapped, IInv, Quiet
<1>10. PhantomsComeFromOverlap'
  <2> SUFFICES ASSUME NEW v \in Volume, NEW g \in erased, <<v, g>> \in measured' \/ g \in sighted'[v]
               PROVE  g \in overlapped
    BY <1>1 DEF PhantomsComeFromOverlap, Phantoms
  <2>1. <<v, g>> \in measured \/ g \in sighted[v] \/ Holds(v, g)
    BY <1>1 DEF Quiet
  <2> QED BY <1>1, <2>1 DEF IInv, PhantomsComeFromOverlap, Phantoms, HeldWasOverlapped
<1> QED BY <1>3, <1>5, <1>6, <1>7, <1>9, <1>10 DEF IInv

-----------------------------------------------------------------------------
(* The daemon's other clients.                                             *)

\* No generation is known that has not existed.
LEMMA GenOfType ==
    ASSUME IInv, NEW v \in Volume
    PROVE  created \in Nat /\ GenOf(v) \in AnyGen /\ GenOf(v) # created + 1
<1>1. GenOf(v) \in AnyGen
  BY DEF IInv, Types, GenOf, AnyGen
<1>2. created \in Nat
  BY RemovalOptions DEF IInv, Types
<1>3. GenOf(v) # NoGen => GenOf(v) <= created
  BY <1>1 DEF IInv, OneName, Belongs, AnyGen
<1> QED BY <1>1, <1>2, <1>3 DEF NoGen, AnyGen, Gen

LEMMA CreateOutsideInv ==
    ASSUME IInv, NEW v \in Volume, CreateOutside(v)
    PROVE  IInv'
<1>1. volume \in [Volume -> {Absent} \cup [gen : Gen, pinned : BOOLEAN]] /\ created \in 0 .. MaxGen
  BY DEF IInv, Types
<1>2. PICK pinned \in BOOLEAN : volume' = [volume EXCEPT ![v] = [gen |-> created + 1, pinned |-> pinned]]
  BY DEF CreateOutside
<1>3. /\ created < MaxGen /\ created' = created + 1 /\ created + 1 \in Gen
      /\ UNCHANGED <<mounts, caches, request, scan, round, store, history>>
  BY <1>1, RemovalOptions DEF CreateOutside, Gen
<1>4. volume' \in [Volume -> {Absent} \cup [gen : Gen, pinned : BOOLEAN]]
  BY <1>1, <1>2, <1>3
<1>5. GenOf(v)' = created + 1 /\ \A w \in Volume : w # v => GenOf(w)' = GenOf(w)
  BY <1>1, <1>2, RemovalOptions DEF GenOf
<1>6. created' \in 0 .. MaxGen
  BY <1>1, <1>3, RemovalOptions
<1>7. Types' /\ RequestOK'
  BY <1>3, <1>4, <1>6 DEF IInv, Types, RequestOK, caches, store, history
<1>8. \A w \in Volume : \A g : Holds(w, g)' = Holds(w, g)
  BY <1>3 DEF caches, Holds
<1>9. Quiet
  BY <1>3, <1>5, <1>8, GenOfType DEF Quiet, store, history
<1> QED BY <1>7, <1>9, QuietInv

LEMMA RemoveOutsideInv ==
    ASSUME IInv, NEW v \in Volume, RemoveOutside(v)
    PROVE  IInv'
<1>1. volume' = [volume EXCEPT ![v] = Absent]
      /\ UNCHANGED <<created, mounts, caches, request, scan, round, store, history>>
  BY DEF RemoveOutside
<1>2. GenOf(v)' = NoGen /\ \A w \in Volume : w # v => GenOf(w)' = GenOf(w)
  BY <1>1 DEF GenOf, IInv, Types
<1>3. volume' \in [Volume -> {Absent} \cup [gen : Gen, pinned : BOOLEAN]]
  BY <1>1 DEF IInv, Types
<1>4. Types' /\ RequestOK'
  BY <1>1, <1>3 DEF IInv, Types, RequestOK, caches, store, history
<1>5. \A w \in Volume : \A g : Holds(w, g)' = Holds(w, g)
  BY <1>1 DEF caches, Holds
<1>6. created + 1 # NoGen
  BY GenOfType DEF NoGen
<1>7. Quiet
  BY <1>1, <1>2, <1>5, <1>6, GenOfType DEF Quiet, store, history
<1> QED BY <1>4, <1>7, QuietInv

\* What is the same in most steps of the program.
LEMMA SameDaemon ==
    ASSUME IInv, UNCHANGED <<volume, created>>
    PROVE  /\ created' \in {created, created + 1}
           /\ \A v \in Volume : GenOf(v)' = GenOf(v) /\ GenOf(v) # created + 1
BY GenOfType DEF GenOf

LEMMA MountInv ==
    ASSUME IInv, NEW c \in Container, NEW v \in Volume, Attach(c, v) \/ Detach(c, v)
    PROVE  IInv'
<1>1. UNCHANGED <<volume, created, caches, request, scan, round, store, history>>
  BY DEF Attach, Detach
<1>2. mounts' \subseteq Container \X Volume
  BY DEF Attach, Detach, IInv, Types
<1>3. Types' /\ RequestOK'
  BY <1>1, <1>2 DEF IInv, Types, RequestOK, caches, store, history
<1>4. \A w \in Volume : \A g : Holds(w, g)' = Holds(w, g)
  BY <1>1 DEF caches, Holds
<1>5. Quiet
  BY <1>1, <1>4, SameDaemon DEF Quiet, store, history
<1> QED BY <1>3, <1>5, QuietInv

-----------------------------------------------------------------------------
(* The listings: a snapshot holds what the daemon has.                     *)

LEMMA SnapshotType ==
    ASSUME IInv
    PROVE  Snapshot("volumes") \in VolumeList /\ Snapshot("containers") \in Inventory
<1>1. \A v \in Volume : GenOf(v) \in AnyGen
  BY DEF IInv, Types, GenOf, AnyGen
<1>2. Snapshot("volumes") = [of |-> [v \in Volume |-> GenOf(v)]]
  BY DEF Snapshot
<1>3. Snapshot("containers") = [of |-> [v \in Volume |-> Referenced(v)]]
  BY DEF Snapshot
<1>4. \A v \in Volume : Referenced(v) \in BOOLEAN
  BY DEF Referenced
<1> QED BY <1>1, <1>2, <1>3, <1>4 DEF VolumeList, Inventory

LEMMA ReadListingInv ==
    ASSUME IInv, NEW kind \in {"volumes", "containers"}, ReadListing(kind)
    PROVE  IInv'
<1>1. /\ flight' = [flight EXCEPT ![kind] = [stage |-> "read", snapshot |-> Snapshot(kind)]]
      /\ UNCHANGED <<daemon, listing, request, scan, round, store, history>>
  BY DEF ReadListing
<1>2. flight' \in [volumes : Flight(VolumeList), containers : Flight(Inventory)]
  BY <1>1, SnapshotType DEF IInv, Types, Flight
<1>3. Types' /\ RequestOK'
  BY <1>1, <1>2 DEF IInv, Types, RequestOK, daemon, store, history
<1>4. \A v \in Volume : \A g : Holds(v, g)' => Holds(v, g) \/ GenOf(v) = g
  <2> SUFFICES ASSUME NEW v \in Volume, NEW g, Holds(v, g)', ~ Holds(v, g)
               PROVE  GenOf(v) = g
    OBVIOUS
  <2>1. flight'["volumes"].stage = "read" /\ flight'["volumes"].snapshot.of[v] = g
        /\ flight'["volumes"] # flight["volumes"]
    BY <1>1 DEF Holds
  <2>2. kind = "volumes" /\ flight'["volumes"].snapshot = Snapshot("volumes")
    BY <1>1, <2>1 DEF IInv, Types
  <2> QED BY <2>1, <2>2 DEF Snapshot
<1>5. Quiet
  BY <1>1, <1>4, SameDaemon DEF Quiet, daemon, store, history
<1> QED BY <1>3, <1>5, QuietInv

LEMMA AtType ==
    ASSUME IInv, NEW r \in Request, NEW p \in Before \cup After
    PROVE  /\ At(p, r) \in RequestRecord /\ At(p, r).pc = p
           /\ At(p, r).name = request[r].name /\ At(p, r).gone = request[r].gone
<1>1. request[r] \in RequestRecord
  BY DEF IInv, Types
<1> QED BY <1>1 DEF At, RequestRecord

LEMMA DoneType ==
    ASSUME IInv, NEW r \in Request
    PROVE  /\ Done(r) \in RequestRecord /\ Done(r).pc = "done"
           /\ Done(r).name = request[r].name /\ Done(r).gone = request[r].gone
BY AtType DEF Done, After

\* Steps that leave the daemon and the store alone.
LEMMA KnowledgeSpreads ==
    ASSUME IInv, UNCHANGED <<volume, created, measured, sighted, history>>,
           \A a \in audit' : a \in audit \/ a[2] # "VOLUME_DELETED",
           \A v \in Volume : \A g : Holds(v, g)' => Holds(v, g),
           \A r \in Request :
               /\ request'[r].gone = request[r].gone
               /\ request[r].gone # NoGen => request'[r].name = request[r].name
               /\ request'[r].pc = "landed" => request[r].pc = "landed"
               /\ request[r].pc = "done" => request'[r].pc = "done"
    PROVE  Quiet
BY SameDaemon DEF Quiet

\* A flight that has been read has a snapshot of its kind.
LEMMA ReadHasSnapshot ==
    ASSUME IInv
    PROVE  /\ flight["volumes"].stage = "read" => flight["volumes"].snapshot \in VolumeList
           /\ flight["containers"].stage = "read" => flight["containers"].snapshot \in Inventory
           /\ NoFlight \in Flight(VolumeList) /\ NoFlight \in Flight(Inventory)
BY DEF IInv, Types, Flight, NoFlight

LEMMA LandInv ==
    ASSUME IInv, NEW kind \in {"volumes", "containers"}, Land(kind)
    PROVE  IInv'
<1> DEFINE S == flight[kind].snapshot
           Kinds(k) == IF k = "volumes" THEN VolumeList ELSE Inventory
<1>1. /\ flight[kind].stage = "read"
      /\ listing' = [listing EXCEPT ![kind] = S]
      /\ flight' = [flight EXCEPT ![kind] = NoFlight]
      /\ request' = [r \in Request |->
            IF kind = "containers" /\ request[r].pc = "consulting"
            THEN [request[r] EXCEPT !.pc = "consulted", !.inventory = S] ELSE request[r]]
      /\ round' = [n \in Round |->
            IF round[n].pc = "listing" /\ round[n][kind] = Absent
            THEN [round[n] EXCEPT ![kind] = S] ELSE round[n]]
      /\ UNCHANGED <<daemon, scan, store, history>>
  BY DEF Land
<1>2. /\ kind = "volumes" => S \in VolumeList
      /\ kind = "containers" => S \in Inventory
  BY <1>1, ReadHasSnapshot
<1> HIDE DEF S
<1>3. listing' \in [volumes : {Absent} \cup VolumeList, containers : {Absent} \cup Inventory]
  BY <1>1, <1>2 DEF IInv, Types
<1>4. flight' \in [volumes : Flight(VolumeList), containers : Flight(Inventory)]
  BY <1>1, ReadHasSnapshot DEF IInv, Types
<1>5. request' \in [Request -> RequestRecord]
  <2> SUFFICES ASSUME NEW r \in Request PROVE request'[r] \in RequestRecord
    BY <1>1
  <2>1. request[r] \in RequestRecord
    BY DEF IInv, Types
  <2>2. kind = "containers" => [request[r] EXCEPT !.pc = "consulted", !.inventory = S] \in RequestRecord
    BY <1>2, <2>1 DEF RequestRecord, Before, After
  <2> QED BY <1>1, <2>1, <2>2
<1>6. round' \in [Round -> RoundRecord]
  <2> SUFFICES ASSUME NEW n \in Round PROVE round'[n] \in RoundRecord
    BY <1>1
  <2>1. round[n] \in RoundRecord
    BY DEF IInv, Types
  <2>2. [round[n] EXCEPT ![kind] = S] \in RoundRecord
    BY <1>2, <2>1 DEF RoundRecord
  <2> QED BY <1>1, <2>1, <2>2
<1>7. Types'
  BY <1>1, <1>3, <1>4, <1>5, <1>6 DEF IInv, Types, daemon, store, history
<1>8. \A r \in Request :
          /\ request'[r].gone = request[r].gone /\ request'[r].name = request[r].name
          /\ \/ request'[r].pc = request[r].pc
             \/ request[r].pc = "consulting" /\ request'[r].pc = "consulted"
  BY <1>1 DEF IInv, Types, RequestRecord
<1>9. RequestOK'
  BY <1>8 DEF IInv, RequestOK, Before
<1>10. \A v \in Volume : \A g : Holds(v, g)' => Holds(v, g)
  <2> SUFFICES ASSUME NEW v \in Volume, NEW g, Holds(v, g)', kind = "volumes"
               PROVE  Holds(v, g)
    <3> SUFFICES ASSUME kind = "containers"
                 PROVE  \A v \in Volume : \A g : Holds(v, g)' => Holds(v, g)
      OBVIOUS
    <3>1. listing'["volumes"] = listing["volumes"] /\ flight'["volumes"] = flight["volumes"]
      BY <1>1 DEF IInv, Types
    <3>2. \A n \in Round : round'[n].volumes = round[n].volumes
      BY <1>1 DEF IInv, Types, RoundRecord
    <3> QED BY <1>1, <3>1, <3>2 DEF Holds
  <2>1. S.of[v] = g => Holds(v, g)
    BY <1>1 DEF Holds, S
  <2>2. listing'["volumes"] = S /\ flight'["volumes"].stage # "read"
    BY <1>1 DEF NoFlight, IInv, Types
  <2>3. \A n \in Round : round'[n].volumes \in {round[n].volumes, S}
    BY <1>1 DEF IInv, Types, RoundRecord
  <2> QED BY <1>1, <2>1, <2>2, <2>3 DEF Holds
<1>11. Quiet
  BY <1>1, <1>8, <1>10, KnowledgeSpreads DEF daemon, store
<1> QED BY <1>7, <1>9, <1>11, QuietInv

LEMMA FailListingInv ==
    ASSUME IInv, NEW kind \in {"volumes", "containers"}, FailListing(kind)
    PROVE  IInv'
<1>1. /\ flight' = [flight EXCEPT ![kind] = NoFlight]
      /\ request' = [r \in Request |->
            IF kind = "containers" /\ request[r].pc = "consulting" THEN Done(r) ELSE request[r]]
      /\ round' = [n \in Round |->
            IF round[n].pc = "listing" /\ round[n][kind] = Absent
            THEN [pc |-> "idle", volumes |-> Absent, containers |-> Absent] ELSE round[n]]
      /\ UNCHANGED <<daemon, listing, scan, store, history>>
  BY DEF FailListing
<1>2. flight' \in [volumes : Flight(VolumeList), containers : Flight(Inventory)]
  BY <1>1, ReadHasSnapshot DEF IInv, Types
<1>3. request' \in [Request -> RequestRecord]
  <2>1. \A r \in Request : request[r] \in RequestRecord /\ Done(r) \in RequestRecord
    BY DoneType DEF IInv, Types
  <2> QED BY <1>1, <2>1
<1>4. round' \in [Round -> RoundRecord]
  <2>1. [pc |-> "idle", volumes |-> Absent, containers |-> Absent] \in RoundRecord
    BY DEF RoundRecord
  <2> QED BY <1>1, <2>1 DEF IInv, Types
<1>5. Types'
  BY <1>1, <1>2, <1>3, <1>4 DEF IInv, Types, daemon, store, history
<1>6. \A r \in Request :
          /\ request'[r].gone = request[r].gone /\ request'[r].name = request[r].name
          /\ \/ request'[r].pc = request[r].pc
             \/ request[r].pc = "consulting" /\ request'[r].pc = "done"
  BY <1>1, DoneType
<1>7. RequestOK'
  BY <1>6 DEF IInv, RequestOK, Before
<1>8. \A v \in Volume : \A g : Holds(v, g)' => Holds(v, g)
  BY <1>1 DEF Holds, NoFlight, IInv, Types
<1>9. Quiet
  BY <1>1, <1>6, <1>8, KnowledgeSpreads DEF daemon, store
<1> QED BY <1>5, <1>7, <1>9, QuietInv

LEMMA ExpireInv ==
    ASSUME IInv, NEW kind \in {"volumes", "containers"}, Expire(kind)
    PROVE  IInv'
<1>1. /\ listing' = [listing EXCEPT ![kind] = Absent]
      /\ UNCHANGED <<daemon, flight, request, scan, round, store, history>>
  BY DEF Expire
<1>2. listing' \in [volumes : {Absent} \cup VolumeList, containers : {Absent} \cup Inventory]
  BY <1>1 DEF IInv, Types
<1>3. Types' /\ RequestOK'
  BY <1>1, <1>2 DEF IInv, Types, RequestOK, daemon, store, history
<1>4. \A v \in Volume : \A g : Holds(v, g)' => Holds(v, g)
  BY <1>1 DEF Holds, IInv, Types
<1>5. Quiet
  BY <1>1, <1>4, KnowledgeSpreads DEF daemon, store
<1> QED BY <1>3, <1>5, QuietInv

LEMMA AskedType ==
    ASSUME IInv, NEW kinds, Asked(kinds)
    PROVE  /\ flight' \in [volumes : Flight(VolumeList), containers : Flight(Inventory)]
           /\ flight'["volumes"].stage = "read" => flight'["volumes"] = flight["volumes"]
<1> DEFINE Sent == [NoFlight EXCEPT !.stage = "sent"]
<1>1. /\ DOMAIN flight = {"volumes", "containers"}
      /\ flight["volumes"] \in Flight(VolumeList) /\ flight["containers"] \in Flight(Inventory)
  BY DEF IInv, Types
<1>2. Sent \in Flight(VolumeList) /\ Sent \in Flight(Inventory) /\ Sent.stage # "read"
  BY DEF NoFlight, Flight
<1> HIDE DEF Sent
<1>3. flight' = [kind \in {"volumes", "containers"} |->
          IF kind \in kinds /\ listing[kind] = Absent /\ flight[kind].stage = "none"
          THEN Sent ELSE flight[kind]]
  BY <1>1 DEF Asked, Sent
<1> QED BY <1>1, <1>2, <1>3

-----------------------------------------------------------------------------
(* Readers of both listings.                                               *)

LEMMA StartRoundInv ==
    ASSUME IInv, NEW n \in Round, StartRound(n)
    PROVE  IInv'
<1> DEFINE R == [pc |-> "listing", volumes |-> listing["volumes"],
                 containers |-> listing["containers"]]
<1>1. /\ round' = [round EXCEPT ![n] = R]
      /\ Asked({"volumes", "containers"})
      /\ UNCHANGED <<daemon, listing, request, scan, store, history>>
  BY DEF StartRound
<1>2. R \in RoundRecord /\ R.volumes = listing["volumes"]
  BY DEF IInv, Types, RoundRecord
<1> HIDE DEF R
<1>3. round' \in [Round -> RoundRecord]
  BY <1>1, <1>2 DEF IInv, Types
<1>4. Types' /\ RequestOK'
  BY <1>1, <1>3, AskedType DEF IInv, Types, RequestOK, daemon, store, history
<1>5. \A v \in Volume : \A g : Holds(v, g)' => Holds(v, g)
  BY <1>1, <1>2, AskedType DEF Holds, IInv, Types
<1>6. Quiet
  BY <1>1, <1>5, KnowledgeSpreads DEF daemon, store
<1> QED BY <1>4, <1>6, QuietInv

\* What Observe and Render have in common.
LEMMA RoundEnds ==
    ASSUME IInv, NEW n \in Round,
           round' = [round EXCEPT ![n] = [pc |-> "idle", volumes |-> Absent, containers |-> Absent]],
           UNCHANGED <<caches, scan>>
    PROVE  /\ round' \in [Round -> RoundRecord]
           /\ \A v \in Volume : \A g : Holds(v, g)' => Holds(v, g)
<1> DEFINE R == [pc |-> "idle", volumes |-> Absent, containers |-> Absent]
<1>1. R \in RoundRecord /\ R.volumes = Absent
  BY DEF RoundRecord
<1> HIDE DEF R
<1>2. round' = [round EXCEPT ![n] = R] /\ round \in [Round -> RoundRecord]
  BY DEF R, IInv, Types
<1> QED BY <1>1, <1>2 DEF Holds, caches

LEMMA ObserveInv ==
    ASSUME IInv, NEW n \in Round, Observe(n)
    PROVE  IInv'
<1>1. /\ sighted' = [v \in Volume |->
            IF round[n].volumes.of[v] = NoGen THEN sighted[v]
            ELSE sighted[v] \cup {round[n].volumes.of[v]}]
      /\ round[n].volumes # Absent
      /\ UNCHANGED <<daemon, caches, request, scan, measured, audit, history>>
  BY DEF Observe
<1>2. round' \in [Round -> RoundRecord] /\ \A v \in Volume : \A g : Holds(v, g)' => Holds(v, g)
  BY RoundEnds DEF Observe
<1>3. \A v \in Volume : round[n].volumes.of[v] \in AnyGen
  BY <1>1 DEF IInv, Types, RoundRecord, VolumeList
<1>4. sighted' \in [Volume -> SUBSET Gen]
  BY <1>1, <1>3 DEF IInv, Types, AnyGen
<1>5. Types' /\ RequestOK'
  BY <1>1, <1>2, <1>4 DEF IInv, Types, RequestOK, daemon, caches, history
<1>6. \A v \in Volume, g \in Gen : g \in sighted'[v] => g \in sighted[v] \/ Holds(v, g)
  BY <1>1 DEF Holds
<1>7. Quiet
  BY <1>1, <1>2, <1>6, SameDaemon DEF Quiet, daemon
<1> QED BY <1>5, <1>7, QuietInv

LEMMA RenderInv ==
    ASSUME IInv, NEW n \in Round, Render(n)
    PROVE  IInv'
<1>1. UNCHANGED <<daemon, caches, request, scan, store, history>>
  BY DEF Render
<1>2. round' \in [Round -> RoundRecord] /\ \A v \in Volume : \A g : Holds(v, g)' => Holds(v, g)
  BY RoundEnds DEF Render
<1>3. Types' /\ RequestOK'
  BY <1>1, <1>2 DEF IInv, Types, RequestOK, daemon, caches, store, history
<1>4. Quiet
  BY <1>1, <1>2, KnowledgeSpreads DEF daemon, store
<1> QED BY <1>3, <1>4, QuietInv

-----------------------------------------------------------------------------
(* The body of a scan.                                                     *)

LEMMA ScanMovesInv ==
    ASSUME IInv, NEW v \in Volume, ScanFinds(v) \/ ScanRemovesSidecar(v)
    PROVE  IInv'
<1>1. UNCHANGED <<daemon, caches, request, round, store, history>>
  BY DEF ScanFinds, ScanRemovesSidecar
<1> DEFINE Scan == [pc : {"idle", "found", "probing", "probed"}, gen : AnyGen]
<1>2. /\ scan' \in [Volume -> Scan]
      /\ \A w \in Volume : scan'[w].pc \in {"probing", "probed"} => scan'[w].gen # NoGen
      /\ \A w \in Volume : scan'[w].gen \in {scan[w].gen, NoGen}
  <2>1. scan \in [Volume -> Scan] /\ NoGen \in AnyGen
        /\ \A w \in Volume : scan[w].pc \in {"probing", "probed"} => scan[w].gen # NoGen
    BY DEF IInv, Types, AnyGen
  <2>2. CASE scan' = [scan EXCEPT ![v].pc = "found"] /\ scan[v].pc = "idle"
    BY <2>1, <2>2
  <2>3. CASE scan' = [scan EXCEPT ![v].pc = "probed"] /\ scan[v].pc = "probing"
    BY <2>1, <2>3
  <2>4. CASE scan' = [scan EXCEPT ![v] = [pc |-> "idle", gen |-> NoGen]]
    BY <2>1, <2>4
  <2> QED BY <2>2, <2>3, <2>4 DEF ScanFinds, ScanRemovesSidecar
<1>3. Types' /\ RequestOK'
  BY <1>1, <1>2 DEF IInv, Types, RequestOK, daemon, caches, store, history
<1>4. \A w \in Volume, g \in Gen : Holds(w, g)' => Holds(w, g)
  BY <1>1, <1>2 DEF Holds, caches, Gen, NoGen
<1>5. Quiet
  BY <1>1, <1>4, SameDaemon DEF Quiet, daemon, store, history
<1> QED BY <1>3, <1>5, QuietInv

LEMMA ScanCreatesInv ==
    ASSUME IInv, NEW v \in Volume, ScanCreates(v)
    PROVE  IInv'
<1> DEFINE Scan == [pc : {"idle", "found", "probing", "probed"}, gen : AnyGen]
           Vol == {Absent} \cup [gen : Gen, pinned : BOOLEAN]
<1>1. /\ volume \in [Volume -> Vol] /\ created \in 0 .. MaxGen /\ scan \in [Volume -> Scan]
      /\ UNCHANGED <<mounts, caches, request, round, store, history>>
      /\ scan' = [scan EXCEPT ![v] = [pc |-> "probing", gen |-> volume'[v].gen]]
  BY DEF IInv, Types, ScanCreates
<1>2. /\ created' \in 0 .. MaxGen /\ volume' \in [Volume -> Vol] /\ volume'[v] # Absent
      /\ volume'[v].gen \in Gen
      /\ \/ UNCHANGED <<volume, created>>
         \/ /\ created' = created + 1
            /\ GenOf(v)' = created + 1 /\ \A w \in Volume : w # v => GenOf(w)' = GenOf(w)
  <2>1. CASE volume[v] = Absent
    <3> DEFINE new == [gen |-> created + 1, pinned |-> FALSE]
    <3>1. created < MaxGen /\ created' = created + 1 /\ volume' = [volume EXCEPT ![v] = new]
      BY <2>1 DEF ScanCreates
    <3>2. created + 1 \in Gen /\ created' \in 0 .. MaxGen
      BY <1>1, <3>1, RemovalOptions DEF Gen
    <3>3. new \in [gen : Gen, pinned : BOOLEAN] /\ new.gen = created + 1
      BY <3>2
    <3>4. new # Absent
      <4>1. created + 1 \in Nat
        BY <1>1, RemovalOptions
      <4>2. new \in [gen : Nat, pinned : BOOLEAN]
        BY <4>1
      <4> QED BY <4>2, RemovalOptions
    <3> HIDE DEF new
    <3>5. volume' \in [Volume -> Vol] /\ volume'[v] = new
          /\ \A w \in Volume : w # v => volume'[w] = volume[w]
      BY <1>1, <3>1, <3>3
    <3> QED BY <1>1, <3>1, <3>2, <3>3, <3>4, <3>5 DEF GenOf
  <2>2. CASE volume[v] # Absent
    BY <1>1, <2>2 DEF ScanCreates
  <2> QED BY <2>1, <2>2
<1>3. scan' \in [Volume -> Scan] /\ scan'[v].gen = GenOf(v)' /\ scan'[v].gen # NoGen
      /\ \A w \in Volume : w # v => scan'[w] = scan[w]
  BY <1>1, <1>2 DEF GenOf, AnyGen, Gen, NoGen
<1>4. Types' /\ RequestOK'
  BY <1>1, <1>2, <1>3 DEF IInv, Types, RequestOK, caches, store, history
<1>5. \A w \in Volume, g \in Gen : Holds(w, g)' => Holds(w, g) \/ GenOf(w)' = g
  BY <1>1, <1>3 DEF Holds, caches
<1>6. \A w \in Volume : GenOf(w) # created + 1
  BY GenOfType
<1>7. CASE UNCHANGED <<volume, created>>
  <2>1. Quiet
    BY <1>1, <1>5, <1>7, SameDaemon DEF Quiet, store, history
  <2> QED BY <1>4, <2>1, QuietInv
<1>8. CASE created' = created + 1 /\ GenOf(v)' = created + 1
           /\ \A w \in Volume : w # v => GenOf(w)' = GenOf(w)
  <2>1. Quiet
    BY <1>1, <1>5, <1>6, <1>8 DEF Quiet, store, history
  <2> QED BY <1>4, <2>1, QuietInv
<1> QED BY <1>2, <1>7, <1>8

LEMMA ScanRecordsInv ==
    ASSUME IInv, NEW v \in Volume, ScanRecords(v)
    PROVE  IInv'
<1> DEFINE Scan == [pc : {"idle", "found", "probing", "probed"}, gen : AnyGen]
<1>1. /\ scan[v].pc = "probed"
      /\ scan' = [scan EXCEPT ![v] = [pc |-> "idle", gen |-> NoGen]]
      /\ measured' = measured \cup {<<v, scan[v].gen>>}
      /\ UNCHANGED <<daemon, caches, request, round, sighted, audit, history>>
  BY DEF ScanRecords
<1>2. /\ scan' \in [Volume -> Scan]
      /\ \A w \in Volume : scan'[w].pc \in {"probing", "probed"} => scan'[w].gen # NoGen
      /\ \A w \in Volume : scan'[w].gen \in {scan[w].gen, NoGen}
  BY <1>1 DEF IInv, Types, AnyGen
<1>3. measured' \subseteq Volume \X Gen
  BY <1>1 DEF IInv, Types, AnyGen
<1>4. Types' /\ RequestOK'
  BY <1>1, <1>2, <1>3 DEF IInv, Types, RequestOK, daemon, caches, history
<1>5. \A w \in Volume, g \in Gen : Holds(w, g)' => Holds(w, g)
  BY <1>1, <1>2 DEF Holds, caches, Gen, NoGen
<1>6. \A w \in Volume, g \in Gen : <<w, g>> \in measured' => <<w, g>> \in measured \/ Holds(w, g)
  BY <1>1 DEF Holds
<1>7. Quiet
  BY <1>1, <1>5, <1>6, SameDaemon DEF Quiet, daemon, history
<1> QED BY <1>4, <1>7, QuietInv

-----------------------------------------------------------------------------
(* A request, up to its removal.                                           *)

\* Steps of one request that neither get nor use up a generation.
LEMMA RequestMoves ==
    ASSUME IInv, NEW r \in Request, NEW next \in RequestRecord,
           request' = [request EXCEPT ![r] = next],
           next.gone = request[r].gone,
           next.pc \in Before => request[r].pc \in Before,
           next.pc \notin {"idle", "removed", "landed"},
           next.pc # "done" => next.name \in Volume,
           request[r].gone # NoGen => next.name = request[r].name,
           request[r].pc = "done" => next.pc = "done"
    PROVE  /\ request' \in [Request -> RequestRecord] /\ RequestOK'
           /\ \A s \in Request :
                 /\ request'[s].gone = request[s].gone
                 /\ request[s].gone # NoGen => request'[s].name = request[s].name
                 /\ request'[s].pc = "landed" => request[s].pc = "landed"
                 /\ request[s].pc = "done" => request'[s].pc = "done"
<1>1. request \in [Request -> RequestRecord]
  BY DEF IInv, Types
<1>2. request'[r] = next /\ \A s \in Request : s # r => request'[s] = request[s]
  BY <1>1
<1>3. RequestOK'
  BY <1>2 DEF IInv, RequestOK
<1> QED BY <1>1, <1>2, <1>3

LEMMA InspectInv ==
    ASSUME IInv, NEW r \in Request, NEW v \in Volume, Inspect(r, v)
    PROVE  IInv'
<1> DEFINE Found == [request[r] EXCEPT !.pc = "inspected", !.name = v, !.pinned = volume[v].pinned]
<1>1. /\ request[r].pc = "idle" /\ request[r] \in RequestRecord /\ request[r].gone = NoGen
      /\ UNCHANGED <<daemon, caches, scan, round, store, history>>
  BY DEF IInv, Types, RequestOK, Before, Inspect
<1>2. volume[v] # Absent =>
         /\ Found \in RequestRecord /\ Found.pc = "inspected" /\ Found.name = v
         /\ Found.gone = request[r].gone
  BY <1>1 DEF IInv, Types, RequestRecord, Before
<1>3. \/ request' = [request EXCEPT ![r] = Done(r)]
      \/ volume[v] # Absent /\ request' = [request EXCEPT ![r] = Found]
  BY DEF Inspect
<1> HIDE DEF Found
<1>4. /\ request' \in [Request -> RequestRecord] /\ RequestOK'
      /\ \A s \in Request :
            /\ request'[s].gone = request[s].gone
            /\ request[s].gone # NoGen => request'[s].name = request[s].name
            /\ request'[s].pc = "landed" => request[s].pc = "landed"
            /\ request[s].pc = "done" => request'[s].pc = "done"
  <2>1. CASE request' = [request EXCEPT ![r] = Done(r)]
    BY <1>1, <2>1, DoneType, RequestMoves DEF Before
  <2>2. CASE volume[v] # Absent /\ request' = [request EXCEPT ![r] = Found]
    BY <1>1, <1>2, <2>2, RequestMoves DEF Before
  <2> QED BY <1>3, <2>1, <2>2
<1>5. Types'
  BY <1>1, <1>4 DEF IInv, Types, daemon, caches, store, history
<1>6. \A w \in Volume : \A g : Holds(w, g)' => Holds(w, g)
  BY <1>1 DEF Holds, caches
<1>7. Quiet
  BY <1>1, <1>4, <1>6, KnowledgeSpreads DEF daemon, store
<1> QED BY <1>4, <1>5, <1>7, QuietInv

LEMMA ConsultInv ==
    ASSUME IInv, NEW r \in Request, Consult(r)
    PROVE  IInv'
<1> DEFINE next == [request[r] EXCEPT !.inventory = listing["containers"],
                       !.pc = IF listing["containers"] = Absent THEN "consulting" ELSE "consulted"]
<1>1. /\ request[r].pc = "inspected" /\ request[r] \in RequestRecord
      /\ request[r].gone = NoGen /\ request[r].name \in Volume
      /\ Asked({"containers"})
      /\ UNCHANGED <<daemon, listing, scan, round, store, history>>
  BY DEF IInv, Types, RequestOK, Before, Consult
<1>2. /\ next \in RequestRecord /\ next.pc \in {"consulting", "consulted"}
      /\ next.gone = request[r].gone /\ next.name = request[r].name
  BY <1>1 DEF IInv, Types, RequestRecord, Before
<1>3. request' = [request EXCEPT ![r] = next]
  BY <1>1 DEF Consult, IInv, Types, RequestRecord
<1> HIDE DEF next
<1>4. /\ request' \in [Request -> RequestRecord] /\ RequestOK'
      /\ \A s \in Request :
            /\ request'[s].gone = request[s].gone
            /\ request[s].gone # NoGen => request'[s].name = request[s].name
            /\ request'[s].pc = "landed" => request[s].pc = "landed"
            /\ request[s].pc = "done" => request'[s].pc = "done"
  BY <1>1, <1>2, <1>3, RequestMoves DEF Before
<1>5. Types'
  BY <1>1, <1>4, AskedType DEF IInv, Types, daemon, store, history
<1>6. \A w \in Volume : \A g : Holds(w, g)' => Holds(w, g)
  BY <1>1, AskedType DEF Holds
<1>7. Quiet
  BY <1>1, <1>4, <1>6, KnowledgeSpreads DEF daemon, store
<1> QED BY <1>4, <1>5, <1>7, QuietInv

LEMMA EvaluateInv ==
    ASSUME IInv, NEW r \in Request, Evaluate(r)
    PROVE  IInv'
<1>1. /\ request[r].pc = "consulted" /\ request[r].gone = NoGen /\ request[r].name \in Volume
      /\ UNCHANGED <<daemon, caches, scan, round, measured, sighted, history>>
  BY DEF IInv, RequestOK, Before, Evaluate
<1>2. \/ request' = [request EXCEPT ![r] = At("removing", r)]
      \/ request' = [request EXCEPT ![r] = Done(r)]
  BY DEF Evaluate
<1>3. audit' = audit \/ audit' = audit \cup {<<r, "VOLUME_DELETE_BLOCKED", NoGen>>}
  BY DEF Evaluate
<1>4. /\ request' \in [Request -> RequestRecord] /\ RequestOK'
      /\ \A s \in Request :
            /\ request'[s].gone = request[s].gone
            /\ request[s].gone # NoGen => request'[s].name = request[s].name
            /\ request'[s].pc = "landed" => request[s].pc = "landed"
            /\ request[s].pc = "done" => request'[s].pc = "done"
  <2>1. CASE request' = [request EXCEPT ![r] = At("removing", r)]
    <3>1. "removing" \in Before \cup After
      BY DEF Before
    <3> QED BY <1>1, <2>1, <3>1, AtType, RequestMoves DEF Before
  <2>2. CASE request' = [request EXCEPT ![r] = Done(r)]
    BY <1>1, <2>2, DoneType, RequestMoves DEF Before
  <2> QED BY <1>2, <2>1, <2>2
<1>5. Types'
  BY <1>1, <1>4 DEF IInv, Types, daemon, caches, history
<1>6. \A w \in Volume : \A g : Holds(w, g)' => Holds(w, g)
  BY <1>1 DEF Holds, caches
<1>7. Quiet
  BY <1>1, <1>3, <1>4, <1>6, KnowledgeSpreads DEF daemon
<1> QED BY <1>4, <1>5, <1>7, QuietInv

-----------------------------------------------------------------------------
(* The removal.  The daemon's answer gives the request a generation that   *)
(* no other request has, since the volume was still there.                 *)

LEMMA RemovalRefusedInv ==
    ASSUME IInv, NEW r \in Request, request[r].pc = "removing",
           request' = [request EXCEPT ![r] = Done(r)],
           UNCHANGED <<daemon, caches, scan, round, store, history>>
    PROVE  IInv'
<1>1. request[r].gone = NoGen
  BY DEF IInv, RequestOK, Before
<1>2. /\ request' \in [Request -> RequestRecord] /\ RequestOK'
      /\ \A s \in Request :
            /\ request'[s].gone = request[s].gone
            /\ request[s].gone # NoGen => request'[s].name = request[s].name
            /\ request'[s].pc = "landed" => request[s].pc = "landed"
            /\ request[s].pc = "done" => request'[s].pc = "done"
  BY <1>1, DoneType, RequestMoves DEF Before
<1>3. Types'
  BY <1>2 DEF IInv, Types, daemon, caches, store, history
<1>4. \A w \in Volume : \A g : Holds(w, g)' => Holds(w, g)
  BY DEF Holds, caches
<1>5. Quiet
  BY <1>2, <1>4, KnowledgeSpreads DEF daemon, store
<1> QED BY <1>2, <1>3, <1>5, QuietInv

LEMMA DaemonRemoveInv ==
    ASSUME IInv, NEW r \in Request, DaemonRemove(r)
    PROVE  IInv'
<1>1. /\ request[r].pc = "removing" /\ request[r].gone = NoGen
      /\ UNCHANGED <<created, mounts, caches, scan, round, store, history>>
  BY DEF IInv, RequestOK, Before, DaemonRemove
<1>2. PICK v \in Volume : v = request[r].name
  BY <1>1 DEF IInv, RequestOK
<1> SUFFICES ASSUME volume[v] # Absent, volume' = [volume EXCEPT ![v] = Absent],
                    NEW reply \in {"removed", "done"},
                    request' = [request EXCEPT ![r] = [At(reply, r) EXCEPT !.gone = GenOf(v)]]
             PROVE  IInv'
  BY <1>1, <1>2, RemovalRefusedInv DEF DaemonRemove, daemon
<1>3. PICK G \in Gen : G = GenOf(v) /\ G \in AnyGen /\ G # NoGen
  BY DEF IInv, Types, GenOf, Gen, NoGen, AnyGen
<1> DEFINE next == [At(reply, r) EXCEPT !.gone = G]
<1>4. GenOf(v)' = NoGen /\ \A w \in Volume : w # v => GenOf(w)' = GenOf(w)
  BY DEF IInv, Types, GenOf
<1>5. volume' \in [Volume -> {Absent} \cup [gen : Gen, pinned : BOOLEAN]]
  BY DEF IInv, Types
<1>6. next \in RequestRecord /\ next.gone = G /\ next.name = v /\ next.pc = reply
  <2>1. reply \in Before \cup After
    BY DEF After
  <2>2. At(reply, r) \in RequestRecord /\ At(reply, r).pc = reply /\ At(reply, r).name = v
    BY <1>2, <2>1, AtType
  <2> QED BY <1>3, <2>2 DEF RequestRecord
<1>7. request' = [request EXCEPT ![r] = next]
  BY <1>3
<1> HIDE DEF next
<1>8. /\ request' \in [Request -> RequestRecord] /\ request'[r] = next
      /\ \A s \in Request : s # r => request'[s] = request[s]
  BY <1>6, <1>7 DEF IInv, Types
<1>9. Types'
  BY <1>1, <1>5, <1>8 DEF IInv, Types, caches, store, history
<1>10. RequestOK'
  BY <1>1, <1>3, <1>6, <1>8 DEF IInv, RequestOK, Before
<1>11. \A w \in Volume : \A g : Holds(w, g)' = Holds(w, g)
  BY <1>1 DEF Holds, caches
<1>12. Belongs(v, G)
  BY <1>3 DEF Belongs
<1>13. ASSUME NEW w \in Volume, NEW g \in Gen, Belongs(w, g)'
       PROVE  Belongs(w, g)
  <2>1. RemovedAs(w, g)' => RemovedAs(w, g) \/ (w = v /\ g = G)
    BY <1>6, <1>8 DEF RemovedAs
  <2>2. GenOf(w)' = g => GenOf(w) = g
    BY <1>4 DEF Gen, NoGen
  <2> QED BY <1>1, <1>11, <1>12, <1>13, <2>1, <2>2 DEF Belongs, store
<1>14. OneName'
  BY <1>1, <1>13 DEF IInv, OneName
<1>15. \A s \in Request : request[s].gone # G
  BY <1>3 DEF IInv, GoneOnce
<1>16. \A w \in Volume : GenOf(w)' # G /\ GenOf(w)' \in {GenOf(w), NoGen}
  <2>1. \A w \in Volume : GenOf(w) = G => w = v
    BY <1>1, <1>3, <1>12 DEF IInv, OneName, Belongs
  <2> QED BY <1>3, <1>4, <2>1
<1>17. GoneOnce'
  BY <1>3, <1>6, <1>8, <1>15, <1>16 DEF IInv, GoneOnce
<1>18. AuditOK'
  BY <1>1, <1>8 DEF IInv, AuditOK, store
<1>19. ErasedOK'
  <2> SUFFICES ASSUME NEW g \in erased PROVE \E w \in Volume : RemovedAs(w, g)'
    BY <1>1 DEF ErasedOK, history
  <2>1. g # NoGen
    BY DEF IInv, Types, Gen, NoGen
  <2>2. PICK w \in Volume, s \in Request : request[s].gone = g /\ request[s].name = w
    BY DEF IInv, ErasedOK, RemovedAs
  <2>3. request'[s] = request[s]
    BY <1>1, <1>8, <2>1, <2>2
  <2> QED BY <2>2, <2>3 DEF RemovedAs
<1>20. \A g : Landed(g)' => Landed(g)
  BY <1>6, <1>8 DEF Landed
<1>21. HeldWasOverlapped' /\ PhantomsComeFromOverlap'
  BY <1>1, <1>11, <1>20
     DEF IInv, HeldWasOverlapped, PhantomsComeFromOverlap, Phantoms, store, history
<1> QED BY <1>9, <1>10, <1>14, <1>17, <1>18, <1>19, <1>21 DEF IInv

\* From the reply on, whoever else holds the generation is on record.
LEMMA RemoveLandsInv ==
    ASSUME IInv, NEW r \in Request, RemoveLands(r)
    PROVE  IInv'
<1> DEFINE v == request[r].name
           G == request[r].gone
<1>1. /\ request[r].pc = "removed" /\ v \in Volume /\ G # NoGen
      /\ request' = [request EXCEPT ![r].pc = "landed"]
      /\ listing' = [listing EXCEPT !["volumes"] = Absent]
      /\ overlapped' = overlapped \cup (Held(v) \cap {G})
      /\ UNCHANGED <<daemon, flight, scan, round, store, erased>>
  BY DEF IInv, RequestOK, RemoveLands
<1>2. request \in [Request -> RequestRecord] /\ request[r] \in RequestRecord
  BY DEF IInv, Types
<1>3. G \in Gen
  BY <1>1, <1>2 DEF RequestRecord, AnyGen
<1>4. /\ request' \in [Request -> RequestRecord]
      /\ request'[r].pc = "landed"
      /\ \A s \in Request : /\ request'[s].gone = request[s].gone
                            /\ request'[s].name = request[s].name
                            /\ s # r => request'[s].pc = request[s].pc
  BY <1>1, <1>2 DEF RequestRecord, After
<1>5. /\ listing' \in [volumes : {Absent} \cup VolumeList, containers : {Absent} \cup Inventory]
      /\ listing'["volumes"] = Absent
  BY <1>1 DEF IInv, Types
<1>6. overlapped \subseteq overlapped' /\ overlapped' \subseteq Gen
  BY <1>1, <1>3 DEF IInv, Types
<1> HIDE DEF v, G
<1>7. Types'
  BY <1>1, <1>4, <1>5, <1>6 DEF IInv, Types, daemon, store
<1>8. RequestOK'
  BY <1>1, <1>4 DEF IInv, RequestOK, Before, v, G
<1>9. \A w \in Volume : \A g : Holds(w, g)' => Holds(w, g)
  BY <1>1, <1>5 DEF Holds
<1>10. \A w \in Volume : GenOf(w)' = GenOf(w)
  BY <1>1 DEF GenOf, daemon
<1>11. \A w \in Volume : \A g : RemovedAs(w, g)' = RemovedAs(w, g)
  BY <1>4 DEF RemovedAs
<1>12. \A w \in Volume : \A g : Belongs(w, g)' => Belongs(w, g)
  BY <1>1, <1>9, <1>10, <1>11 DEF Belongs, store
<1>13. OneName'
  BY <1>1, <1>12 DEF IInv, OneName, daemon
<1>14. GoneOnce' /\ AuditOK' /\ ErasedOK'
  BY <1>1, <1>4, <1>10, <1>11 DEF IInv, GoneOnce, AuditOK, ErasedOK, store
<1>15. HeldWasOverlapped'
  <2> SUFFICES ASSUME NEW w \in Volume, NEW g \in Gen, Holds(w, g)', g \in erased' \/ Landed(g)'
               PROVE  g \in overlapped'
    BY DEF HeldWasOverlapped
  <2>1. CASE g \in erased \/ Landed(g)
    BY <1>6, <1>9, <2>1 DEF IInv, HeldWasOverlapped
  <2>2. CASE g = G
    <3>1. Belongs(v, G) /\ Belongs(w, G)
      BY <1>9, <2>2 DEF Belongs, RemovedAs, v, G
    <3>2. w = v
      BY <1>1, <1>3, <3>1 DEF IInv, OneName
    <3>3. G \in Held(v)
      BY <1>1, <1>5, <2>2, <3>2 DEF Holds, Held
    <3> QED BY <1>1, <2>2, <3>3
  <2> QED BY <1>1, <1>4, <2>1, <2>2 DEF Landed, G
<1>16. PhantomsComeFromOverlap'
  BY <1>1, <1>6 DEF IInv, PhantomsComeFromOverlap, Phantoms, store
<1> QED BY <1>7, <1>8, <1>13, <1>14, <1>15, <1>16 DEF IInv

LEMMA ForgetInv ==
    ASSUME IInv, NEW r \in Request, Forget(r)
    PROVE  IInv'
<1> DEFINE v == request[r].name
           G == request[r].gone
<1>1. /\ request[r].pc = "landed" /\ v \in Volume /\ G # NoGen
      /\ request' = [request EXCEPT ![r] = Done(r)]
      /\ measured' = {row \in measured : row[1] # v}
      /\ sighted' = [sighted EXCEPT ![v] = {}]
      /\ listing' = [listing EXCEPT !["containers"] = Absent]
      /\ audit' = audit \cup {<<r, "VOLUME_DELETED", G>>}
      /\ erased' = erased \cup {G}
      /\ UNCHANGED <<daemon, flight, scan, round, overlapped>>
  BY DEF IInv, RequestOK, Forget
<1>2. request \in [Request -> RequestRecord] /\ request[r] \in RequestRecord
  BY DEF IInv, Types
<1>3. G \in Gen
  BY <1>1, <1>2 DEF RequestRecord, AnyGen
<1>4. /\ request' \in [Request -> RequestRecord]
      /\ request'[r].pc = "done"
      /\ \A s \in Request : /\ request'[s].gone = request[s].gone
                            /\ request'[s].name = request[s].name
                            /\ s # r => request'[s].pc = request[s].pc
  BY <1>1, <1>2, DoneType
<1>5. /\ listing' \in [volumes : {Absent} \cup VolumeList, containers : {Absent} \cup Inventory]
      /\ listing'["volumes"] = listing["volumes"]
  BY <1>1 DEF IInv, Types
<1>6. /\ measured' \subseteq measured /\ sighted' \in [Volume -> SUBSET Gen]
      /\ \A w \in Volume : sighted'[w] \subseteq sighted[w]
      /\ \A g : <<v, g>> \notin measured'
      /\ sighted'[v] = {}
  BY <1>1 DEF IInv, Types
<1> HIDE DEF v, G
<1>7. Types'
  BY <1>1, <1>3, <1>4, <1>5, <1>6 DEF IInv, Types, daemon
<1>8. RequestOK'
  BY <1>1, <1>4 DEF IInv, RequestOK, Before, v, G
<1>9. \A w \in Volume : \A g : Holds(w, g)' = Holds(w, g)
  BY <1>1, <1>5 DEF Holds
<1>10. \A w \in Volume : GenOf(w)' = GenOf(w)
  BY <1>1 DEF GenOf, daemon
<1>11. \A w \in Volume : \A g : RemovedAs(w, g)' = RemovedAs(w, g)
  BY <1>4 DEF RemovedAs
<1>12. \A w \in Volume : \A g : Belongs(w, g)' => Belongs(w, g)
  BY <1>1, <1>6, <1>9, <1>10, <1>11 DEF Belongs
<1>13. OneName'
  BY <1>1, <1>12 DEF IInv, OneName, daemon
<1>14. RemovedAs(v, G)
  BY DEF RemovedAs, v, G
<1>15. GoneOnce'
  BY <1>4, <1>10 DEF IInv, GoneOnce
<1>16. AuditOK'
  <2> SUFFICES ASSUME NEW a \in audit', a[2] = "VOLUME_DELETED"
               PROVE  /\ a[1] \in Request /\ a = <<a[1], "VOLUME_DELETED", request'[a[1]].gone>>
                      /\ request'[a[1]].gone # NoGen /\ request'[a[1]].pc = "done"
    BY DEF AuditOK
  <2>1. CASE a \in audit
    BY <1>4, <2>1 DEF IInv, AuditOK
  <2>2. CASE a = <<r, "VOLUME_DELETED", G>>
    BY <1>1, <1>4, <2>2 DEF G
  <2> QED BY <1>1, <2>1, <2>2
<1>17. ErasedOK'
  BY <1>1, <1>11, <1>14 DEF IInv, ErasedOK
<1>18. HeldWasOverlapped'
  BY <1>1, <1>4, <1>9 DEF IInv, HeldWasOverlapped, Landed, G
<1>19. PhantomsComeFromOverlap'
  <2> SUFFICES ASSUME NEW w \in Volume, NEW g \in erased', <<w, g>> \in measured' \/ g \in sighted'[w]
               PROVE  g \in overlapped
    BY <1>1 DEF PhantomsComeFromOverlap, Phantoms
  <2>1. CASE g \in erased
    BY <1>6, <2>1 DEF IInv, PhantomsComeFromOverlap, Phantoms
  <2>2. CASE g = G
    <3>1. Belongs(w, G)
      BY <1>6, <2>2 DEF Belongs
    <3>2. w = v
      BY <1>1, <1>3, <1>14, <3>1 DEF IInv, OneName, Belongs
    <3> QED BY <1>6, <2>2, <3>2
  <2> QED BY <1>1, <2>1, <2>2
<1> QED BY <1>7, <1>8, <1>13, <1>15, <1>16, <1>17, <1>18, <1>19 DEF IInv

-----------------------------------------------------------------------------
(* The invariant is inductive.                                             *)

LEMMA InitInv == Init => IInv
<1> SUFFICES ASSUME Init PROVE IInv
  OBVIOUS
<1>1. /\ NoGen \in AnyGen /\ NoGen \notin Gen /\ 0 \in 0 .. MaxGen
      /\ NoFlight \in Flight(VolumeList) /\ NoFlight \in Flight(Inventory)
      /\ NoFlight.stage # "read"
      /\ [pc |-> "idle", name |-> Absent, pinned |-> FALSE,
          inventory |-> Absent, gone |-> NoGen] \in RequestRecord
      /\ [pc |-> "idle", volumes |-> Absent, containers |-> Absent] \in RoundRecord
  BY RemovalOptions
     DEF AnyGen, Gen, NoGen, Flight, NoFlight, RequestRecord, RoundRecord, Before
<1>2. Types
  BY <1>1 DEF Init, Types
<1>3. \A r \in Request : request[r].pc = "idle" /\ request[r].gone = NoGen
  BY DEF Init
<1>4. \A v \in Volume, g \in Gen : ~ Belongs(v, g)
  BY <1>1 DEF Init, Belongs, Holds, RemovedAs, GenOf
<1>5. RequestOK /\ GoneOnce
  BY <1>3 DEF RequestOK, GoneOnce
<1>6. OneName /\ HeldWasOverlapped
  BY <1>4 DEF OneName, HeldWasOverlapped, Belongs
<1>7. AuditOK /\ ErasedOK /\ PhantomsComeFromOverlap
  BY DEF Init, AuditOK, ErasedOK, PhantomsComeFromOverlap, Phantoms
<1> QED BY <1>2, <1>5, <1>6, <1>7 DEF IInv

LEMMA StutterInv ==
    ASSUME IInv, UNCHANGED vars
    PROVE  IInv'
<1>1. UNCHANGED <<volume, created, mounts, listing, flight, request, scan, round, measured,
                  sighted, audit, erased, overlapped>>
  BY DEF vars, daemon, caches, store, history
<1>2. Types' /\ RequestOK'
  BY <1>1 DEF IInv, Types, RequestOK
<1>3. \A v \in Volume : \A g : Holds(v, g)' => Holds(v, g)
  BY <1>1 DEF Holds
<1>4. Quiet
  BY <1>1, <1>3, KnowledgeSpreads DEF history
<1> QED BY <1>2, <1>4, QuietInv

LEMMA StepInv == IInv /\ [Next]_vars => IInv'
<1> SUFFICES ASSUME IInv, [Next]_vars PROVE IInv'
  OBVIOUS
<1>1. ASSUME NEW kind \in {"volumes", "containers"},
             ReadListing(kind) \/ Land(kind) \/ FailListing(kind) \/ Expire(kind)
      PROVE  IInv'
  BY <1>1, ReadListingInv, LandInv, FailListingInv, ExpireInv
<1>2. DOMAIN listing = {"volumes", "containers"}
  BY DEF IInv, Types
<1>3. ASSUME NEW v \in Volume, Outside(v) PROVE IInv'
  BY <1>3, CreateOutsideInv, RemoveOutsideInv, MountInv DEF Outside
<1>4. ASSUME NEW v \in Volume, Execute(v) PROVE IInv'
  BY <1>4, ScanMovesInv, ScanCreatesInv, ScanRecordsInv DEF Execute
<1>5. ASSUME NEW r \in Request, Remove(r) PROVE IInv'
  BY <1>5, InspectInv, ConsultInv, EvaluateInv, DaemonRemoveInv, RemoveLandsInv, ForgetInv
     DEF Remove
<1>6. ASSUME NEW n \in Round, StartRound(n) \/ Observe(n) \/ Render(n) PROVE IInv'
  BY <1>6, StartRoundInv, ObserveInv, RenderInv
<1> QED BY <1>1, <1>2, <1>3, <1>4, <1>5, <1>6, StutterInv DEF Next, Listings

\* Which generation goes by which name, who holds it, and what its removal
\* has left behind, in every state.
THEOREM Inductive == Safety => []IInv
BY InitInv, StepInv, PTL DEF Safety

-----------------------------------------------------------------------------
(* Names are reused, scans create the volumes they look at, rounds and     *)
(* listings outlive what they have read; yet the only history a removed    *)
(* volume can leave to its successor is that of a scan, a round or a       *)
(* listing that held it when the reply to its removal arrived.             *)
THEOREM RemovalInvariant == Safety => []RemovalInv
<1>1. IInv => RemovalInv
  <2> SUFFICES ASSUME IInv PROVE TypeOK
    BY DEF IInv, RemovalInv
  <2>1. AnyGen = {NoGen} \cup Gen
    BY DEF AnyGen
  <2> QED BY <2>1 DEF IInv, Types, TypeOK
<1> QED BY <1>1, Inductive, PTL

(* However many DELETE requests race for a name, and whatever is created   *)
(* under it in between: each VOLUME_DELETED row of the audit log is about  *)
(* a volume which that request removed, and no volume has two of them.     *)
THEOREM DeletedOnce == Safety => []DeletedAuditedOnce
<1>1. IInv => DeletedAuditedOnce
  <2> SUFFICES ASSUME IInv, NEW a \in audit, NEW b \in audit,
                      a[2] = "VOLUME_DELETED", b[2] = "VOLUME_DELETED"
               PROVE  /\ a[3] \in Gen /\ a[3] = request[a[1]].gone
                      /\ a[3] = b[3] => a = b
    BY DEF DeletedAuditedOnce
  <2>1. /\ a[1] \in Request /\ a = <<a[1], "VOLUME_DELETED", request[a[1]].gone>>
        /\ b[1] \in Request /\ b = <<b[1], "VOLUME_DELETED", request[b[1]].gone>>
        /\ request[a[1]].gone # NoGen
    BY DEF IInv, AuditOK
  <2>2. a[3] = request[a[1]].gone /\ b[3] = request[b[1]].gone
    BY <2>1
  <2>3. a[3] \in Gen
    BY <2>1, <2>2 DEF IInv, Types, RequestRecord, AnyGen
  <2>4. a[3] = b[3] => a[1] = b[1]
    BY <2>1, <2>2 DEF IInv, GoneOnce
  <2> QED BY <2>1, <2>2, <2>3, <2>4
<1> QED BY <1>1, Inductive, PTL

(* Measurements and sightings are never lost to anything but a removal the *)
(* daemon has confirmed to the very request that forgets them.             *)
THEOREM HistoryKept == Safety => HistoryLostOnlyToRemoval
<1> DEFINE Kept ==
        \A v \in Volume, g \in Gen :
            (<<v, g>> \in measured /\ <<v, g>> \notin measured')
            \/ (g \in sighted[v] /\ g \notin sighted'[v])
            => \E r \in Request : request[r].name = v /\ request[r].gone # NoGen
                                  /\ request[r].pc = "landed" /\ request'[r].pc = "done"
<1>1. ASSUME IInv, [Next]_vars PROVE [Kept]_vars
  <2> DEFINE Grow == measured \subseteq measured'
                     /\ \A v \in Volume : sighted[v] \subseteq sighted'[v]
  <2>1. Grow => Kept
    OBVIOUS
  <2>2. ASSUME NEW r \in Request, Forget(r) PROVE Kept
    <3> SUFFICES ASSUME NEW v \in Volume, NEW g \in Gen,
                        (<<v, g>> \in measured /\ <<v, g>> \notin measured')
                        \/ (g \in sighted[v] /\ g \notin sighted'[v])
                 PROVE  request[r].name = v /\ request[r].gone # NoGen
                        /\ request[r].pc = "landed" /\ request'[r].pc = "done"
      OBVIOUS
    <3>1. request[r].name = v
      BY <1>1, <2>2 DEF Forget, IInv, Types
    <3>2. request[r].pc = "landed" /\ request[r].gone # NoGen
      BY <1>1, <2>2 DEF Forget, IInv, RequestOK
    <3>3. request'[r].pc = "done"
      BY <1>1, <2>2, DoneType DEF Forget, IInv, Types
    <3> QED BY <3>1, <3>2, <3>3
  <2>3. ASSUME NEW n \in Round, Observe(n) PROVE Grow
    BY <1>1, <2>3 DEF Observe, IInv, Types
  <2>4. ASSUME NEW v \in Volume, ScanRecords(v) PROVE Grow
    BY <2>4 DEF ScanRecords
  <2>5. CASE UNCHANGED <<measured, sighted>>
    BY <2>5
  <2>6. ASSUME Next PROVE Grow \/ (\E r \in Request : Forget(r))
    <3>1. CASE Listings
      BY <2>5, <3>1 DEF Listings, ReadListing, Land, FailListing, Expire, store
    <3>2. ASSUME NEW v \in Volume, Outside(v) PROVE Grow
      BY <2>5, <3>2 DEF Outside, CreateOutside, RemoveOutside, Attach, Detach, store
    <3>3. ASSUME NEW v \in Volume, Execute(v) PROVE Grow
      BY <2>4, <2>5, <3>3 DEF Execute, ScanFinds, ScanCreates, ScanRemovesSidecar, store
    <3>4. ASSUME NEW r \in Request, Remove(r), ~ Forget(r) PROVE Grow
      BY <2>5, <3>4 DEF Remove, Inspect, Consult, Evaluate, DaemonRemove, RemoveLands, store
    <3>5. ASSUME NEW n \in Round, StartRound(n) \/ Observe(n) \/ Render(n) PROVE Grow
      BY <2>3, <2>5, <3>5 DEF StartRound, Render, store
    <3> QED BY <2>6, <3>1, <3>2, <3>3, <3>4, <3>5 DEF Next
  <2> QED BY <1>1, <2>1, <2>2, <2>6
<1>2. IInv /\ [Next]_vars => [Kept]_vars
  BY <1>1
<1> QED BY <1>2, Inductive, PTL DEF Safety, HistoryLostOnlyToRemoval
=============================================================================
