---------------------------- MODULE HostRegistry -----------------------------
(***************************************************************************)
(* The hosts: their records (store/host.repository.ts), the transports     *)
(* built from them (docker/host-registry.ts, host-context.ts), and the     *)
(* operations of services/host.service.ts, against requests and scans that *)
(* resolved their transport earlier and hold it across awaits.             *)
(*                                                                         *)
(* A record, and a context made from it, are what the properties tell      *)
(* apart: the endpoint (address, user and port are one), the key path and  *)
(* the pin.  A machine's host key is named by its address.  Handlers are   *)
(* synchronous; remove() is taken apart because the process may die        *)
(* between two of its statements, which nothing else can come between.     *)
(* The reserved local host has no agent, and can neither be given other    *)
(* settings nor be removed: it takes no part.                              *)
(***************************************************************************)
EXTENDS Naturals, Sequences, FiniteSets

CONSTANTS
    Host,              \* host ids other than the reserved one
    Address, KeyPath,
    Job,               \* whatever resolves a host and works on it
    None,
    MaxContext, MaxRows, MaxCrash  \* bounds of the model

ASSUME RegistryOptions ==
    /\ None \notin Address \cup KeyPath
    /\ {MaxContext, MaxRows, MaxCrash} \subseteq Nat

VARIABLES
    record,    \* docker_host
    rows,      \* measurements, sightings and audit rows
    context,   \* the Map of HostRegistry: an index into built, or 0
    built,     \* every context since the process started
    image,     \* imageReadyByHost: where the check was made, or None
    job,
    removal,   \* the statement remove() has come to
    crashes

vars == <<record, rows, context, built, image, job, removal, crashes>>
memory == <<context, built, image>>

Work == {"scan", "sweep", "delete", "test"}
RowOf == [scan |-> "measurement", sweep |-> "sighting", delete |-> "audit"]
Row == [table : {"measurement", "sighting", "audit"}, host : Host,
        from : Address, late : BOOLEAN]

NoRecord == [there |-> FALSE]
Ssh(a, p) == [addr |-> a, keyPath |-> p]
Record == [there : {TRUE}, ssh : [addr : Address, keyPath : KeyPath],
           pin : Address \cup {None}, enabled : BOOLEAN, seen : BOOLEAN]
Recorded(h) == record[h].there

Inserted(ssh) == [there |-> TRUE, ssh |-> ssh, pin |-> None, enabled |-> TRUE, seen |-> FALSE]

Idle == [stage |-> "idle"]
NoRemoval == [host |-> None, next |-> 0]

Init ==
    /\ record = [h \in Host |-> NoRecord]
    /\ rows = {}
    /\ context = [h \in Host |-> 0] /\ built = <<>>
    /\ image = [h \in Host |-> None]
    /\ job = [j \in Job |-> Idle]
    /\ removal = NoRemoval /\ crashes = 0

Running == removal = NoRemoval

-----------------------------------------------------------------------------
(* HostRegistry                                                            *)

\* HostContextFactory.create: the transport is made from the record once.
Built(h) == [host |-> h, ssh |-> record[h].ssh, pin |-> record[h].pin,
             disposed |-> FALSE, open |-> FALSE]

\* get(): the context, built on first use.  c is the one in the Map afterwards.
Get(h, c) ==
    \/ context[h] # 0 /\ c = context[h] /\ UNCHANGED <<context, built>>
    \/ /\ context[h] = 0 /\ Recorded(h)
       /\ c = Len(built) + 1 /\ c <= MaxContext
       /\ built' = Append(built, Built(h))
       /\ context' = [context EXCEPT ![h] = c]

\* Mutant: the transport is forgotten and not disposed of.
InvalidateForgetsOnly(h) ==
    /\ context' = [context EXCEPT ![h] = 0]
    /\ UNCHANGED built

\* invalidate(): dispose() ends the pooled connection, and the Map forgets it.
Invalidate(h) ==
    /\ built' = IF context[h] = 0 THEN built
                ELSE [built EXCEPT ![context[h]].disposed = TRUE, ![context[h]].open = FALSE]
    /\ context' = [context EXCEPT ![h] = 0]

ForgetImage(h) == image' = [image EXCEPT ![h] = None]

-----------------------------------------------------------------------------
(* HostService                                                             *)

Create(h, ssh) ==
    /\ Running /\ ~ Recorded(h)
    /\ record' = [record EXCEPT ![h] = Inserted(ssh)]
    /\ UNCHANGED <<rows, memory, job, removal, crashes>>

\* HostRepository.update: another endpoint is another machine.
Updated(old, ssh, enabled) ==
    [old EXCEPT !.ssh = ssh, !.enabled = enabled,
                !.pin = IF ssh.addr # old.ssh.addr THEN None ELSE @]

Update(h, ssh, enabled) ==
    /\ Running /\ Recorded(h)
    /\ record' = [record EXCEPT ![h] = Updated(@, ssh, enabled)]
    /\ Invalidate(h) /\ ForgetImage(h)
    /\ UNCHANGED <<rows, job, removal, crashes>>

\* Mutant: the transport goes on with the settings it was born with.
TrustQuietly(h, key) ==
    /\ Running /\ Recorded(h)
    /\ record' = [record EXCEPT ![h].pin = key]
    /\ UNCHANGED <<rows, context, built, image, job, removal, crashes>>

Trust(h, key) ==
    /\ Running /\ Recorded(h)
    /\ record' = [record EXCEPT ![h].pin = key]
    /\ Invalidate(h)
    /\ UNCHANGED <<rows, image, job, removal, crashes>>

\* remove() up to its first statement on the database.
StartRemove(h) ==
    /\ Running /\ Recorded(h)
    /\ Invalidate(h) /\ ForgetImage(h)
    /\ removal' = [host |-> h, next |-> 1]
    /\ UNCHANGED <<record, rows, job, crashes>>

Without(tables) == {r \in rows : ~ (r.host = removal.host /\ r.table \in tables)}

\* Mutant: the host goes first.
RemovalStatementHostFirst(n) ==
    \/ n = 1 /\ record' = [record EXCEPT ![removal.host] = NoRecord] /\ rows' = rows
    \/ n = 2 /\ rows' = Without({"measurement"}) /\ record' = record
    \/ n = 3 /\ rows' = Without({"sighting"}) /\ record' = record
    \/ n = 4 /\ rows' = Without({"audit"}) /\ record' = record

\* forgetHost of the three repositories, then HostRepository.remove, whose
\* transaction deletes what a host owns once more.
RemovalStatement(n) ==
    \/ n = 1 /\ rows' = Without({"measurement"}) /\ record' = record
    \/ n = 2 /\ rows' = Without({"sighting"}) /\ record' = record
    \/ n = 3 /\ rows' = Without({"audit"}) /\ record' = record
    \/ /\ n = 4
       /\ rows' = Without({"measurement", "sighting"})
       /\ record' = [record EXCEPT ![removal.host] = NoRecord]

Remove ==
    /\ ~ Running
    /\ RemovalStatement(removal.next)
    /\ removal' = IF removal.next = 4 THEN NoRemoval ELSE [removal EXCEPT !.next = @ + 1]
    /\ UNCHANGED <<memory, job, crashes>>

-----------------------------------------------------------------------------
(* Requests, scans and rounds                                              *)

\* HostMiddleware.fromParam, and enabled() for the rounds of the ledger: the
\* transport is resolved once, and held.
Resolve(j, h, work) ==
    /\ Running /\ job[j].stage = "idle"
    /\ work = "sweep" => record[h].there /\ record[h].enabled
    /\ \E c \in 1 .. MaxContext :
          /\ Get(h, c)
          /\ job' = [job EXCEPT ![j] = [stage |-> "working", work |-> work, on |-> c]]
    /\ UNCHANGED <<record, rows, image, removal, crashes>>

\* The agent connects on demand, also one that was disposed of.  A pin
\* decides; without one known_hosts does.
Connect(j) ==
    LET c == job[j].on IN
    /\ Running /\ job[j].stage = "working" /\ ~ built[c].open
    /\ built[c].pin \in {None, built[c].ssh.addr}
    /\ built' = [built EXCEPT ![c].open = TRUE]
    /\ UNCHANGED <<record, rows, context, image, job, removal, crashes>>

\* ensureImage: the first scan of a host checks for all.
CheckImage(j) ==
    LET c == built[job[j].on] IN
    /\ Running /\ job[j].stage = "working" /\ job[j].work = "scan"
    /\ c.open /\ image[c.host] = None
    /\ image' = [image EXCEPT ![c.host] = [at |-> c.ssh.addr, late |-> c.disposed]]
    /\ UNCHANGED <<record, rows, context, built, job, removal, crashes>>

\* The daemon has answered: the row is filed under the host's id, or the host
\* is marked as seen, if it is still there.
Finish(j) ==
    LET c == built[job[j].on]
        h == c.host
    IN  /\ Running /\ job[j].stage = "working" /\ c.open
        /\ job[j].work = "scan" => image[h] # None
        /\ IF job[j].work = "test"
           THEN /\ record' = IF Recorded(h) THEN [record EXCEPT ![h].seen = TRUE] ELSE record
                /\ rows' = rows
           ELSE /\ Cardinality(rows) < MaxRows
                /\ rows' = rows \cup {[table |-> RowOf[job[j].work], host |-> h,
                                       from |-> c.ssh.addr, late |-> c.disposed]}
                /\ record' = record
        /\ job' = [job EXCEPT ![j] = Idle]
        /\ UNCHANGED <<memory, removal, crashes>>

\* The connection is refused or lost, or the daemon reports an error.
Fail(j) ==
    /\ Running /\ job[j].stage = "working"
    /\ job' = [job EXCEPT ![j] = Idle]
    /\ UNCHANGED <<record, rows, memory, removal, crashes>>

\* The process dies, at any point, and starts again: the database is what is
\* left.
Restart ==
    /\ crashes < MaxCrash
    /\ crashes' = crashes + 1
    /\ context' = [h \in Host |-> 0] /\ built' = <<>>
    /\ image' = [h \in Host |-> None]
    /\ job' = [j \in Job |-> Idle]
    /\ removal' = NoRemoval
    /\ UNCHANGED <<record, rows>>

Next ==
    \/ \E h \in Host :
          \/ \E a \in Address, p \in KeyPath : Create(h, Ssh(a, p))
          \/ \E a \in Address, p \in KeyPath, e \in BOOLEAN : Update(h, Ssh(a, p), e)
          \/ \E key \in Address : Trust(h, key)
          \/ StartRemove(h)
    \/ Remove
    \/ \E j \in Job :
          \/ \E h \in Host, work \in Work : Resolve(j, h, work)
          \/ Connect(j) \/ CheckImage(j) \/ Finish(j) \/ Fail(j)
    \/ Restart

Spec == Init /\ [][Next]_vars

-----------------------------------------------------------------------------
TypeOK ==
    /\ record \in [Host -> Record \cup {NoRecord}]
    /\ rows \subseteq Row
    /\ context \in [Host -> 0 .. Len(built)]
    /\ \A c \in DOMAIN built : built[c].host \in Host
    /\ \A h \in Host : image[h] = None \/ image[h].late \in BOOLEAN
    /\ removal.next \in 0 .. 4

(* A registered transport was made from the record as it is now: endpoint, *)
(* key path and pin, and never is a host reachable that is not recorded.   *)
ContextMatchesRecord ==
    \A h \in Host : context[h] # 0 =>
        LET c == built[context[h]] IN
        /\ Recorded(h) /\ ~ c.disposed
        /\ c.host = h /\ c.ssh = record[h].ssh /\ c.pin = record[h].pin

(* "Silently constructing a second one would leak the first": of one host, *)
(* all transports but the registered one have been disposed of.            *)
OneTransport == \A c \in DOMAIN built : ~ built[c].disposed => context[built[c].host] = c

(* Type invariant; what is registered is current; and a check of the probe *)
(* image that counts for a host was made on its recorded machine, unless a *)
(* scan made it over a superseded transport.                               *)
RegistryInv ==
    /\ TypeOK /\ ContextMatchesRecord /\ OneTransport
    /\ \A h \in Host : image[h] # None /\ Recorded(h) =>
          image[h].late \/ image[h].at = record[h].ssh.addr

(* History has its host: a row whose host is not recorded was written by   *)
(* something that outlived the host's transport; a crash in the middle of  *)
(* remove() leaves none, and the removal can then be asked for again.      *)
HistoryHasItsHost == \A r \in rows : Running /\ ~ Recorded(r.host) => r.late

(* What is filed under a host by a transport that is still current was     *)
(* read from the machine the record names at that moment.                  *)
FiledFromTheRecordedMachine ==
    [][\A r \in rows' \ rows : r.late \/ (Recorded(r.host) /\ r.from = record[r.host].ssh.addr)]_vars

(* Once the operator has confirmed a key, only the machine that has it     *)
(* answers for the host: also to those who resolved their transport, and   *)
(* whose connection known_hosts had let in, before the key was confirmed.  *)
PinnedMachineAnswers ==
    [][\A r \in rows' \ rows : r.late \/ record[r.host].pin \in {None, r.from}]_vars
=============================================================================
