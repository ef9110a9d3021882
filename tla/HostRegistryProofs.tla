------------------------- MODULE HostRegistryProofs -------------------------
(***************************************************************************)
(* Proofs about HostRegistry, for all hosts, addresses, keys and jobs, and *)
(* all bounds.  A job keeps the transport it resolved; what is proved is   *)
(* that no order of edits, confirmations, removals and restarts lets one   *)
(* that is still registered be anything but the record's.                  *)
(* SchemaMigration, the file the records are kept in, has its proofs here  *)
(* too: the state of the two is disjoint.                                  *)
(***************************************************************************)
EXTENDS HostRegistry, SchemaMigration, TLAPS

Transport == [host : Host, ssh : [addr : Address, keyPath : KeyPath],
              pin : Address \cup {None}, disposed : BOOLEAN, open : BOOLEAN]

\* What the variables hold, more precisely than TypeOK: a job at work holds a
\* transport that was built, by this process.
Types ==
    /\ record \in [Host -> Record \cup {NoRecord}]
    /\ rows \subseteq Row
    /\ built \in Seq(Transport)
    /\ context \in [Host -> 0 .. Len(built)]
    /\ DOMAIN image = Host
    /\ DOMAIN job = Job
    /\ \A j \in Job : job[j].stage = "working" =>
          job[j].work \in Work /\ job[j].on \in DOMAIN built

\* A check of the image is late, or of the recorded machine: also of a host
\* that will be created again.
ImageOK ==
    \A h \in Host : image[h] # None =>
        /\ image[h].late \in BOOLEAN
        /\ image[h].late \/ (Recorded(h) /\ image[h].at = record[h].ssh.addr)

\* A removal under way has taken the transport and the check with it, and the
\* host is there until the last statement, which finds no audit row.
RemovalOK ==
    Running \/
        /\ removal \in [host : Host, next : 1 .. 4]
        /\ Recorded(removal.host)
        /\ context[removal.host] = 0 /\ image[removal.host] = None
        /\ removal.next = 4 => \A r \in rows : r.host = removal.host => r.table # "audit"

RowsOK == \A r \in rows : r.late \/ Recorded(r.host)

\* Whoever answers an open connection has the key its transport was made with.
OpenOK == \A c \in DOMAIN built : built[c].open => built[c].pin \in {None, built[c].ssh.addr}

IInv == Types /\ ContextMatchesRecord /\ OneTransport /\ ImageOK /\ RemovalOK /\ RowsOK /\ OpenOK

-----------------------------------------------------------------------------
(* The transports.                                                         *)

\* invalidate() leaves no transport of the host that is not disposed of, and
\* those of other hosts alone.
LEMMA InvalidateDisposes ==
    ASSUME IInv, NEW h \in Host, Invalidate(h)
    PROVE  /\ built' \in Seq(Transport) /\ Len(built') = Len(built)
           /\ context' \in [Host -> 0 .. Len(built')] /\ context'[h] = 0
           /\ \A g \in Host : g # h => context'[g] = context[g]
           /\ \A c \in DOMAIN built' :
                 /\ built'[c].host = built[c].host /\ built'[c].ssh = built[c].ssh
                 /\ built'[c].pin = built[c].pin /\ (built'[c].open => built[c].open)
                 /\ built'[c].host # h => built'[c].disposed = built[c].disposed
                 /\ built'[c].host = h => built'[c].disposed
<1>1. /\ built \in Seq(Transport) /\ context \in [Host -> 0 .. Len(built)]
      /\ \A c \in DOMAIN built : built[c] \in Transport
  <2>1. built \in Seq(Transport) /\ context \in [Host -> 0 .. Len(built)]
    BY DEF IInv, Types
  <2> QED BY <2>1
<1>2. CASE context[h] = 0
  <2>1. built' = built /\ context' = context
    BY <1>1, <1>2 DEF Invalidate
  <2>2. \A c \in DOMAIN built : built[c].host = h => built[c].disposed
    BY <1>1, <1>2 DEF IInv, OneTransport
  <2> QED BY <1>1, <1>2, <2>1, <2>2
<1>3. CASE context[h] # 0
  <2> DEFINE k == context[h]
  <2>1. k \in DOMAIN built /\ built[k].host = h
    BY <1>1, <1>3 DEF IInv, ContextMatchesRecord
  <2>2. built' = [built EXCEPT ![k] = [built[k] EXCEPT !.disposed = TRUE, !.open = FALSE]]
    BY <1>3, <1>1, <2>1 DEF Invalidate
  <2>3. [built[k] EXCEPT !.disposed = TRUE, !.open = FALSE] \in Transport
    BY <1>1, <2>1 DEF Transport
  <2>4. built' \in Seq(Transport) /\ Len(built') = Len(built) /\ DOMAIN built' = DOMAIN built
    BY <1>1, <2>1, <2>2, <2>3
  <2>5. \A c \in DOMAIN built : c # k /\ built[c].host = h => built[c].disposed
    BY DEF IInv, OneTransport
  <2>6. context' = [context EXCEPT ![h] = 0]
    BY DEF Invalidate
  <2>7. context' \in [Host -> 0 .. Len(built')] /\ context'[h] = 0
        /\ \A g \in Host : g # h => context'[g] = context[g]
    BY <1>1, <2>4, <2>6
  <2>8. \A c \in DOMAIN built' :
           /\ c = k => built'[c] = [built[k] EXCEPT !.disposed = TRUE, !.open = FALSE]
           /\ c # k => built'[c] = built[c]
    BY <1>1, <2>1, <2>2, <2>4
  <2>9. ASSUME NEW c \in DOMAIN built'
        PROVE  /\ built'[c].host = built[c].host /\ built'[c].ssh = built[c].ssh
               /\ built'[c].pin = built[c].pin /\ (built'[c].open => built[c].open)
               /\ built'[c].host # h => built'[c].disposed = built[c].disposed
               /\ built'[c].host = h => built'[c].disposed
    <3>1. CASE c = k
      BY <1>1, <2>1, <2>8, <3>1 DEF Transport
    <3>2. CASE c # k
      BY <2>4, <2>5, <2>8, <3>2
    <3> QED BY <3>1, <3>2
  <2> QED BY <2>4, <2>7, <2>9
<1> QED BY <1>2, <1>3

\* After an invalidation everything registered is current, whatever becomes of
\* the host's record.
LEMMA InvalidateKeepsCurrent ==
    ASSUME IInv, NEW h \in Host, Invalidate(h),
           \A g \in Host : g # h => record'[g] = record[g]
    PROVE  ContextMatchesRecord' /\ OneTransport'
<1>1. /\ \A g \in Host : g # h => context'[g] = context[g]
      /\ context'[h] = 0 /\ DOMAIN built' = DOMAIN built
      /\ \A c \in DOMAIN built' :
            /\ built'[c].host = built[c].host /\ built'[c].ssh = built[c].ssh
            /\ built'[c].pin = built[c].pin
            /\ built'[c].host # h => built'[c].disposed = built[c].disposed
            /\ built'[c].host = h => built'[c].disposed
  <2>1. built \in Seq(Transport)
    BY DEF IInv, Types
  <2> QED BY <2>1, InvalidateDisposes
<1>2. ASSUME NEW g \in Host, context'[g] # 0
      PROVE  LET c == built'[context'[g]] IN
               /\ record'[g].there /\ ~ c.disposed
               /\ c.host = g /\ c.ssh = record'[g].ssh /\ c.pin = record'[g].pin
  <2>1. g # h /\ context'[g] = context[g] /\ record'[g] = record[g] /\ context[g] # 0
    BY <1>1, <1>2
  <2>2. context[g] \in DOMAIN built
    <3>1. built \in Seq(Transport) /\ context \in [Host -> 0 .. Len(built)]
      BY DEF IInv, Types
    <3> QED BY <3>1, <2>1
  <2>3. LET c == built[context[g]] IN
          /\ record[g].there /\ ~ c.disposed
          /\ c.host = g /\ c.ssh = record[g].ssh /\ c.pin = record[g].pin
    BY <2>1 DEF IInv, ContextMatchesRecord, Recorded
  <2> QED BY <1>1, <2>1, <2>2, <2>3
<1>3. ContextMatchesRecord'
  BY <1>2 DEF ContextMatchesRecord, Recorded
<1>4. ASSUME NEW c \in DOMAIN built', ~ built'[c].disposed
      PROVE  context'[built'[c].host] = c
  <2>1. built'[c].host # h /\ ~ built[c].disposed /\ built'[c].host = built[c].host
    BY <1>1, <1>4
  <2>2. context[built[c].host] = c /\ built[c].host \in Host
    <3>1. built \in Seq(Transport) /\ c \in DOMAIN built
      BY <1>1 DEF IInv, Types
    <3>2. built[c] \in Transport
      BY <3>1
    <3> QED BY <2>1, <3>1, <3>2 DEF IInv, OneTransport, Transport
  <2> QED BY <1>1, <2>1, <2>2
<1> QED BY <1>3, <1>4 DEF OneTransport

\* An invalidation opens nothing.
LEMMA InvalidateOpensNothing ==
    ASSUME IInv, NEW h \in Host, Invalidate(h)
    PROVE  OpenOK'
<1>1. /\ DOMAIN built' = DOMAIN built
      /\ \A c \in DOMAIN built' :
            /\ built'[c].ssh = built[c].ssh /\ built'[c].pin = built[c].pin
            /\ built'[c].open => built[c].open
  <2>1. built \in Seq(Transport)
    BY DEF IInv, Types
  <2> QED BY <2>1, InvalidateDisposes
<1> QED BY <1>1 DEF IInv, OpenOK

\* A job keeps the transport it resolved when a host is invalidated.
LEMMA InvalidateKeepsJobs ==
    ASSUME IInv, NEW h \in Host, Invalidate(h), job' = job,
           record' \in [Host -> Record \cup {NoRecord}], rows' \subseteq Row, DOMAIN image' = Host
    PROVE  Types'
<1>1. built \in Seq(Transport) /\ DOMAIN job = Job
      /\ \A j \in Job : job[j].stage = "working" =>
            job[j].work \in Work /\ job[j].on \in DOMAIN built
  BY DEF IInv, Types
<1>2. /\ built' \in Seq(Transport) /\ Len(built') = Len(built)
      /\ context' \in [Host -> 0 .. Len(built')]
  BY InvalidateDisposes
<1>3. DOMAIN built' = DOMAIN built
  BY <1>1, <1>2
<1>4. \A j \in Job : job'[j].stage = "working" =>
            job'[j].work \in Work /\ job'[j].on \in DOMAIN built'
  BY <1>1, <1>3
<1> QED BY <1>1, <1>2, <1>4 DEF Types

-----------------------------------------------------------------------------
LEMMA InitInv == Init => IInv
<1> SUFFICES ASSUME Init PROVE IInv
  OBVIOUS
<1>1. Types
  <2>1. built \in Seq(Transport) /\ Len(built) = 0
    BY DEF Init
  <2> QED BY <2>1 DEF Init, Types, Record, Idle
<1>2. ContextMatchesRecord /\ OneTransport /\ ImageOK /\ RemovalOK /\ RowsOK /\ OpenOK
  BY DEF Init, ContextMatchesRecord, OneTransport, ImageOK, RemovalOK, RowsOK, OpenOK, Running
<1> QED BY <1>1, <1>2 DEF IInv

-----------------------------------------------------------------------------
(* Each operation keeps the invariant.                                     *)

LEMMA CreateInv ==
    ASSUME IInv, NEW h \in Host, NEW a \in Address, NEW p \in KeyPath, Create(h, Ssh(a, p))
    PROVE  IInv'
<1>1. /\ Running /\ ~ Recorded(h)
      /\ record' = [record EXCEPT ![h] = Inserted(Ssh(a, p))]
      /\ UNCHANGED <<rows, context, built, image, job, removal>>
  BY DEF Create, memory
<1>2. Inserted(Ssh(a, p)) \in Record /\ Inserted(Ssh(a, p)).there
  BY DEF Inserted, Ssh, Record
<1>3. record \in [Host -> Record \cup {NoRecord}]
  BY DEF IInv, Types
<1>4. /\ record' \in [Host -> Record \cup {NoRecord}] /\ record'[h].there
      /\ \A g \in Host : g # h => record'[g] = record[g]
  BY <1>1, <1>2, <1>3
<1>5. Types'
  BY <1>1, <1>4 DEF IInv, Types
<1>6. context[h] = 0
  BY <1>1 DEF IInv, ContextMatchesRecord
<1>7. ContextMatchesRecord'
  BY <1>1, <1>4, <1>6 DEF IInv, ContextMatchesRecord, Recorded
<1>8. OneTransport' /\ OpenOK'
  BY <1>1 DEF IInv, OneTransport, OpenOK
<1>9. ImageOK'
  BY <1>1, <1>4 DEF IInv, ImageOK, Recorded
<1>10. RemovalOK'
  BY <1>1 DEF RemovalOK, Running
<1>11. RowsOK'
  BY <1>1, <1>4 DEF IInv, Types, RowsOK, Recorded, Row
<1> QED BY <1>5, <1>7, <1>8, <1>9, <1>10, <1>11 DEF IInv

LEMMA UpdateInv ==
    ASSUME IInv, NEW h \in Host, NEW a \in Address, NEW p \in KeyPath, NEW e \in BOOLEAN,
           Update(h, Ssh(a, p), e)
    PROVE  IInv'
<1>1. /\ Running /\ Recorded(h)
      /\ record' = [record EXCEPT ![h] = Updated(record[h], Ssh(a, p), e)]
      /\ Invalidate(h) /\ image' = [image EXCEPT ![h] = None]
      /\ UNCHANGED <<rows, job, removal>>
  BY DEF Update, ForgetImage
<1>2. record \in [Host -> Record \cup {NoRecord}] /\ rows \subseteq Row /\ DOMAIN image = Host
  BY DEF IInv, Types
<1>3. record[h] \in Record
  BY <1>1, <1>2 DEF Recorded, NoRecord
<1>4. Updated(record[h], Ssh(a, p), e) \in Record /\ Updated(record[h], Ssh(a, p), e).there
  BY <1>3 DEF Updated, Ssh, Record
<1>5. /\ record' \in [Host -> Record \cup {NoRecord}] /\ record'[h].there
      /\ \A g \in Host : g # h => record'[g] = record[g]
  BY <1>1, <1>2, <1>4
<1>6. /\ DOMAIN image' = Host /\ image'[h] = None
      /\ \A g \in Host : g # h => image'[g] = image[g]
  BY <1>1, <1>2
<1>7. Types'
  BY <1>1, <1>2, <1>5, <1>6, InvalidateKeepsJobs
<1>8. ContextMatchesRecord' /\ OneTransport' /\ OpenOK'
  BY <1>1, <1>5, InvalidateKeepsCurrent, InvalidateOpensNothing
<1>9. ImageOK'
  BY <1>5, <1>6 DEF IInv, ImageOK, Recorded
<1>10. RemovalOK'
  BY <1>1 DEF RemovalOK, Running
<1>11. RowsOK'
  BY <1>1, <1>5 DEF IInv, Types, RowsOK, Recorded, Row
<1> QED BY <1>7, <1>8, <1>9, <1>10, <1>11 DEF IInv

LEMMA TrustInv ==
    ASSUME IInv, NEW h \in Host, NEW key \in Address, Trust(h, key)
    PROVE  IInv'
<1>1. /\ Running /\ Recorded(h)
      /\ record' = [record EXCEPT ![h] = [record[h] EXCEPT !.pin = key]]
      /\ Invalidate(h)
      /\ UNCHANGED <<rows, image, job, removal>>
  BY DEF Trust
<1>2. record \in [Host -> Record \cup {NoRecord}] /\ rows \subseteq Row /\ DOMAIN image = Host
  BY DEF IInv, Types
<1>3. record[h] \in Record
  BY <1>1, <1>2 DEF Recorded, NoRecord
<1>4. /\ [record[h] EXCEPT !.pin = key] \in Record
      /\ [record[h] EXCEPT !.pin = key].there
      /\ [record[h] EXCEPT !.pin = key].ssh = record[h].ssh
  BY <1>3 DEF Record
<1>5. /\ record' \in [Host -> Record \cup {NoRecord}] /\ record'[h].there
      /\ record'[h].ssh = record[h].ssh
      /\ \A g \in Host : g # h => record'[g] = record[g]
  BY <1>1, <1>2, <1>4
<1>6. Types'
  BY <1>1, <1>2, <1>5, InvalidateKeepsJobs
<1>7. ContextMatchesRecord' /\ OneTransport' /\ OpenOK'
  BY <1>1, <1>5, InvalidateKeepsCurrent, InvalidateOpensNothing
<1>8. ImageOK'
  BY <1>1, <1>5 DEF IInv, ImageOK, Recorded
<1>9. RemovalOK'
  BY <1>1 DEF RemovalOK, Running
<1>10. RowsOK'
  BY <1>1, <1>5 DEF IInv, Types, RowsOK, Recorded, Row
<1> QED BY <1>6, <1>7, <1>8, <1>9, <1>10 DEF IInv

LEMMA StartRemoveInv ==
    ASSUME IInv, NEW h \in Host, StartRemove(h)
    PROVE  IInv'
<1>1. /\ Running /\ Recorded(h)
      /\ Invalidate(h) /\ image' = [image EXCEPT ![h] = None]
      /\ removal' = [host |-> h, next |-> 1]
      /\ UNCHANGED <<record, rows, job>>
  BY DEF StartRemove, ForgetImage
<1>2. record \in [Host -> Record \cup {NoRecord}] /\ rows \subseteq Row /\ DOMAIN image = Host
  BY DEF IInv, Types
<1>3. /\ DOMAIN image' = Host /\ image'[h] = None
      /\ \A g \in Host : g # h => image'[g] = image[g]
  BY <1>1, <1>2
<1>4. Types'
  BY <1>1, <1>2, <1>3, InvalidateKeepsJobs
<1>5. ContextMatchesRecord' /\ OneTransport' /\ OpenOK'
  BY <1>1, InvalidateKeepsCurrent, InvalidateOpensNothing
<1>6. ImageOK'
  BY <1>1, <1>3 DEF IInv, ImageOK, Recorded
<1>7. RemovalOK'
  <2>1. context'[h] = 0
    BY <1>1, InvalidateDisposes
  <2> QED BY <1>1, <1>3, <2>1 DEF RemovalOK, Recorded
<1>8. RowsOK'
  BY <1>1 DEF IInv, RowsOK, Recorded
<1> QED BY <1>4, <1>5, <1>6, <1>7, <1>8 DEF IInv

\* What a statement of a removal deletes is the removed host's, and the record
\* goes with the last of its rows.
LEMMA RemoveInv ==
    ASSUME IInv, Remove
    PROVE  IInv'
<1> DEFINE h == removal.host
<1>1. /\ ~ Running /\ RemovalStatement(removal.next)
      /\ removal' = IF removal.next = 4 THEN NoRemoval ELSE [removal EXCEPT !.next = @ + 1]
      /\ UNCHANGED <<context, built, image, job>>
  BY DEF Remove, memory
<1>2. /\ removal \in [host : Host, next : 1 .. 4] /\ Recorded(h)
      /\ context[h] = 0 /\ image[h] = None
      /\ removal.next = 4 => \A r \in rows : r.host = h => r.table # "audit"
  BY <1>1 DEF IInv, RemovalOK
<1>3. record \in [Host -> Record \cup {NoRecord}] /\ rows \subseteq Row
  BY DEF IInv, Types
<1>4. CASE removal.next # 4
  <2>1. record' = record /\ rows' \subseteq rows
    BY <1>1, <1>2, <1>4 DEF RemovalStatement, Without
  <2>2. removal' = [removal EXCEPT !.next = removal.next + 1]
    BY <1>1, <1>4
  <2>3. /\ removal' \in [host : Host, next : 1 .. 4] /\ removal'.host = h
        /\ removal'.next = 4 => removal.next = 3
    BY <1>2, <1>4, <2>2
  <2>4. removal'.next = 4 => \A r \in rows' : r.host = h => r.table # "audit"
    BY <1>1, <2>3 DEF RemovalStatement, Without
  <2>5. RemovalOK'
    BY <1>1, <1>2, <2>1, <2>3, <2>4 DEF RemovalOK, Recorded
  <2>6. Types' /\ ContextMatchesRecord' /\ OneTransport' /\ ImageOK' /\ RowsOK' /\ OpenOK'
    BY <1>1, <2>1
    DEF IInv, Types, ContextMatchesRecord, OneTransport, ImageOK, RowsOK, OpenOK, Recorded
  <2> QED BY <2>5, <2>6 DEF IInv
<1>5. CASE removal.next = 4
  <2>1. /\ rows' = Without({"measurement", "sighting"})
        /\ record' = [record EXCEPT ![h] = NoRecord] /\ removal' = NoRemoval
    BY <1>1, <1>5 DEF RemovalStatement
  <2>2. /\ record' \in [Host -> Record \cup {NoRecord}]
        /\ \A g \in Host : g # h => record'[g] = record[g]
    BY <1>3, <2>1
  <2>3. rows' \subseteq rows /\ \A r \in rows' : r.host # h
    <3>1. ASSUME NEW r \in rows', r.host = h PROVE FALSE
      <4>1. r \in rows /\ r.table \notin {"measurement", "sighting"}
        BY <2>1, <3>1 DEF Without
      <4>2. r.table = "audit"
        BY <1>3, <4>1 DEF Row
      <4> QED BY <1>2, <1>5, <3>1, <4>1, <4>2
    <3> QED BY <2>1, <3>1 DEF Without
  <2>4. Types'
    BY <1>1, <1>3, <2>2, <2>3 DEF IInv, Types
  <2>5. ContextMatchesRecord' /\ OneTransport' /\ ImageOK' /\ OpenOK'
    BY <1>1, <1>2, <2>2 DEF IInv, ContextMatchesRecord, OneTransport, ImageOK, OpenOK, Recorded
  <2>6. RowsOK'
    BY <1>3, <2>2, <2>3 DEF IInv, RowsOK, Recorded, Row
  <2>7. RemovalOK'
    BY <2>1 DEF RemovalOK, Running
  <2> QED BY <2>4, <2>5, <2>6, <2>7 DEF IInv
<1> QED BY <1>4, <1>5

-----------------------------------------------------------------------------
(* The jobs.                                                               *)

\* What a job that is at work holds: a transport of a host, which is disposed
\* of or the one its host is registered with.
LEMMA HeldTransport ==
    ASSUME IInv, NEW j \in Job, job[j].stage = "working"
    PROVE  LET c == built[job[j].on] IN
             /\ job[j].on \in DOMAIN built /\ c \in Transport /\ job[j].work \in Work
             /\ c.disposed \in BOOLEAN
             /\ ~ c.disposed => /\ Recorded(c.host) /\ c.ssh = record[c.host].ssh
                                /\ c.pin = record[c.host].pin
             /\ c.open => c.pin \in {None, c.ssh.addr}
<1>1. built \in Seq(Transport) /\ job[j].on \in DOMAIN built /\ job[j].work \in Work
  BY DEF IInv, Types
<1>2. built[job[j].on] \in Transport
  BY <1>1
<1>3. ASSUME ~ built[job[j].on].disposed
      PROVE  /\ Recorded(built[job[j].on].host)
             /\ built[job[j].on].ssh = record[built[job[j].on].host].ssh
             /\ built[job[j].on].pin = record[built[job[j].on].host].pin
  <2>1. context[built[job[j].on].host] = job[j].on /\ built[job[j].on].host \in Host
    BY <1>1, <1>2, <1>3 DEF IInv, OneTransport, Transport
  <2>2. job[j].on # 0
    BY <1>1
  <2> QED BY <2>1, <2>2 DEF IInv, ContextMatchesRecord
<1>4. built[job[j].on].open => built[job[j].on].pin \in {None, built[job[j].on].ssh.addr}
  BY <1>1 DEF IInv, OpenOK
<1> QED BY <1>1, <1>2, <1>3, <1>4 DEF Transport

\* The first use builds the transport from the record, as the only one.
LEMMA ResolveInv ==
    ASSUME IInv, NEW j \in Job, NEW h \in Host, NEW work \in Work, Resolve(j, h, work)
    PROVE  IInv'
<1>1. PICK c \in 1 .. MaxContext :
        /\ Get(h, c)
        /\ job' = [job EXCEPT ![j] = [stage |-> "working", work |-> work, on |-> c]]
  BY DEF Resolve
<1>2. Running /\ UNCHANGED <<record, rows, image, removal>>
  BY DEF Resolve
<1>3. /\ record \in [Host -> Record \cup {NoRecord}] /\ rows \subseteq Row
      /\ built \in Seq(Transport) /\ context \in [Host -> 0 .. Len(built)]
      /\ DOMAIN image = Host /\ DOMAIN job = Job
      /\ \A i \in Job : job[i].stage = "working" =>
            job[i].work \in Work /\ job[i].on \in DOMAIN built
  BY DEF IInv, Types
<1>4. ImageOK' /\ RemovalOK' /\ RowsOK'
  BY <1>2 DEF IInv, ImageOK, RemovalOK, RowsOK, Recorded, Running
<1>5. CASE context[h] # 0 /\ c = context[h] /\ UNCHANGED <<context, built>>
  <2>1. c \in DOMAIN built
    BY <1>3, <1>5
  <2>2. Types'
    BY <1>1, <1>2, <1>3, <1>5, <2>1 DEF Types
  <2>3. ContextMatchesRecord' /\ OneTransport' /\ OpenOK'
    BY <1>2, <1>5 DEF IInv, ContextMatchesRecord, OneTransport, OpenOK, Recorded
  <2> QED BY <1>4, <2>2, <2>3 DEF IInv
<1>6. CASE /\ context[h] = 0 /\ Recorded(h)
           /\ c = Len(built) + 1
           /\ built' = Append(built, Built(h))
           /\ context' = [context EXCEPT ![h] = c]
  <2>1. record[h] \in Record
    BY <1>3, <1>6 DEF Recorded, NoRecord
  <2>2. Built(h) \in Transport
    BY <2>1 DEF Built, Transport, Record
  <2>3. /\ built' \in Seq(Transport) /\ Len(built') = c /\ built'[c] = Built(h)
        /\ \A i \in DOMAIN built : i \in DOMAIN built' /\ built'[i] = built[i] /\ i # c
        /\ \A i \in DOMAIN built' : i # c => i \in DOMAIN built
        /\ c \in DOMAIN built'
    BY <1>3, <1>6, <2>2
  <2>4. /\ context' \in [Host -> 0 .. Len(built')] /\ context'[h] = c
        /\ \A g \in Host : g # h => context'[g] = context[g]
    BY <1>3, <1>6, <2>3
  <2>5. Types'
    <3>1. \A i \in Job : job'[i].stage = "working" =>
             job'[i].work \in Work /\ job'[i].on \in DOMAIN built'
      BY <1>1, <1>3, <2>3
    <3> QED BY <1>1, <1>2, <1>3, <2>3, <2>4, <3>1 DEF Types
  <2>6. ASSUME NEW g \in Host, context'[g] # 0
        PROVE  LET k == built'[context'[g]] IN
                 /\ record[g].there /\ ~ k.disposed
                 /\ k.host = g /\ k.ssh = record[g].ssh /\ k.pin = record[g].pin
    <3>1. CASE g = h
      BY <1>6, <2>3, <2>4, <3>1 DEF Built, Recorded
    <3>2. CASE g # h
      <4>1. context'[g] = context[g] /\ context[g] \in DOMAIN built
        BY <1>3, <2>4, <2>6, <3>2
      <4>2. LET k == built[context[g]] IN
              /\ record[g].there /\ ~ k.disposed
              /\ k.host = g /\ k.ssh = record[g].ssh /\ k.pin = record[g].pin
        BY <2>6, <4>1 DEF IInv, ContextMatchesRecord, Recorded
      <4> QED BY <2>3, <4>1, <4>2
    <3> QED BY <3>1, <3>2
  <2>7. ContextMatchesRecord'
    BY <1>2, <2>6 DEF ContextMatchesRecord, Recorded
  <2>8. ASSUME NEW i \in DOMAIN built', ~ built'[i].disposed
        PROVE  context'[built'[i].host] = i
    <3>1. CASE i = c
      BY <2>3, <2>4, <3>1 DEF Built
    <3>2. CASE i # c
      <4>1. i \in DOMAIN built /\ built'[i] = built[i] /\ built[i] \in Transport
        BY <1>3, <2>3, <3>2
      <4>2. context[built[i].host] = i /\ built[i].host \in Host /\ i # 0
        BY <1>3, <2>8, <4>1 DEF IInv, OneTransport, Transport
      <4>3. built[i].host # h
        BY <1>6, <4>2
      <4> QED BY <2>4, <4>1, <4>2, <4>3
    <3> QED BY <3>1, <3>2
  <2>9. OneTransport'
    BY <2>8 DEF OneTransport
  <2>10. ASSUME NEW i \in DOMAIN built', built'[i].open
         PROVE  built'[i].pin \in {None, built'[i].ssh.addr}
    <3>1. i # c
      BY <2>3, <2>10 DEF Built
    <3> QED BY <2>3, <2>10, <3>1 DEF IInv, OpenOK
  <2>11. OpenOK'
    BY <2>10 DEF OpenOK
  <2> QED BY <1>4, <2>5, <2>7, <2>9, <2>11 DEF IInv
<1> QED BY <1>1, <1>5, <1>6 DEF Get

LEMMA ConnectInv ==
    ASSUME IInv, NEW j \in Job, Connect(j)
    PROVE  IInv'
<1> DEFINE c == job[j].on
<1>1. /\ job[j].stage = "working"
      /\ built' = [built EXCEPT ![c] = [built[c] EXCEPT !.open = TRUE]]
      /\ UNCHANGED <<record, rows, context, image, job, removal>>
  BY DEF Connect
<1>2. c \in DOMAIN built /\ built[c] \in Transport
  BY <1>1, HeldTransport
<1>3. built \in Seq(Transport)
  BY DEF IInv, Types
<1>4. LET opened == [built[c] EXCEPT !.open = TRUE] IN
        /\ opened \in Transport /\ opened.host = built[c].host /\ opened.ssh = built[c].ssh
        /\ opened.pin = built[c].pin /\ opened.disposed = built[c].disposed
  BY <1>2 DEF Transport
<1>5. built' \in Seq(Transport) /\ Len(built') = Len(built) /\ DOMAIN built' = DOMAIN built
  BY <1>1, <1>2, <1>3, <1>4
<1>6. /\ built'[c] = [built[c] EXCEPT !.open = TRUE]
      /\ \A i \in DOMAIN built : i # c => built'[i] = built[i]
  BY <1>1, <1>2, <1>3
<1>7. ASSUME NEW i \in DOMAIN built
      PROVE  /\ built'[i].host = built[i].host /\ built'[i].ssh = built[i].ssh
             /\ built'[i].pin = built[i].pin /\ built'[i].disposed = built[i].disposed
  <2>1. /\ built'[c].host = built[c].host /\ built'[c].ssh = built[c].ssh
        /\ built'[c].pin = built[c].pin /\ built'[c].disposed = built[c].disposed
    BY <1>4, <1>6, Zenon
  <2>2. CASE i = c
    BY <2>1, <2>2, Zenon
  <2>3. CASE i # c
    BY <1>6, <2>3, Zenon
  <2> QED BY <2>2, <2>3
<1>8. Types'
  BY <1>1, <1>5 DEF IInv, Types
<1>9. \A h \in Host : context[h] # 0 => context[h] \in DOMAIN built
  BY <1>3 DEF IInv, Types
<1>10. ContextMatchesRecord'
  BY <1>1, <1>7, <1>9 DEF IInv, ContextMatchesRecord, Recorded
<1>11. OneTransport'
  BY <1>1, <1>5, <1>7 DEF IInv, OneTransport
<1>12. ImageOK' /\ RemovalOK' /\ RowsOK'
  BY <1>1 DEF IInv, ImageOK, RemovalOK, RowsOK, Recorded, Running
<1>13. ASSUME NEW i \in DOMAIN built', built'[i].open
       PROVE  built'[i].pin \in {None, built'[i].ssh.addr}
  <2>1. i \in DOMAIN built /\ built'[i].ssh = built[i].ssh /\ built'[i].pin = built[i].pin
    BY <1>5, <1>7
  <2>2. CASE i = c
    <3>1. built[c].pin \in {None, built[c].ssh.addr}
      BY DEF Connect
    <3> QED BY <2>1, <2>2, <3>1
  <2>3. CASE i # c
    <3>1. built'[i] = built[i]
      BY <1>6, <2>1, <2>3
    <3> QED BY <1>13, <2>1, <3>1 DEF IInv, OpenOK
  <2> QED BY <2>2, <2>3
<1>14. OpenOK'
  BY <1>13 DEF OpenOK
<1> QED BY <1>8, <1>10, <1>11, <1>12, <1>14 DEF IInv

LEMMA CheckImageInv ==
    ASSUME IInv, NEW j \in Job, CheckImage(j)
    PROVE  IInv'
<1> DEFINE c == built[job[j].on]
<1>1. /\ Running /\ job[j].stage = "working"
      /\ image' = [image EXCEPT ![c.host] = [at |-> c.ssh.addr, late |-> c.disposed]]
      /\ UNCHANGED <<record, rows, context, built, job, removal>>
  BY DEF CheckImage
<1>2. /\ c \in Transport /\ c.disposed \in BOOLEAN
      /\ ~ c.disposed => Recorded(c.host) /\ c.ssh = record[c.host].ssh
  BY <1>1, HeldTransport
<1>3. DOMAIN image = Host /\ c.host \in Host
  BY <1>2 DEF IInv, Types, Transport
<1>4. Types'
  BY <1>1, <1>3 DEF IInv, Types
<1>5. ImageOK'
  BY <1>1, <1>2, <1>3 DEF IInv, ImageOK, Recorded
<1>6. ContextMatchesRecord' /\ OneTransport' /\ RowsOK' /\ OpenOK'
  BY <1>1 DEF IInv, ContextMatchesRecord, OneTransport, RowsOK, OpenOK, Recorded
<1>7. RemovalOK'
  BY <1>1 DEF RemovalOK, Running
<1> QED BY <1>4, <1>5, <1>6, <1>7 DEF IInv

\* A row of a transport that is not disposed of is filed under a host that is
\* recorded, at the recorded address, by the machine with the pinned key.
LEMMA FiledRow ==
    ASSUME IInv, NEW j \in Job, Finish(j), NEW r \in rows' \ rows
    PROVE  /\ r \in Row
           /\ r.late \/ (Recorded(r.host) /\ r.from = record[r.host].ssh.addr)
           /\ r.late \/ record[r.host].pin \in {None, r.from}
           /\ UNCHANGED record
<1> DEFINE c == built[job[j].on]
           row == [table |-> RowOf[job[j].work], host |-> c.host,
                   from |-> c.ssh.addr, late |-> c.disposed]
<1>1. /\ job[j].stage = "working" /\ job[j].work # "test" /\ c.open
      /\ r = row /\ record' = record
  BY DEF Finish
<1>2. /\ c \in Transport /\ job[j].work \in Work
      /\ ~ c.disposed => /\ Recorded(c.host) /\ c.ssh = record[c.host].ssh
                         /\ c.pin = record[c.host].pin
      /\ c.pin \in {None, c.ssh.addr}
  BY <1>1, HeldTransport
<1>3. RowOf[job[j].work] \in {"measurement", "sighting", "audit"}
  BY <1>1, <1>2 DEF Work, RowOf
<1>4. row \in Row
  BY <1>2, <1>3 DEF Row, Transport
<1> QED BY <1>1, <1>2, <1>4

LEMMA FinishInv ==
    ASSUME IInv, NEW j \in Job, Finish(j)
    PROVE  IInv'
<1> DEFINE h == built[job[j].on].host
<1>1. /\ Running /\ job[j].stage = "working" /\ job' = [job EXCEPT ![j] = Idle]
      /\ UNCHANGED <<context, built, image, removal>>
  BY DEF Finish, memory
<1>2. record \in [Host -> Record \cup {NoRecord}] /\ rows \subseteq Row
  BY DEF IInv, Types
<1>3. h \in Host
  BY <1>1, HeldTransport DEF Transport
<1>4. \/ record' = record
      \/ Recorded(h) /\ record' = [record EXCEPT ![h] = [record[h] EXCEPT !.seen = TRUE]]
         /\ rows' = rows
  BY DEF Finish
<1>5. /\ record' \in [Host -> Record \cup {NoRecord}]
      /\ \A g \in Host : record[g].there => record'[g].there
      /\ \A g \in Host : record[g].there => record'[g].ssh = record[g].ssh
      /\ \A g \in Host : record[g].there => record'[g].pin = record[g].pin
  <2>1. CASE record' = record
    BY <1>2, <2>1
  <2>2. CASE Recorded(h) /\ record' = [record EXCEPT ![h] = [record[h] EXCEPT !.seen = TRUE]]
    <3>1. record[h] \in Record
      BY <1>2, <1>3, <2>2 DEF Recorded, NoRecord
    <3>2. LET seen == [record[h] EXCEPT !.seen = TRUE] IN
            /\ seen \in Record /\ seen.there /\ record[h].there
            /\ seen.ssh = record[h].ssh /\ seen.pin = record[h].pin
      BY <3>1 DEF Record
    <3>3. /\ record' \in [Host -> Record \cup {NoRecord}]
          /\ record'[h] = [record[h] EXCEPT !.seen = TRUE]
          /\ \A g \in Host : g # h => record'[g] = record[g]
      BY <1>2, <1>3, <2>2, <3>2
    <3> QED BY <3>2, <3>3
  <2> QED BY <1>4, <2>1, <2>2
<1>6. rows' \subseteq Row /\ \A r \in rows' : r \in rows \/ r.late \/ Recorded(r.host)
  BY <1>2, FiledRow
<1>7. Types'
  <2>1. Types
    BY DEF IInv
  <2> QED BY <1>1, <1>5, <1>6, <2>1 DEF Types, Idle
<1>8. RowsOK'
  <2>1. \A r \in rows' : r.host \in Host /\ (r.late \/ record[r.host].there)
    BY <1>6 DEF IInv, RowsOK, Recorded, Row
  <2> QED BY <1>5, <2>1 DEF RowsOK, Recorded
<1>9. ContextMatchesRecord'
  <2> SUFFICES ASSUME NEW g \in Host, context[g] # 0
               PROVE  /\ record'[g].there /\ ~ built[context[g]].disposed
                      /\ built[context[g]].host = g
                      /\ built[context[g]].ssh = record'[g].ssh
                      /\ built[context[g]].pin = record'[g].pin
    BY <1>1 DEF ContextMatchesRecord, Recorded
  <2>1. /\ record[g].there /\ ~ built[context[g]].disposed
        /\ built[context[g]].host = g
        /\ built[context[g]].ssh = record[g].ssh
        /\ built[context[g]].pin = record[g].pin
    BY DEF IInv, ContextMatchesRecord, Recorded
  <2> QED BY <1>5, <2>1
<1>10. OneTransport' /\ OpenOK'
  BY <1>1 DEF IInv, OneTransport, OpenOK
<1>11. ImageOK'
  <2> SUFFICES ASSUME NEW g \in Host, image[g] # None
               PROVE  /\ image[g].late \in BOOLEAN
                      /\ image[g].late \/ (record'[g].there /\ image[g].at = record'[g].ssh.addr)
    BY <1>1 DEF ImageOK, Recorded
  <2>1. /\ image[g].late \in BOOLEAN
        /\ image[g].late \/ (record[g].there /\ image[g].at = record[g].ssh.addr)
    BY DEF IInv, ImageOK, Recorded
  <2> QED BY <1>5, <2>1
<1>12. RemovalOK'
  BY <1>1 DEF RemovalOK, Running
<1> QED BY <1>7, <1>8, <1>9, <1>10, <1>11, <1>12 DEF IInv

LEMMA FailInv ==
    ASSUME IInv, NEW j \in Job, Fail(j)
    PROVE  IInv'
<1>1. /\ job' = [job EXCEPT ![j] = Idle]
      /\ UNCHANGED <<record, rows, context, built, image, removal>>
  BY DEF Fail, memory
<1>2. Types'
  BY <1>1 DEF IInv, Types, Idle
<1> QED BY <1>1, <1>2
        DEF IInv, ContextMatchesRecord, OneTransport, ImageOK, RemovalOK, RowsOK, OpenOK,
            Recorded, Running

\* What is left after a death is the database: in the middle of a removal the
\* host is still there.
LEMMA RestartInv ==
    ASSUME IInv, Restart
    PROVE  IInv'
<1>1. /\ context' = [h \in Host |-> 0] /\ built' = <<>>
      /\ image' = [h \in Host |-> None] /\ job' = [j \in Job |-> Idle]
      /\ removal' = NoRemoval /\ UNCHANGED <<record, rows>>
  BY DEF Restart
<1>2. built' \in Seq(Transport) /\ Len(built') = 0
  BY <1>1
<1>3. Types'
  BY <1>1, <1>2 DEF IInv, Types, Idle
<1>4. ContextMatchesRecord' /\ OneTransport' /\ ImageOK' /\ RemovalOK' /\ OpenOK'
  BY <1>1 DEF ContextMatchesRecord, OneTransport, ImageOK, RemovalOK, OpenOK, Running
<1>5. RowsOK'
  BY <1>1 DEF IInv, RowsOK, Recorded
<1> QED BY <1>3, <1>4, <1>5 DEF IInv

LEMMA StepInv == IInv /\ [Next]_vars => IInv'
<1> SUFFICES ASSUME IInv, [Next]_vars PROVE IInv'
  OBVIOUS
<1>1. ASSUME NEW h \in Host, NEW a \in Address, NEW p \in KeyPath, Create(h, Ssh(a, p))
      PROVE  IInv'
  BY <1>1, CreateInv
<1>2. ASSUME NEW h \in Host, NEW a \in Address, NEW p \in KeyPath, NEW e \in BOOLEAN,
             Update(h, Ssh(a, p), e)
      PROVE  IInv'
  BY <1>2, UpdateInv
<1>3. ASSUME NEW h \in Host, NEW key \in Address, Trust(h, key) PROVE IInv'
  BY <1>3, TrustInv
<1>4. ASSUME NEW h \in Host, StartRemove(h) PROVE IInv'
  BY <1>4, StartRemoveInv
<1>5. ASSUME NEW j \in Job, NEW h \in Host, NEW work \in Work, Resolve(j, h, work) PROVE IInv'
  BY <1>5, ResolveInv
<1>6. ASSUME NEW j \in Job, Connect(j) \/ CheckImage(j) \/ Finish(j) \/ Fail(j) PROVE IInv'
  BY <1>6, ConnectInv, CheckImageInv, FinishInv, FailInv
<1>7. CASE UNCHANGED vars
  BY <1>7 DEF vars, IInv, Types, ContextMatchesRecord, OneTransport, ImageOK, RemovalOK, RowsOK,
              OpenOK, Recorded, Running
<1> QED BY <1>1, <1>2, <1>3, <1>4, <1>5, <1>6, <1>7, RemoveInv, RestartInv DEF Next

LEMMA Inductive == Spec => []IInv
<1>1. Init => IInv
  BY InitInv
<1> QED BY <1>1, StepInv, PTL DEF Spec

-----------------------------------------------------------------------------
(* What follows.                                                           *)

\* The registry's invariant, in every state: a registered transport is the
\* record's, all others of its host have been disposed of, and a check of the
\* probe image that counts was made on the recorded machine.
THEOREM RegistryIsCurrent == Spec => []RegistryInv
<1>1. IInv => RegistryInv
  <2> SUFFICES ASSUME IInv PROVE RegistryInv
    OBVIOUS
  <2>1. TypeOK
    <3>1. /\ record \in [Host -> Record \cup {NoRecord}] /\ rows \subseteq Row
          /\ context \in [Host -> 0 .. Len(built)] /\ built \in Seq(Transport)
      BY DEF IInv, Types
    <3>2. ASSUME NEW c \in DOMAIN built PROVE built[c].host \in Host
      <4>1. built[c] \in Transport
        BY <3>1
      <4> QED BY <4>1 DEF Transport
    <3>3. \A h \in Host : image[h] = None \/ image[h].late \in BOOLEAN
      BY DEF IInv, ImageOK
    <3>4. removal.next \in 0 .. 4
      BY DEF IInv, RemovalOK, Running, NoRemoval
    <3> QED BY <3>1, <3>2, <3>3, <3>4 DEF TypeOK
  <2>2. \A h \in Host : image[h] # None /\ Recorded(h) =>
           image[h].late \/ image[h].at = record[h].ssh.addr
    BY DEF IInv, ImageOK
  <2> QED BY <2>1, <2>2 DEF IInv, RegistryInv
<1> QED BY <1>1, Inductive, PTL

\* Every row belongs to a recorded host, or was filed by something that
\* outlived its transport: the order of the statements of remove() is enough,
\* wherever the process dies.
THEOREM HistoryKeepsItsHost == Spec => []HistoryHasItsHost
<1>1. IInv => HistoryHasItsHost
  BY DEF IInv, RowsOK, HistoryHasItsHost
<1> QED BY <1>1, Inductive, PTL

\* Rows are filed by jobs that come to their end, and by nothing else.
LEMMA JobsFile ==
    ASSUME Next, NEW r \in rows' \ rows
    PROVE  \E j \in Job : Finish(j)
<1>1. ASSUME NEW h \in Host, NEW a \in Address, NEW p \in KeyPath, NEW e \in BOOLEAN,
             Create(h, Ssh(a, p)) \/ Update(h, Ssh(a, p), e)
      PROVE  rows' = rows
  BY <1>1 DEF Create, Update
<1>2. ASSUME NEW h \in Host, NEW key \in Address, Trust(h, key)
      PROVE  rows' = rows
  BY <1>2 DEF Trust
<1>3. ASSUME Remove PROVE rows' \subseteq rows
  BY <1>3 DEF Remove, RemovalStatement, Without
<1>4. ASSUME NEW j \in Job, NEW h \in Host, NEW work \in Work, Resolve(j, h, work)
      PROVE  rows' = rows
  BY <1>4 DEF Resolve
<1>5. ASSUME NEW j \in Job, Connect(j) \/ CheckImage(j) \/ Fail(j)
      PROVE  rows' = rows
  BY <1>5 DEF Connect, CheckImage, Fail
<1>6. ASSUME Restart PROVE rows' = rows
  BY <1>6 DEF Restart
<1>7. ASSUME NEW h \in Host, StartRemove(h) PROVE rows' = rows
  BY <1>7 DEF StartRemove
<1> QED BY <1>1, <1>2, <1>3, <1>4, <1>5, <1>6, <1>7 DEF Next

\* What a transport that is still registered files was read from the machine
\* the record names.
THEOREM RowsAreOfTheRecordedMachine == Spec => FiledFromTheRecordedMachine
<1> DEFINE Filed == \A r \in rows' \ rows :
                       r.late \/ (Recorded(r.host) /\ r.from = record[r.host].ssh.addr)
<1>1. IInv /\ [Next]_vars => [Filed]_vars
  <2> SUFFICES ASSUME IInv, Next, NEW r \in rows' \ rows
               PROVE  r.late \/ (Recorded(r.host) /\ r.from = record[r.host].ssh.addr)
    OBVIOUS
  <2> QED BY JobsFile, FiledRow
<1>2. []IInv /\ [][Next]_vars => [][Filed]_vars
  BY <1>1, PTL
<1> QED BY <1>2, Inductive DEF Spec, FiledFromTheRecordedMachine

\* And from the machine whose key the operator confirmed, if one was.
THEOREM PinsAreHonoured == Spec => PinnedMachineAnswers
<1> DEFINE Pinned == \A r \in rows' \ rows : r.late \/ record[r.host].pin \in {None, r.from}
<1>1. IInv /\ [Next]_vars => [Pinned]_vars
  <2> SUFFICES ASSUME IInv, Next, NEW r \in rows' \ rows
               PROVE  r.late \/ record[r.host].pin \in {None, r.from}
    OBVIOUS
  <2> QED BY JobsFile, FiledRow
<1>2. []IInv /\ [][Next]_vars => [][Pinned]_vars
  BY <1>1, PTL
<1> QED BY <1>2, Inductive DEF Spec, PinnedMachineAnswers

-----------------------------------------------------------------------------
(***************************************************************************)
(* The store the records are kept in (SchemaMigration).  Its file is       *)
(* brought up to date at every start, and what the process works on is     *)
(* proved to have survived that.                                           *)
(***************************************************************************)
Index == {"volume_time", "audit_created", "host_volume_time", "audit_host"}
File == [version : 0 .. 2, shape : [Table -> 0 .. 2], local : BOOLEAN, copy : BOOLEAN,
         copied : Nat, indexes : SUBSET Index, history : Nat, ledger : Nat]

\* What is committed never shows a migration half done.
AtRest(f) ==
    /\ f \in File /\ ~ f.copy /\ f.copied = 0
    /\ f.version = 2 => Migrated(f)
    /\ f.version < 2 => \A t \in Table : f.shape[t] <= IF t = "host" THEN 0 ELSE 1

\* The tables the baseline has seen to, when it has come to statement n.
Made(n) == (IF n > 1 THEN {"meta"} ELSE {}) \cup (IF n > 2 THEN {"measurement"} ELSE {})
           \cup (IF n > 4 THEN {"sighting"} ELSE {}) \cup (IF n > 5 THEN {"audit"} ELSE {})
TablesMade(f, n) == \A t \in Made(n) : f.shape[t] # 0

\* The shape of table t in a migration that has come to statement n.
ShapeAt(t, n) ==
    IF t = "host" THEN (IF n > 1 THEN 1 ELSE 0)
    ELSE IF t = "measurement" THEN (IF n > 3 THEN 2 ELSE 1)
    ELSE IF t = "audit" THEN (IF n > 4 THEN 2 ELSE 1)
    ELSE IF t = "sighting" THEN (IF n < 11 THEN 1 ELSE IF n = 11 THEN 0 ELSE 2)
    ELSE 1

\* The file f, in the migration of c that has come to statement n.
MidMigration(f, c, n) ==
    /\ f.version = 1 /\ f.history = c.history
    /\ \A t \in Table : f.shape[t] = ShapeAt(t, n)
    /\ f.copy <=> n \in 9 .. 11
    /\ n > 2 => f.local
    /\ n > 6 => "host_volume_time" \in f.indexes
    /\ n > 7 => "audit_host" \in f.indexes
    /\ f.copied = IF n \in 10 .. 11 THEN c.ledger ELSE 0
    /\ f.ledger = IF n = 11 THEN 0 ELSE c.ledger

StoreIInv ==
    /\ file \in File /\ AtRest(committed)
    /\ stage \in {"down", "baseline", "migrating", "ready", "closed"}
    /\ next \in 1 .. 12
    /\ stage # "migrating" => file = committed
    /\ stage = "baseline" => next <= 7 /\ TablesMade(file, next)
    /\ stage = "migrating" => committed.version = 1 /\ MidMigration(file, committed, next)
    /\ stage = "ready" => file.version = 2

\* The statements that are run.
LEMMA Statements ==
  /\ Len(Baseline) = 6 /\ Len(Hosts) = 11
  /\ Baseline[1] = <<"table", "meta">> /\ Baseline[2] = <<"table", "measurement">>
  /\ Baseline[3] = <<"index", "volume_time">> /\ Baseline[4] = <<"table", "sighting">>
  /\ Baseline[5] = <<"table", "audit">> /\ Baseline[6] = <<"index", "audit_created">>
  /\ Hosts[1] = <<"table", "host">> /\ Hosts[2] = <<"seedLocal", "host">>
  /\ Hosts[3] = <<"widen", "measurement">> /\ Hosts[4] = <<"widen", "audit">>
  /\ Hosts[5] = <<"dropIndex", "volume_time">>
  /\ Hosts[6] = <<"index", "host_volume_time">> /\ Hosts[7] = <<"index", "audit_host">>
  /\ Hosts[8] = <<"createCopy", "sighting">> /\ Hosts[9] = <<"copyRows", "sighting">>
  /\ Hosts[10] = <<"drop", "sighting">> /\ Hosts[11] = <<"rename", "sighting">>
BY DEF Baseline, Hosts

LEMMA BaselineStep ==
  ASSUME NEW f \in File, AtRest(f), NEW n \in 1 .. 6, TablesMade(f, n)
  PROVE  LET s == Baseline[n]
             g == Executed(f, s)
         IN  /\ ~ Rejected(f, s)
             /\ g \in File /\ AtRest(g) /\ TablesMade(g, n + 1)
             /\ g.version = f.version /\ g.history = f.history /\ g.ledger = f.ledger
<1> DEFINE g == Executed(f, Baseline[n])
<1>1. CASE \E t \in Table \ {"host"} : Baseline[n] = <<"table", t>>
  <2>1. PICK t \in Table \ {"host"} : Baseline[n] = <<"table", t>>
    BY <1>1
  <2>2. /\ ~ Rejected(f, Baseline[n])
        /\ g = IF f.shape[t] = 0 THEN [f EXCEPT !.shape[t] = 1] ELSE f
    <3>1. /\ ~ Rejected(f, <<"table", t>>)
          /\ Executed(f, <<"table", t>>) = IF f.shape[t] = 0 THEN [f EXCEPT !.shape[t] = 1] ELSE f
      BY DEF Rejected, Executed
    <3> QED BY <2>1, <3>1
  <2> HIDE DEF g
  <2>3. /\ g \in File /\ g.version = f.version /\ g.history = f.history /\ g.ledger = f.ledger
        /\ g.copy = f.copy /\ g.copied = f.copied /\ g.local = f.local /\ g.indexes = f.indexes
        /\ g.shape[t] = IF f.shape[t] = 0 THEN 1 ELSE f.shape[t]
        /\ \A u \in Table : u # t => g.shape[u] = f.shape[u]
    <3>1. /\ f.shape \in [Table -> 0 .. 2] /\ f.version \in 0 .. 2 /\ f.local \in BOOLEAN
          /\ f.copy \in BOOLEAN /\ f.copied \in Nat /\ f.indexes \in SUBSET Index
          /\ f.history \in Nat /\ f.ledger \in Nat
      BY DEF File
    <3>2. [f.shape EXCEPT ![t] = 1] \in [Table -> 0 .. 2]
      BY <3>1
    <3>3. CASE f.shape[t] = 0
      <4>1. g = [f EXCEPT !.shape = [f.shape EXCEPT ![t] = 1]]
        BY <2>2, <3>3
      <4>2. PICK shape \in [Table -> 0 .. 2] : shape = [f.shape EXCEPT ![t] = 1]
        BY <3>2
      <4>3. shape[t] = 1 /\ \A u \in Table : u # t => shape[u] = f.shape[u]
        BY <2>1, <3>1, <4>2
      <4>4. g = [f EXCEPT !.shape = shape]
        BY <4>1, <4>2
      <4> QED BY <3>3, <4>3, <4>4 DEF File
    <3>4. CASE f.shape[t] # 0
      BY <2>2, <3>4
    <3> QED BY <3>3, <3>4
  <2>4. f.version = 2 => g = f
    BY <2>1, <2>2 DEF AtRest, Migrated
  <2>5. AtRest(g)
    BY <2>1, <2>3, <2>4 DEF AtRest
  <2>6. TablesMade(g, n + 1)
    <3>1. n + 1 \in 1 .. 7 /\ Made(n + 1) \subseteq Made(n) \cup {t}
      <4>1. n = 1 => t = "meta"
        BY <2>1, Statements
      <4>2. n = 2 => t = "measurement"
        BY <2>1, Statements
      <4>3. n = 4 => t = "sighting"
        BY <2>1, Statements
      <4>4. n = 5 => t = "audit"
        BY <2>1, Statements
      <4>5. n # 3 /\ n # 6
        BY <2>1, Statements
      <4> QED BY <4>1, <4>2, <4>3, <4>4, <4>5 DEF Made
    <3>2. \A u \in Made(n) : u \in Table /\ f.shape[u] # 0
      BY DEF TablesMade, Made, Table
    <3> QED BY <2>1, <2>3, <3>1, <3>2 DEF TablesMade
  <2> QED BY <2>2, <2>3, <2>5, <2>6 DEF g
<1>2. CASE \E i \in Index : Baseline[n] = <<"index", i>> /\ n \in {3, 6}
  <2>1. PICK i \in Index : Baseline[n] = <<"index", i>> /\ n \in {3, 6}
    BY <1>2
  <2>2. /\ ~ Rejected(f, Baseline[n])
        /\ g = [f EXCEPT !.indexes = @ \cup {i}]
    <3>1. /\ ~ Rejected(f, <<"index", i>>)
          /\ Executed(f, <<"index", i>>) = [f EXCEPT !.indexes = @ \cup {i}]
      BY DEF Rejected, Executed
    <3> QED BY <2>1, <3>1
  <2> HIDE DEF g
  <2>3. /\ g \in File /\ g.version = f.version /\ g.history = f.history /\ g.ledger = f.ledger
        /\ g.copy = f.copy /\ g.copied = f.copied /\ g.local = f.local /\ f.indexes \subseteq g.indexes
        /\ g.shape = f.shape
    BY <2>1, <2>2 DEF File
  <2>5. AtRest(g)
    BY <2>3 DEF AtRest, Migrated
  <2>6. TablesMade(g, n + 1)
    <3>1. Made(n + 1) \subseteq Made(n)
      BY <2>1 DEF Made
    <3> QED BY <2>3, <3>1 DEF TablesMade
  <2> QED BY <2>2, <2>3, <2>5, <2>6 DEF g
<1>3. n = 1 \/ n = 2 \/ n = 3 \/ n = 4 \/ n = 5 \/ n = 6
  OBVIOUS
<1>4. CASE n = 3
  BY <1>2, <1>4, Statements DEF Index
<1>5. CASE n = 6
  BY <1>2, <1>5, Statements DEF Index
<1>6. CASE n \in {1, 2, 4, 5}
  <2>1. \E t \in Table \ {"host"} : Baseline[n] = <<"table", t>>
    BY <1>6, Statements DEF Table
  <2> QED BY <1>1, <2>1
<1> QED BY <1>3, <1>4, <1>5, <1>6

LEMMA MigrationStep ==
  ASSUME NEW f \in File, NEW c \in File, NEW n \in 1 .. 11, MidMigration(f, c, n)
  PROVE  LET s == Hosts[n]
             g == Executed(f, s)
         IN  ~ Rejected(f, s) /\ g \in File /\ MidMigration(g, c, n + 1)
<1>1. PICK s : s = Hosts[n]
  OBVIOUS
<1> DEFINE g == Executed(f, s)
<1>2. /\ f.shape \in [Table -> 0 .. 2] /\ f.version \in 0 .. 2 /\ f.local \in BOOLEAN
      /\ f.copy \in BOOLEAN /\ f.copied \in Nat /\ f.indexes \in SUBSET Index
      /\ f.history \in Nat /\ f.ledger \in Nat /\ c.ledger \in Nat
  BY DEF File
<1>4. f.copy \in BOOLEAN /\ f.local \in BOOLEAN
  BY <1>2
<1>5. CASE n = 1
  <2>1. PICK t \in Table : t = "host"
    BY DEF Table
  <2>2. PICK shape \in [Table -> 0 .. 2] : shape = [f.shape EXCEPT ![t] = 1]
    <3>1. [f.shape EXCEPT ![t] = 1] \in [Table -> 0 .. 2]
      BY <1>2
    <3> QED BY <3>1
  <2>3. shape[t] = 1 /\ \A u \in Table : u # t => shape[u] = f.shape[u]
    BY <1>2, <2>2
  <2>4. ~ Rejected(f, s) /\ g = [f EXCEPT !.shape = shape]
    <3>1. f.shape[t] = 0
      BY <1>5, <2>1 DEF MidMigration, ShapeAt
    <3>2. ~ Rejected(f, <<"table", t>>) /\ Executed(f, <<"table", t>>) = [f EXCEPT !.shape = shape]
      BY <2>2, <3>1 DEF Rejected, Executed
    <3>3. s = <<"table", t>>
      BY <1>1, <1>5, <2>1, Statements
    <3> QED BY <3>2, <3>3
  <2> HIDE DEF g
  <2>5. /\ g \in File
        /\ g.version = f.version /\ g.history = f.history /\ g.ledger = f.ledger /\ g.copy = f.copy
        /\ g.copied = f.copied /\ g.local = f.local /\ g.indexes = f.indexes /\ g.shape = shape
    BY <1>2, <2>4 DEF File
  <2>6. MidMigration(g, c, 2)
    <3>1. MidMigration(f, c, 1)
      BY <1>5
    <3> QED BY <1>4, <2>1, <2>3, <2>5, <3>1 DEF MidMigration, ShapeAt
  <2> QED BY <1>1, <1>5, <2>4, <2>5, <2>6 DEF g
<1>6. CASE n = 2
  <2>1. PICK t \in Table : t = "host"
    BY DEF Table
  <2>4. ~ Rejected(f, s) /\ g = [f EXCEPT !.local = TRUE]
    <3>2. ~ Rejected(f, <<"seedLocal", t>>) /\ Executed(f, <<"seedLocal", t>>) = [f EXCEPT !.local = TRUE]
      BY DEF Rejected, Executed
    <3>3. s = <<"seedLocal", t>>
      BY <1>1, <1>6, <2>1, Statements
    <3> QED BY <3>2, <3>3
  <2> HIDE DEF g
  <2>5. /\ g \in File
        /\ g.version = f.version /\ g.history = f.history /\ g.ledger = f.ledger /\ g.copy = f.copy
        /\ g.copied = f.copied /\ g.local = TRUE /\ g.indexes = f.indexes /\ g.shape = f.shape
    BY <1>2, <2>4 DEF File
  <2>6. MidMigration(g, c, 3)
    <3>1. MidMigration(f, c, 2)
      BY <1>6
    <3> QED BY <1>4, <2>1, <2>5, <3>1 DEF MidMigration, ShapeAt
  <2> QED BY <1>1, <1>6, <2>4, <2>5, <2>6 DEF g
<1>7. CASE n = 3
  <2>1. PICK t \in Table : t = "measurement"
    BY DEF Table
  <2>2. PICK shape \in [Table -> 0 .. 2] : shape = [f.shape EXCEPT ![t] = 2]
    <3>1. [f.shape EXCEPT ![t] = 2] \in [Table -> 0 .. 2]
      BY <1>2
    <3> QED BY <3>1
  <2>3. shape[t] = 2 /\ \A u \in Table : u # t => shape[u] = f.shape[u]
    BY <1>2, <2>2
  <2>4. ~ Rejected(f, s) /\ g = [f EXCEPT !.shape = shape]
    <3>1. f.shape[t] = 1
      BY <1>7, <2>1 DEF MidMigration, ShapeAt
    <3>2. ~ Rejected(f, <<"widen", t>>) /\ Executed(f, <<"widen", t>>) = [f EXCEPT !.shape = shape]
      BY <2>2, <3>1 DEF Rejected, Executed
    <3>3. s = <<"widen", t>>
      BY <1>1, <1>7, <2>1, Statements
    <3> QED BY <3>2, <3>3
  <2> HIDE DEF g
  <2>5. /\ g \in File
        /\ g.version = f.version /\ g.history = f.history /\ g.ledger = f.ledger /\ g.copy = f.copy
        /\ g.copied = f.copied /\ g.local = f.local /\ g.indexes = f.indexes /\ g.shape = shape
    BY <1>2, <2>4 DEF File
  <2>6. MidMigration(g, c, 4)
    <3>1. MidMigration(f, c, 3)
      BY <1>7
    <3> QED BY <1>4, <2>1, <2>3, <2>5, <3>1 DEF MidMigration, ShapeAt
  <2> QED BY <1>1, <1>7, <2>4, <2>5, <2>6 DEF g
<1>8. CASE n = 4
  <2>1. PICK t \in Table : t = "audit"
    BY DEF Table
  <2>2. PICK shape \in [Table -> 0 .. 2] : shape = [f.shape EXCEPT ![t] = 2]
    <3>1. [f.shape EXCEPT ![t] = 2] \in [Table -> 0 .. 2]
      BY <1>2
    <3> QED BY <3>1
  <2>3. shape[t] = 2 /\ \A u \in Table : u # t => shape[u] = f.shape[u]
    BY <1>2, <2>2
  <2>4. ~ Rejected(f, s) /\ g = [f EXCEPT !.shape = shape]
    <3>1. f.shape[t] = 1
      BY <1>8, <2>1 DEF MidMigration, ShapeAt
    <3>2. ~ Rejected(f, <<"widen", t>>) /\ Executed(f, <<"widen", t>>) = [f EXCEPT !.shape = shape]
      BY <2>2, <3>1 DEF Rejected, Executed
    <3>3. s = <<"widen", t>>
      BY <1>1, <1>8, <2>1, Statements
    <3> QED BY <3>2, <3>3
  <2> HIDE DEF g
  <2>5. /\ g \in File
        /\ g.version = f.version /\ g.history = f.history /\ g.ledger = f.ledger /\ g.copy = f.copy
        /\ g.copied = f.copied /\ g.local = f.local /\ g.indexes = f.indexes /\ g.shape = shape
    BY <1>2, <2>4 DEF File
  <2>6. MidMigration(g, c, 5)
    <3>1. MidMigration(f, c, 4)
      BY <1>8
    <3> QED BY <1>4, <2>1, <2>3, <2>5, <3>1 DEF MidMigration, ShapeAt
  <2> QED BY <1>1, <1>8, <2>4, <2>5, <2>6 DEF g
<1>9. CASE n \in {5, 6, 7}
  <2>1. PICK indexes : indexes = IF n = 5 THEN f.indexes \ {"volume_time"}
                                 ELSE IF n = 6 THEN f.indexes \cup {"host_volume_time"}
                                 ELSE f.indexes \cup {"audit_host"}
    OBVIOUS
  <2>2. ~ Rejected(f, s) /\ g = [f EXCEPT !.indexes = indexes]
    <3>1. /\ ~ Rejected(f, <<"dropIndex", "volume_time">>)
          /\ Executed(f, <<"dropIndex", "volume_time">>) = [f EXCEPT !.indexes = f.indexes \ {"volume_time"}]
      BY DEF Rejected, Executed
    <3>2. ASSUME NEW i
          PROVE  /\ ~ Rejected(f, <<"index", i>>)
                 /\ Executed(f, <<"index", i>>) = [f EXCEPT !.indexes = f.indexes \cup {i}]
      BY DEF Rejected, Executed
    <3>3. CASE n = 5
      <4>1. s = <<"dropIndex", "volume_time">> /\ indexes = f.indexes \ {"volume_time"}
        BY <1>1, <2>1, <3>3, Statements
      <4> QED BY <3>1, <4>1
    <3>4. CASE n = 6
      <4>1. s = <<"index", "host_volume_time">> /\ indexes = f.indexes \cup {"host_volume_time"}
        BY <1>1, <2>1, <3>4, Statements
      <4> QED BY <3>2, <4>1
    <3>5. CASE n = 7
      <4>1. s = <<"index", "audit_host">> /\ indexes = f.indexes \cup {"audit_host"}
        BY <1>1, <2>1, <3>5, Statements
      <4> QED BY <3>2, <4>1
    <3> QED BY <1>9, <3>3, <3>4, <3>5
  <2>3. /\ indexes \in SUBSET Index
        /\ f.indexes \ {"volume_time"} \subseteq indexes
        /\ n = 6 => "host_volume_time" \in indexes
        /\ n = 7 => "audit_host" \in indexes
    BY <1>2, <1>9, <2>1 DEF Index
  <2> HIDE DEF g
  <2>4. /\ g \in File
        /\ g.version = f.version /\ g.history = f.history /\ g.ledger = f.ledger /\ g.copy = f.copy
        /\ g.copied = f.copied /\ g.local = f.local /\ g.indexes = indexes /\ g.shape = f.shape
    BY <1>2, <2>2, <2>3 DEF File
  <2>5. \A t \in Table : ShapeAt(t, n + 1) = ShapeAt(t, n)
    BY <1>9 DEF ShapeAt
  <2>6. n > 6 => "host_volume_time" \in g.indexes
    BY <1>9, <2>3, <2>4 DEF MidMigration
  <2>7. MidMigration(g, c, n + 1)
    BY <1>4, <1>9, <2>3, <2>4, <2>5, <2>6 DEF MidMigration
  <2> QED BY <1>1, <2>2, <2>4, <2>7 DEF g
<1>10. CASE n = 8
  <2>1. PICK t \in Table : t = "sighting"
    BY DEF Table
  <2>4. ~ Rejected(f, s) /\ g = [f EXCEPT !.copy = TRUE]
    <3>1. ~ f.copy
      BY <1>10, <2>1 DEF MidMigration, ShapeAt
    <3>2. ~ Rejected(f, <<"createCopy", t>>) /\ Executed(f, <<"createCopy", t>>) = [f EXCEPT !.copy = TRUE]
      BY <3>1 DEF Rejected, Executed
    <3>3. s = <<"createCopy", t>>
      BY <1>1, <1>10, <2>1, Statements
    <3> QED BY <3>2, <3>3
  <2> HIDE DEF g
  <2>5. /\ g \in File
        /\ g.version = f.version /\ g.history = f.history /\ g.ledger = f.ledger /\ g.copy = TRUE
        /\ g.copied = f.copied /\ g.local = f.local /\ g.indexes = f.indexes /\ g.shape = f.shape
    BY <1>2, <2>4 DEF File
  <2>6. MidMigration(g, c, 9)
    <3>1. MidMigration(f, c, 8)
      BY <1>10
    <3> QED BY <1>4, <2>1, <2>5, <3>1 DEF MidMigration, ShapeAt
  <2> QED BY <1>1, <1>10, <2>4, <2>5, <2>6 DEF g
<1>11. CASE n = 9
  <2>1. PICK t \in Table : t = "sighting"
    BY DEF Table
  <2>4. ~ Rejected(f, s) /\ g = [f EXCEPT !.copied = f.ledger]
    <3>1. f.copy /\ f.shape[t] = 1
      BY <1>11, <2>1 DEF MidMigration, ShapeAt
    <3>2. ~ Rejected(f, <<"copyRows", t>>) /\ Executed(f, <<"copyRows", t>>) = [f EXCEPT !.copied = f.ledger]
      BY <3>1 DEF Rejected, Executed
    <3>3. s = <<"copyRows", t>>
      BY <1>1, <1>11, <2>1, Statements
    <3> QED BY <3>2, <3>3
  <2> HIDE DEF g
  <2>5. /\ g \in File
        /\ g.version = f.version /\ g.history = f.history /\ g.ledger = f.ledger /\ g.copy = f.copy
        /\ g.copied = f.ledger /\ g.local = f.local /\ g.indexes = f.indexes /\ g.shape = f.shape
    BY <1>2, <2>4 DEF File
  <2>6. MidMigration(g, c, 10)
    <3>1. MidMigration(f, c, 9)
      BY <1>11
    <3> QED BY <1>4, <2>1, <2>5, <3>1 DEF MidMigration, ShapeAt
  <2> QED BY <1>1, <1>11, <2>4, <2>5, <2>6 DEF g
<1>12. CASE n = 10
  <2>1. PICK t \in Table : t = "sighting"
    BY DEF Table
  <2>2. PICK shape \in [Table -> 0 .. 2] : shape = [f.shape EXCEPT ![t] = 0]
    <3>1. [f.shape EXCEPT ![t] = 0] \in [Table -> 0 .. 2]
      BY <1>2
    <3> QED BY <3>1
  <2>3. shape[t] = 0 /\ \A u \in Table : u # t => shape[u] = f.shape[u]
    BY <1>2, <2>2
  <2>4. ~ Rejected(f, s) /\ g = [f EXCEPT !.shape = shape, !.ledger = 0]
    <3>1. f.shape[t] = 1
      BY <1>12, <2>1 DEF MidMigration, ShapeAt
    <3>2. ~ Rejected(f, <<"drop", t>>) /\ Executed(f, <<"drop", t>>) = [f EXCEPT !.shape = shape, !.ledger = 0]
      BY <2>2, <3>1 DEF Rejected, Executed
    <3>3. s = <<"drop", t>>
      BY <1>1, <1>12, <2>1, Statements
    <3> QED BY <3>2, <3>3
  <2> HIDE DEF g
  <2>5. /\ g \in File
        /\ g.version = f.version /\ g.history = f.history /\ g.ledger = 0 /\ g.copy = f.copy
        /\ g.copied = f.copied /\ g.local = f.local /\ g.indexes = f.indexes /\ g.shape = shape
    BY <1>2, <2>4 DEF File
  <2>6. MidMigration(g, c, 11)
    <3>1. MidMigration(f, c, 10)
      BY <1>12
    <3> QED BY <1>4, <2>1, <2>3, <2>5, <3>1 DEF MidMigration, ShapeAt
  <2> QED BY <1>1, <1>12, <2>4, <2>5, <2>6 DEF g
<1>13. CASE n = 11
  <2>1. PICK t \in Table : t = "sighting"
    BY DEF Table
  <2>2. PICK shape \in [Table -> 0 .. 2] : shape = [f.shape EXCEPT ![t] = 2]
    <3>1. [f.shape EXCEPT ![t] = 2] \in [Table -> 0 .. 2]
      BY <1>2
    <3> QED BY <3>1
  <2>3. shape[t] = 2 /\ \A u \in Table : u # t => shape[u] = f.shape[u]
    BY <1>2, <2>2
  <2>4. ~ Rejected(f, s) /\ g = [f EXCEPT !.shape = shape, !.ledger = f.copied, !.copy = FALSE, !.copied = 0]
    <3>1. f.shape[t] = 0 /\ f.copy
      BY <1>13, <2>1 DEF MidMigration, ShapeAt
    <3>2. ~ Rejected(f, <<"rename", t>>) /\ Executed(f, <<"rename", t>>) = [f EXCEPT !.shape = shape, !.ledger = f.copied, !.copy = FALSE, !.copied = 0]
      BY <2>2, <3>1 DEF Rejected, Executed
    <3>3. s = <<"rename", t>>
      BY <1>1, <1>13, <2>1, Statements
    <3> QED BY <3>2, <3>3
  <2> HIDE DEF g
  <2>5. /\ g \in File
        /\ g.version = f.version /\ g.history = f.history /\ g.ledger = f.copied /\ g.copy = FALSE
        /\ g.copied = 0 /\ g.local = f.local /\ g.indexes = f.indexes /\ g.shape = shape
    BY <1>2, <2>4 DEF File
  <2>6. MidMigration(g, c, 12)
    <3>1. MidMigration(f, c, 11)
      BY <1>13
    <3> QED BY <1>4, <2>1, <2>3, <2>5, <3>1 DEF MidMigration, ShapeAt
  <2> QED BY <1>1, <1>13, <2>4, <2>5, <2>6 DEF g
<1>14. n \in {5, 6, 7} \/ n = 1 \/ n = 2 \/ n = 3 \/ n = 4 \/ n = 8 \/ n = 9 \/ n = 10 \/ n = 11
  OBVIOUS
<1> QED BY <1>1, <1>5, <1>6, <1>7, <1>8, <1>9, <1>10, <1>11, <1>12, <1>13, <1>14

-----------------------------------------------------------------------------
(* Every step keeps the invariant.  The actions on a file are lemmas about  *)
(* constants; what a step does to the variables is small beside them.      *)

\* A file that has its tables is where the migration begins.
LEMMA StampedFile ==
  ASSUME NEW f \in File, AtRest(f), TablesMade(f, 7), NEW g,
         g = IF f.version = 0 THEN [f EXCEPT !.version = 1] ELSE f
  PROVE  /\ g \in File /\ AtRest(g) /\ g.history = f.history /\ g.ledger = f.ledger
         /\ g.version = 2 \/ (g.version = 1 /\ MidMigration(g, g, 1))
<1>1. /\ f.shape \in [Table -> 0 .. 2] /\ f.version \in 0 .. 2 /\ f.local \in BOOLEAN
      /\ f.copy \in BOOLEAN /\ f.copied \in Nat /\ f.indexes \in SUBSET Index
      /\ f.history \in Nat /\ f.ledger \in Nat
  BY DEF File
<1>2. /\ g \in File /\ g.history = f.history /\ g.ledger = f.ledger /\ g.copy = f.copy
      /\ g.copied = f.copied /\ g.local = f.local /\ g.indexes = f.indexes /\ g.shape = f.shape
      /\ g.version = IF f.version = 0 THEN 1 ELSE f.version
  BY <1>1 DEF File
<1>3. AtRest(g)
  BY <1>1, <1>2 DEF AtRest, Migrated
<1>4. CASE g.version = 1
  <2>1. \A t \in Table : f.shape[t] = IF t = "host" THEN 0 ELSE 1
    <3>1. \A t \in Table \ {"host"} : t \in Made(7)
      BY DEF Made, Table
    <3>2. \A t \in Table : f.shape[t] \in 0 .. 2 /\ f.shape[t] <= IF t = "host" THEN 0 ELSE 1
      BY <1>1, <1>2, <1>4 DEF AtRest
    <3>3. \A t \in Table \ {"host"} : f.shape[t] # 0
      BY <3>1 DEF TablesMade
    <3> QED BY <3>2, <3>3
  <2>2. \A t \in Table : g.shape[t] = ShapeAt(t, 1)
    BY <1>2, <2>1 DEF ShapeAt
  <2>3. ~ f.copy /\ f.copied = 0
    BY DEF AtRest
  <2> QED BY <1>1, <1>2, <1>3, <1>4, <2>2, <2>3 DEF MidMigration
<1> QED BY <1>1, <1>2, <1>3, <1>4

\* A migration that has come to its end has made the newest shape of the file,
\* with every row it found.
LEMMA MigratedFile ==
  ASSUME NEW f \in File, NEW c \in File, MidMigration(f, c, 12), NEW g, g = [f EXCEPT !.version = 2]
  PROVE  g \in File /\ AtRest(g) /\ g.version = 2 /\ g.history = c.history /\ g.ledger = c.ledger
<1>1. /\ f.shape \in [Table -> 0 .. 2] /\ f.version \in 0 .. 2 /\ f.local \in BOOLEAN
      /\ f.copy \in BOOLEAN /\ f.copied \in Nat /\ f.indexes \in SUBSET Index
      /\ f.history \in Nat /\ f.ledger \in Nat
  BY DEF File
<1>2. /\ g \in File /\ g.history = f.history /\ g.ledger = f.ledger /\ g.copy = f.copy
      /\ g.copied = f.copied /\ g.local = f.local /\ g.indexes = f.indexes /\ g.shape = f.shape
      /\ g.version = 2
  BY <1>1 DEF File
<1>3. /\ f.history = c.history /\ f.ledger = c.ledger /\ ~ f.copy /\ f.copied = 0 /\ f.local
      /\ "host_volume_time" \in f.indexes /\ "audit_host" \in f.indexes
  BY <1>1 DEF MidMigration
<1>4. \A t \in Table : f.shape[t] = IF t \in {"meta", "host"} THEN 1 ELSE 2
  BY DEF MidMigration, ShapeAt, Table
<1>5. f.shape = [t \in Table |-> f.shape[t]]
  BY <1>1
<1>6. f.shape = [t \in Table |-> IF t \in {"meta", "host"} THEN 1 ELSE 2]
  BY <1>4, <1>5
<1>7. Migrated(g)
  BY <1>2, <1>3, <1>6 DEF Migrated
<1> QED BY <1>2, <1>3, <1>7 DEF AtRest

LEMMA StoreBegins == StoreInit => StoreIInv
<1> SUFFICES ASSUME StoreInit PROVE StoreIInv
  OBVIOUS
<1>1. PICK version \in {0, 1}, kept \in 0 .. MaxFileRows : file = Released(version, kept)
  BY DEF StoreInit, BaselineVersion
<1>2. kept \in Nat
  BY RegistryOptions
<1>3. PICK shape \in [Table -> 0 .. 2] :
        shape = [t \in Table |-> IF (version > 0 \/ kept > 0) /\ t # "host" THEN 1 ELSE 0]
  <2>1. [t \in Table |-> IF (version > 0 \/ kept > 0) /\ t # "host" THEN 1 ELSE 0]
          \in [Table -> 0 .. 2]
    OBVIOUS
  <2> QED BY <2>1
<1>4. PICK indexes \in SUBSET Index :
        indexes = IF version > 0 \/ kept > 0 THEN {"volume_time", "audit_created"} ELSE {}
  <2>1. {"volume_time", "audit_created"} \subseteq Index
    BY DEF Index
  <2> QED BY <2>1
<1>5. file = [version |-> version, shape |-> shape, local |-> FALSE, copy |-> FALSE, copied |-> 0,
              indexes |-> indexes, history |-> kept, ledger |-> kept]
  BY <1>1, <1>3, <1>4 DEF Released
<1>6. /\ file \in File /\ file.version \in {0, 1} /\ file.copy = FALSE /\ file.copied = 0
      /\ file.shape = shape
  BY <1>2, <1>5 DEF File
<1>7. \A t \in Table : shape[t] <= IF t = "host" THEN 0 ELSE 1
  BY <1>3
<1>8. AtRest(file)
  BY <1>6, <1>7 DEF AtRest
<1> QED BY <1>6, <1>8 DEF StoreIInv, StoreInit

\* Each action of Next on the variables, from StoreIInv.
LEMMA ConnectStep == StoreIInv /\ ConnectStore => StoreIInv' /\ committed' = committed
<1> SUFFICES ASSUME StoreIInv, ConnectStore PROVE StoreIInv' /\ committed' = committed
  OBVIOUS
<1>1. PICK f \in File : f = committed /\ AtRest(f)
  BY DEF StoreIInv, AtRest
<1>2. file' = f /\ committed' = f /\ stage' = "baseline" /\ next' = 1 /\ committed' = committed
  BY <1>1 DEF ConnectStore
<1>3. TablesMade(f, 1)
  BY DEF TablesMade, Made
<1> QED BY <1>1, <1>2, <1>3 DEF StoreIInv

LEMMA RunBaselineStep ==
  StoreIInv /\ RunBaseline =>
     StoreIInv' /\ committed'.history = committed.history /\ committed'.ledger = committed.ledger
<1> SUFFICES ASSUME StoreIInv, RunBaseline
             PROVE  StoreIInv' /\ committed'.history = committed.history
                               /\ committed'.ledger = committed.ledger
  OBVIOUS
<1>1. PICK f \in File, n \in 1 .. 6 : /\ f = file /\ f = committed /\ n = next /\ AtRest(f)
                                      /\ TablesMade(f, n) /\ stage = "baseline"
  BY Statements DEF StoreIInv, RunBaseline
<1>2. PICK s : s = Baseline[n]
  OBVIOUS
<1>3. PICK g : g = Executed(f, s)
  OBVIOUS
<1>4. /\ ~ Rejected(f, s) /\ g \in File /\ AtRest(g) /\ TablesMade(g, n + 1)
      /\ g.history = f.history /\ g.ledger = f.ledger
  BY <1>1, <1>2, <1>3, BaselineStep
<1>5. file' = g /\ committed' = g /\ stage' = "baseline" /\ next' = n + 1
  BY <1>1, <1>2, <1>3, <1>4 DEF RunBaseline, Statement
<1>6. TablesMade(file', next')
  BY <1>4, <1>5
<1>7. n + 1 \in 1 .. 7
  OBVIOUS
<1> QED BY <1>1, <1>4, <1>5, <1>6, <1>7 DEF StoreIInv

LEMMA StampStep ==
  StoreIInv /\ Stamp =>
     StoreIInv' /\ committed'.history = committed.history /\ committed'.ledger = committed.ledger
<1> SUFFICES ASSUME StoreIInv, Stamp
             PROVE  StoreIInv' /\ committed'.history = committed.history
                               /\ committed'.ledger = committed.ledger
  OBVIOUS
<1>1. PICK f \in File : f = file /\ f = committed /\ AtRest(f) /\ TablesMade(f, next)
  BY DEF StoreIInv, Stamp
<1>2. next = 7
  BY Statements DEF StoreIInv, Stamp
<1>3. PICK g : g = IF f.version = 0 THEN [f EXCEPT !.version = 1] ELSE f
  OBVIOUS
<1>4. /\ g \in File /\ AtRest(g) /\ g.history = f.history /\ g.ledger = f.ledger
      /\ g.version = 2 \/ (g.version = 1 /\ MidMigration(g, g, 1))
  BY <1>1, <1>2, <1>3, StampedFile
<1>5. /\ file' = g /\ committed' = g /\ next' = 1
      /\ stage' = IF g.version < 2 THEN "migrating" ELSE "ready"
  BY <1>1, <1>3 DEF Stamp, BaselineVersion, Pending, LatestVersion
<1>6. stage' = "migrating" => MidMigration(file', committed', next')
  BY <1>4, <1>5
<1> QED BY <1>1, <1>4, <1>5, <1>6 DEF StoreIInv

LEMMA MigrateStep == StoreIInv /\ Migrate => StoreIInv' /\ committed' = committed
<1> SUFFICES ASSUME StoreIInv, Migrate PROVE StoreIInv' /\ committed' = committed
  OBVIOUS
<1>1. PICK f \in File, c \in File, n \in 1 .. 11 :
         /\ f = file /\ c = committed /\ n = next /\ AtRest(c) /\ MidMigration(f, c, n)
         /\ c.version = 1
  BY Statements DEF StoreIInv, Migrate, AtRest
<1>2. PICK s : s = Hosts[n]
  OBVIOUS
<1>3. PICK g : g = Executed(f, s)
  OBVIOUS
<1>4. ~ Rejected(f, s) /\ g \in File /\ MidMigration(g, c, n + 1)
  BY <1>1, <1>2, <1>3, MigrationStep
<1>5. file' = g /\ committed' = c /\ committed' = committed /\ stage' = "migrating" /\ next' = n + 1
  BY <1>1, <1>2, <1>3, <1>4 DEF Migrate, Statement
<1>6. MidMigration(file', committed', next')
  BY <1>4, <1>5
<1>7. n + 1 \in 1 .. 12
  OBVIOUS
<1> QED BY <1>1, <1>4, <1>5, <1>6, <1>7 DEF StoreIInv

LEMMA CommitStep ==
  StoreIInv /\ Commit =>
     StoreIInv' /\ committed'.history = committed.history /\ committed'.ledger = committed.ledger
<1> SUFFICES ASSUME StoreIInv, Commit
             PROVE  StoreIInv' /\ committed'.history = committed.history
                               /\ committed'.ledger = committed.ledger
  OBVIOUS
<1>1. next = 12
  BY Statements DEF StoreIInv, Commit
<1>2. PICK f \in File, c \in File : f = file /\ c = committed /\ MidMigration(f, c, 12)
  BY <1>1 DEF StoreIInv, Commit, AtRest
<1>3. PICK g : g = [f EXCEPT !.version = 2]
  OBVIOUS
<1>4. g \in File /\ AtRest(g) /\ g.version = 2 /\ g.history = c.history /\ g.ledger = c.ledger
  <2>1. MidMigration(f, c, 12)
    BY <1>2
  <2> HIDE <1>2
  <2> QED BY <1>3, <2>1, MigratedFile
<1>5. file' = g /\ committed' = g /\ next' = 1 /\ stage' = "ready"
  BY <1>2, <1>3 DEF Commit, LatestVersion
<1> QED BY <1>2, <1>4, <1>5 DEF StoreIInv

LEMMA WriteStep ==
  StoreIInv /\ Write =>
     StoreIInv' /\ committed'.history >= committed.history /\ committed'.ledger >= committed.ledger
<1> SUFFICES ASSUME StoreIInv, Write
             PROVE  StoreIInv' /\ committed'.history >= committed.history
                               /\ committed'.ledger >= committed.ledger
  OBVIOUS
<1>1. PICK f \in File : f = file /\ f = committed /\ AtRest(f) /\ f.version = 2
  BY DEF StoreIInv, Write
<1>2. PICK g : /\ g = [f EXCEPT !.history = @ + 1] \/ g = [f EXCEPT !.ledger = @ + 1]
               /\ g = file'
  BY <1>1 DEF Write
<1>3. /\ f.shape \in [Table -> 0 .. 2] /\ f.version \in 0 .. 2 /\ f.local \in BOOLEAN
      /\ f.copy \in BOOLEAN /\ f.copied \in Nat /\ f.indexes \in SUBSET Index
      /\ f.history \in Nat /\ f.ledger \in Nat
  BY DEF File
<1>4. /\ g \in File /\ g.history >= f.history /\ g.ledger >= f.ledger /\ g.copy = f.copy
      /\ g.copied = f.copied /\ g.local = f.local /\ g.indexes = f.indexes /\ g.shape = f.shape
      /\ g.version = 2
  BY <1>1, <1>2, <1>3 DEF File
<1>5. AtRest(g)
  BY <1>1, <1>4 DEF AtRest, Migrated
<1>6. file' = g /\ committed' = g /\ stage' = "ready" /\ next' = next
  BY <1>2 DEF Write
<1>7. next \in 1 .. 12
  BY DEF StoreIInv
<1> QED BY <1>1, <1>4, <1>5, <1>6, <1>7 DEF StoreIInv

LEMMA EndStep == StoreIInv /\ (Close \/ Crash) => StoreIInv' /\ committed' = committed
<1> SUFFICES ASSUME StoreIInv, Close \/ Crash PROVE StoreIInv' /\ committed' = committed
  OBVIOUS
<1>1. PICK f \in File : f = committed /\ AtRest(f)
  BY DEF StoreIInv, AtRest
<1>2. next \in 1 .. 12 /\ (stage = "ready" => file = f)
  BY <1>1 DEF StoreIInv
<1>3. /\ file' = f /\ committed' = f /\ committed' = committed
      /\ stage' \in {"closed", "down"} /\ next' \in 1 .. 12
  BY <1>1, <1>2 DEF Close, Crash
<1> QED BY <1>1, <1>3 DEF StoreIInv

LEMMA StoreStep ==
  StoreIInv /\ [StoreNext]_storeVars =>
     StoreIInv' /\ committed'.history >= committed.history /\ committed'.ledger >= committed.ledger
<1> SUFFICES ASSUME StoreIInv, [StoreNext]_storeVars
             PROVE  StoreIInv' /\ committed'.history >= committed.history
                               /\ committed'.ledger >= committed.ledger
  OBVIOUS
<1>1. committed.history \in Nat /\ committed.ledger \in Nat
  BY DEF StoreIInv, AtRest, File
<1>2. CASE ConnectStore
  BY <1>1, <1>2, ConnectStep
<1>3. CASE RunBaseline
  BY <1>1, <1>3, RunBaselineStep
<1>4. CASE Stamp
  BY <1>1, <1>4, StampStep
<1>5. CASE Migrate
  BY <1>1, <1>5, MigrateStep
<1>6. CASE Commit
  BY <1>1, <1>6, CommitStep
<1>7. CASE Write
  BY <1>7, WriteStep
<1>8. CASE Close \/ Crash
  BY <1>1, <1>8, EndStep
<1>9. CASE UNCHANGED storeVars
  <2>1. file' = file /\ committed' = committed /\ stage' = stage /\ next' = next
    BY <1>9 DEF storeVars
  <2>2. StoreIInv'
    BY <2>1 DEF StoreIInv
  <2> QED BY <1>1, <2>1, <2>2
<1> QED BY <1>2, <1>3, <1>4, <1>5, <1>6, <1>7, <1>8, <1>9 DEF StoreNext

\* What is invariant says what the runs check, and that no statement is refused.
LEMMA StoreMeans == StoreIInv => StoreInv /\ stage # "rejected"
<1> SUFFICES ASSUME StoreIInv PROVE StoreInv /\ stage # "rejected"
  OBVIOUS
<1>1. /\ file.version \in 0 .. 2 /\ file.shape \in [Table -> 0 .. 2]
      /\ committed.version \in 0 .. 2 /\ committed.shape \in [Table -> 0 .. 2]
      /\ committed.copy \in BOOLEAN
  BY DEF StoreIInv, AtRest, File
<1>2. /\ stage \in {"down", "baseline", "migrating", "ready", "closed"} /\ next \in 1 .. 12
      /\ stage = "ready" => file = committed /\ file.version = 2
  BY DEF StoreIInv
<1>3. StoreTypeOK
  BY <1>1, <1>2, Statements DEF StoreTypeOK, LatestVersion
<1>4. /\ committed.version = 2 => Migrated(committed)
      /\ committed.version < 2 => ~ committed.copy
      /\ committed.version < 2 =>
            \A t \in Table : committed.shape[t] <= IF t = "host" THEN 0 ELSE 1
  BY DEF StoreIInv, AtRest
<1>5. \A t \in Table : committed.shape[t] \in 0 .. 2
  BY <1>1
<1>6. committed.version < 2 => \A t \in Table : committed.shape[t] <= 1
  BY <1>4, <1>5
<1> QED BY <1>2, <1>3, <1>4, <1>6 DEF StoreInv, LatestVersion

LEMMA StoreInductive == StoreSpec => []StoreIInv
<1>1. StoreIInv /\ [StoreNext]_storeVars => StoreIInv'
  BY StoreStep
<1> QED BY StoreBegins, <1>1, PTL DEF StoreSpec

(* What the program reads and writes has the newest shape; the version in a *)
(* file is that of its shape wherever the process dies (sqlite.client.ts    *)
(* connect, migration.store.ts); and no file that version 1 or a crash has  *)
(* left makes SQLite refuse a statement of the baseline or of a migration.  *)
THEOREM ShapeIsVersion == StoreSpec => [](StoreInv /\ stage # "rejected")
<1>1. StoreSpec => []StoreIInv
  BY StoreInductive
<1> QED BY <1>1, StoreMeans, PTL

(* No start, no migration and no crash loses a row of the history or of the *)
(* ledger (MIGRATION_V2_HOSTS copies the ledger before it drops it).        *)
THEOREM RowsSurvive == StoreSpec => HistorySurvives
<1>1. StoreIInv /\ [StoreNext]_storeVars =>
        [/\ committed'.history >= committed.history
         /\ committed'.ledger >= committed.ledger]_storeVars
  BY StoreStep
<1>2. StoreSpec => []StoreIInv
  BY StoreInductive
<1>3. StoreSpec => [][StoreNext]_storeVars
  BY PTL DEF StoreSpec
<1> QED BY <1>1, <1>2, <1>3, PTL DEF HistorySurvives
=============================================================================
