--------------------------- MODULE TtlCacheProofs ---------------------------
(***************************************************************************)
(* Proofs about TtlCache for every set of hosts, kinds and callers, every  *)
(* time to live and every latency.                                         *)
(***************************************************************************)
EXTENDS TtlCache, Dashboard, TLAPS, SequenceTheorems, FiniteSetTheorems

-----------------------------------------------------------------------------
(***************************************************************************)
(* The inductive invariant, one part per variable.  OneFlightPerKey is not *)
(* inductive: that a key without a registered flight has none in the air   *)
(* needs both directions between inFlight and the stages.  AgeBounded      *)
(* needs what an entry's expiry says of the moment its value was read, and *)
(* InvalidationForgets that an entry is never older than its key's epoch.  *)
(***************************************************************************)
Air == {"sent", "read", "landed", "failed"}

Flight == [key : Key, value : Value, stage : Air \cup {"done", "dropped"}]
Entry == [value : Value, expiresAt : Nat]
Call == [about : Key, askedAt : 0 .. MaxNow, askedEpoch : Nat, from : 0 .. Len(flight),
         answer : Value \cup {Absent, Failed}]

FlightOK(f) ==
    /\ flight[f].value.about = flight[f].key
    /\ flight[f].stage \in Air => inFlight[flight[f].key] = f
    /\ flight[f].stage \in {"read", "landed"} => now <= flight[f].value.readAt + Latency

KeyOK(k) ==
    inFlight[k] # NoFlight => /\ flight[inFlight[k]].key = k
                              /\ flight[inFlight[k]].stage \in Air

EntryOK(k) ==
    entries[k] # Absent =>
        /\ entries[k].value.about = k
        /\ entries[k].value.landEpoch = epoch[k]
        /\ entries[k].expiresAt <= entries[k].value.readAt + Latency + TtlMs

CallOK(c) ==
    call[c] # Absent =>
        /\ call[c].askedAt <= now
        /\ call[c].from # NoFlight => flight[call[c].from].key = call[c].about
        /\ call[c].answer = Absent => /\ call[c].from # NoFlight
                                      /\ flight[call[c].from].stage \in Air
        /\ call[c].answer \notin {Absent, Failed} =>
              /\ call[c].answer.about = call[c].about
              /\ call[c].askedAt <= call[c].answer.readAt + TtlMs + Latency
              /\ call[c].from = NoFlight => call[c].answer.landEpoch = call[c].askedEpoch

IInv ==
    /\ TypeOK
    /\ \A f \in DOMAIN flight : FlightOK(f)
    /\ \A k \in Key : KeyOK(k)
    /\ \A k \in Key : EntryOK(k)
    /\ \A c \in Caller : CallOK(c)

\* What the proofs use of the types.
LEMMA Types ==
  ASSUME IInv
  PROVE  /\ now \in 0 .. MaxNow /\ now \in Nat
         /\ entries \in [Key -> {Absent} \cup Entry]
         /\ inFlight \in [Key -> 0 .. Len(flight)]
         /\ flight \in Seq(Flight)
         /\ Len(flight) \in Nat /\ DOMAIN flight = 1 .. Len(flight)
         /\ \A f \in DOMAIN flight : flight[f] \in Flight /\ f # NoFlight
         /\ epoch \in [Key -> Nat]
         /\ call \in [Caller -> {Absent} \cup Call]
         /\ TtlMs \in Nat /\ Latency \in Nat /\ MaxNow \in Nat
<1>1. TypeOK
  BY DEF IInv
<1>2. {"sent", "read", "landed", "failed", "done", "dropped"} = Air \cup {"done", "dropped"}
  BY DEF Air
<1>3. flight \in Seq(Flight)
  BY <1>1, <1>2 DEF TypeOK, Flight
<1>4. Len(flight) \in Nat /\ DOMAIN flight = 1 .. Len(flight)
  BY <1>3
<1>5. \A f \in DOMAIN flight : flight[f] \in Flight /\ f # NoFlight
  BY <1>3, <1>4 DEF NoFlight
<1>6. /\ now \in 0 .. MaxNow
      /\ entries \in [Key -> {Absent} \cup Entry]
      /\ inFlight \in [Key -> 0 .. Len(flight)]
      /\ epoch \in [Key -> Nat]
      /\ call \in [Caller -> {Absent} \cup Call]
  BY <1>1 DEF TypeOK, Entry, Call
<1> QED BY <1>3, <1>4, <1>5, <1>6, CacheOptions

\* The other way round, for the state after a step.
LEMMA TypesSuffice ==
  ASSUME now' \in 0 .. MaxNow,
         entries' \in [Key -> {Absent} \cup Entry],
         inFlight' \in [Key -> 0 .. Len(flight')],
         flight' \in Seq(Flight),
         epoch' \in [Key -> Nat],
         call' \in [Caller -> {Absent} \cup Call']
  PROVE  TypeOK'
<1>1. {"sent", "read", "landed", "failed", "done", "dropped"} = Air \cup {"done", "dropped"}
  BY DEF Air
<1>2. flight' \in Seq([key : Key, value : Value,
                       stage : {"sent", "read", "landed", "failed", "done", "dropped"}])
  BY <1>1 DEF Flight
<1> QED BY <1>2 DEF TypeOK, Entry, Call

LEMMA InitIInv == Init => IInv
<1> SUFFICES ASSUME Init PROVE IInv
  OBVIOUS
<1>1. flight = <<>> /\ Len(flight) = 0 /\ DOMAIN flight = {}
  BY EmptySeq DEF Init
<1>2. TypeOK
  BY <1>1, CacheOptions, EmptySeq DEF Init, TypeOK, NoFlight
<1> QED BY <1>1, <1>2 DEF Init, IInv, KeyOK, EntryOK, CallOK, FlightOK

-----------------------------------------------------------------------------
(* A call that is entered: the three outcomes of resolve.                  *)

LEMMA HitIInv ==
  ASSUME IInv, NEW c \in Caller, NEW k \in Key, Hit(c, k, k)
  PROVE  IInv'
<1> DEFINE new == [about |-> k, askedAt |-> now, askedEpoch |-> epoch[k],
                   from |-> NoFlight, answer |-> entries[k].value]
<1>1. /\ call' = [call EXCEPT ![c] = new]
      /\ UNCHANGED <<now, entries, inFlight, flight, epoch>>
      /\ entries[k] # Absent /\ entries[k].expiresAt > now
  BY DEF Hit, Asking, IsLive
<1>2. entries[k] \in Entry /\ entries[k].value \in Value /\ entries[k].expiresAt \in Nat
      /\ entries[k].value.readAt \in 0 .. MaxNow /\ EntryOK(k)
  BY <1>1, Types DEF Entry, Value, IInv
<1>3. new \in Call
  BY <1>2, Types DEF Call, NoFlight
<1>4. TypeOK'
  <2>1. Call' = Call
    BY <1>1 DEF Call
  <2>2. call' \in [Caller -> {Absent} \cup Call]
    BY <1>1, <1>3, Types
  <2> QED BY <1>1, <2>1, <2>2, Types, TypesSuffice
<1>5. \A d \in Caller : CallOK(d)'
  <2>1. CASE entries[k].value # Absent
    <3>1. now <= entries[k].value.readAt + TtlMs + Latency
      BY <1>1, <1>2, Types DEF EntryOK
    <3>2. new.askedAt <= now
      BY Types
    <3>3. call'[c] = new
      BY <1>1, Types
    <3>4. CallOK(c)'
      BY <1>1, <1>2, <2>1, <3>1, <3>2, <3>3 DEF CallOK, EntryOK
    <3>5. ASSUME NEW d \in Caller, d # c PROVE CallOK(d)'
      BY <1>1, <3>5, Types DEF IInv, CallOK
    <3> QED BY <3>4, <3>5
  <2> QED BY <1>2, <2>1, Markers
<1>6. /\ \A f \in DOMAIN flight' : FlightOK(f)'
      /\ \A h \in Key : KeyOK(h)' /\ EntryOK(h)'
  BY <1>1 DEF IInv, FlightOK, KeyOK, EntryOK
<1> QED BY <1>4, <1>5, <1>6 DEF IInv

LEMMA ShareIInv ==
  ASSUME IInv, NEW c \in Caller, NEW k \in Key, Share(c, k, k)
  PROVE  IInv'
<1> DEFINE new == [about |-> k, askedAt |-> now, askedEpoch |-> epoch[k],
                   from |-> inFlight[k], answer |-> Absent]
<1>1. /\ call' = [call EXCEPT ![c] = new]
      /\ UNCHANGED <<now, entries, inFlight, flight, epoch>>
      /\ inFlight[k] # NoFlight
  BY DEF Share, Asking
<1>2. new \in Call
  BY Types DEF Call
<1>3. TypeOK'
  <2>1. Call' = Call
    BY <1>1 DEF Call
  <2>2. call' \in [Caller -> {Absent} \cup Call]
    BY <1>1, <1>2, Types
  <2> QED BY <1>1, <2>1, <2>2, Types, TypesSuffice
<1>4. \A d \in Caller : CallOK(d)'
  <2>1. CallOK(c)'
    <3>1. KeyOK(k) /\ call'[c] = new /\ now <= now
      BY <1>1, Types DEF IInv
    <3> QED BY <1>1, <3>1 DEF CallOK, KeyOK
  <2>2. ASSUME NEW d \in Caller, d # c PROVE CallOK(d)'
    BY <1>1, <2>2, Types DEF IInv, CallOK
  <2> QED BY <2>1, <2>2
<1>5. /\ \A f \in DOMAIN flight' : FlightOK(f)'
      /\ \A h \in Key : KeyOK(h)' /\ EntryOK(h)'
  BY <1>1 DEF IInv, FlightOK, KeyOK, EntryOK
<1> QED BY <1>3, <1>4, <1>5 DEF IInv

\* The new flight is registered under its key before anyone else can ask.
LEMMA StartIInv ==
  ASSUME IInv, NEW c \in Caller, NEW k \in Key, Start(c, k, k)
  PROVE  IInv'
<1> DEFINE id == Len(flight) + 1
           fl == NewFlight(k, k)
           new == [about |-> k, askedAt |-> now, askedEpoch |-> epoch[k],
                   from |-> id, answer |-> Absent]
<1>1. /\ flight' = Append(flight, fl)
      /\ inFlight' = [inFlight EXCEPT ![k] = id]
      /\ call' = [call EXCEPT ![c] = new]
      /\ UNCHANGED <<now, entries, epoch>>
      /\ inFlight[k] = NoFlight
  BY DEF Start, Asking
<1>2. /\ fl \in Flight /\ fl.key = k /\ fl.stage = "sent" /\ fl.value.about = k
      /\ id \in Nat /\ id # NoFlight
  <2>1. 0 \in 0 .. MaxNow
    BY Types
  <2> QED BY <2>1, Types DEF NewFlight, Flight, Value, Air, NoFlight
<1> HIDE DEF fl
<1>3. /\ flight' \in Seq(Flight) /\ Len(flight') = id
      /\ DOMAIN flight' = DOMAIN flight \cup {id}
      /\ flight'[id] = fl
      /\ \A g \in DOMAIN flight : flight'[g] = flight[g] /\ g # id
  <2>1. /\ flight' \in Seq(Flight) /\ Len(flight') = id /\ flight'[id] = fl
        /\ \A g \in 1 .. Len(flight) : flight'[g] = flight[g]
    BY <1>1, <1>2, Types, AppendProperties
  <2>2. DOMAIN flight' = 1 .. id
    BY <2>1
  <2> QED BY <2>1, <2>2, Types
<1>4. TypeOK'
  <2>1. Call \subseteq Call'
    <3>1. 0 .. Len(flight) \subseteq 0 .. Len(flight')
      BY <1>3, Types
    <3> QED BY <3>1 DEF Call
  <2>2. new \in Call'
    BY <1>1, <1>2, <1>3, Types DEF Call
  <2>3. call' \in [Caller -> {Absent} \cup Call']
    BY <1>1, <2>1, <2>2, Types
  <2>4. inFlight' \in [Key -> 0 .. Len(flight')]
    <3>1. id \in 0 .. Len(flight') /\ 0 .. Len(flight) \subseteq 0 .. Len(flight')
      BY <1>2, <1>3, Types
    <3> QED BY <1>1, <3>1, Types
  <2> QED BY <1>1, <1>3, <2>3, <2>4, Types, TypesSuffice
<1>5. ASSUME NEW g \in DOMAIN flight' PROVE FlightOK(g)'
  <2>1. CASE g = id
    BY <1>1, <1>2, <1>3, <2>1, Types DEF FlightOK
  <2>2. CASE g \in DOMAIN flight
    <3>1. FlightOK(g) /\ flight[g] \in Flight /\ g # NoFlight /\ flight'[g] = flight[g]
      BY <1>3, <2>2, Types DEF IInv
    <3>2. flight[g].stage \in Air => flight[g].key # k
      BY <1>1, <3>1 DEF FlightOK
    <3>3. flight[g].stage \in Air => inFlight'[flight[g].key] = g
      BY <1>1, <3>1, <3>2, Types DEF FlightOK, Flight
    <3> QED BY <1>1, <3>1, <3>3 DEF FlightOK
  <2> QED BY <1>3, <2>1, <2>2
<1>6. ASSUME NEW h \in Key PROVE KeyOK(h)' /\ EntryOK(h)'
  <2>1. EntryOK(h)'
    BY <1>1 DEF IInv, EntryOK
  <2>2. CASE h = k
    <3>1. inFlight'[h] = id
      BY <1>1, <2>2, Types
    <3> QED BY <1>2, <1>3, <2>1, <2>2, <3>1 DEF KeyOK, Air
  <2>3. CASE h # k
    <3>1. inFlight'[h] = inFlight[h] /\ KeyOK(h)
      BY <1>1, <2>3, Types DEF IInv
    <3>2. inFlight[h] # NoFlight => inFlight[h] \in DOMAIN flight
      BY Types DEF NoFlight
    <3> QED BY <1>3, <2>1, <3>1, <3>2 DEF KeyOK
  <2> QED BY <2>2, <2>3
<1>7. ASSUME NEW d \in Caller PROVE CallOK(d)'
  <2>1. CASE d = c
    <3>1. call'[d] = new /\ now <= now
      BY <1>1, <2>1, Types
    <3> QED BY <1>1, <1>2, <1>3, <3>1 DEF CallOK, Air
  <2>2. CASE d # c
    <3>1. call'[d] = call[d] /\ CallOK(d)
      BY <1>1, <2>2, Types DEF IInv
    <3>2. call[d] # Absent /\ call[d].from # NoFlight
            => call[d].from \in DOMAIN flight
      <4> SUFFICES ASSUME call[d] # Absent, call[d].from # NoFlight
                   PROVE  call[d].from \in DOMAIN flight
        OBVIOUS
      <4>1. call[d].from \in 0 .. Len(flight)
        BY Types DEF Call
      <4> QED BY <4>1, Types DEF NoFlight
    <3> QED BY <1>1, <1>3, <3>1, <3>2 DEF CallOK
  <2> QED BY <2>1, <2>2
<1> QED BY <1>4, <1>5, <1>6, <1>7 DEF IInv

-----------------------------------------------------------------------------
(* A flight that moves on.                                                 *)

\* Updating a field of a flight, and of a flight in the sequence.
LEMMA WithStage ==
  ASSUME NEW r \in Flight, NEW s
  PROVE  [r EXCEPT !.stage = s] = [key |-> r.key, value |-> r.value, stage |-> s]
BY DEF Flight

LEMMA WithStageAndValue ==
  ASSUME NEW r \in Flight, NEW s, NEW v
  PROVE  [r EXCEPT !.stage = s, !.value = v] = [key |-> r.key, value |-> v, stage |-> s]
<1> DEFINE t == [key |-> r.key, value |-> r.value, stage |-> s]
<1>1. [r EXCEPT !.stage = s, !.value = v] = [[r EXCEPT !.stage = s] EXCEPT !.value = v]
  OBVIOUS
<1>2. [r EXCEPT !.stage = s] = t
  BY WithStage
<1>3. [t EXCEPT !.value = v] = [key |-> r.key, value |-> v, stage |-> s]
  OBVIOUS
<1> QED BY <1>1, <1>2, <1>3

LEMMA WithSnapshot ==
  ASSUME NEW r \in Value, NEW t, NEW e
  PROVE  [r EXCEPT !.readAt = t, !.readEpoch = e]
           = [about |-> r.about, readAt |-> t, readEpoch |-> e, landEpoch |-> r.landEpoch]
<1> DEFINE q == [about |-> r.about, readAt |-> t, readEpoch |-> r.readEpoch,
                 landEpoch |-> r.landEpoch]
<1>1. [r EXCEPT !.readAt = t, !.readEpoch = e] = [[r EXCEPT !.readAt = t] EXCEPT !.readEpoch = e]
  OBVIOUS
<1>2. [r EXCEPT !.readAt = t] = q
  BY DEF Value
<1>3. [q EXCEPT !.readEpoch = e]
        = [about |-> r.about, readAt |-> t, readEpoch |-> e, landEpoch |-> r.landEpoch]
  OBVIOUS
<1> QED BY <1>1, <1>2, <1>3

LEMMA WithLanding ==
  ASSUME NEW r \in Value, NEW e
  PROVE  [r EXCEPT !.landEpoch = e]
           = [about |-> r.about, readAt |-> r.readAt, readEpoch |-> r.readEpoch, landEpoch |-> e]
BY DEF Value

LEMMA NestedUpdates ==
  ASSUME NEW s, NEW f \in DOMAIN s, NEW a, NEW v
  PROVE  /\ [s EXCEPT ![f].stage = a] = [s EXCEPT ![f] = [s[f] EXCEPT !.stage = a]]
         /\ [s EXCEPT ![f].stage = a, ![f].value = v]
              = [s EXCEPT ![f] = [s[f] EXCEPT !.stage = a, !.value = v]]
OBVIOUS

\* A call shares a flight that exists.
LEMMA SharedFlightExists ==
  ASSUME IInv, NEW c \in Caller, call[c] # Absent
  PROVE  /\ call[c] \in Call
         /\ call[c].from # NoFlight => call[c].from \in DOMAIN flight
<1>1. call[c] \in Call
  BY Types
<1>2. call[c].from \in 0 .. Len(flight)
  BY <1>1 DEF Call
<1> QED BY <1>1, <1>2, Types DEF NoFlight

\* Only flight f changes, and only its stage and what it read.
LEMMA FlightMoves ==
  ASSUME IInv, NEW f \in DOMAIN flight, NEW fl \in Flight,
         flight' = [flight EXCEPT ![f] = fl]
  PROVE  /\ flight' \in Seq(Flight) /\ Len(flight') = Len(flight)
         /\ DOMAIN flight' = DOMAIN flight
         /\ \A g \in DOMAIN flight : flight'[g] = IF g = f THEN fl ELSE flight[g]
         /\ Call' = Call
<1>1. /\ flight' \in Seq(Flight) /\ Len(flight') = Len(flight)
      /\ \A g \in 1 .. Len(flight) : flight'[g] = IF g = f THEN fl ELSE flight[g]
  BY Types, ExceptSeq
<1>2. DOMAIN flight' = 1 .. Len(flight)
  BY <1>1
<1> QED BY <1>1, <1>2, Types DEF Call

\* A flight that stays in the air under its key disturbs neither the keys nor
\* the callers who wait for it.
LEMMA StaysInTheAir ==
  ASSUME IInv, NEW f \in DOMAIN flight, NEW fl \in Flight,
         flight' = [flight EXCEPT ![f] = fl],
         flight[f].stage \in Air, fl.stage \in Air, fl.key = flight[f].key,
         fl.value.about = flight[f].value.about,
         fl.stage \in {"read", "landed"} => now <= fl.value.readAt + Latency,
         UNCHANGED <<now, inFlight, epoch, call>>,
         entries' \in [Key -> {Absent} \cup Entry],
         \A k \in Key : EntryOK(k)'
  PROVE  IInv'
<1>1. /\ flight' \in Seq(Flight) /\ Len(flight') = Len(flight)
      /\ DOMAIN flight' = DOMAIN flight
      /\ \A g \in DOMAIN flight : flight'[g] = IF g = f THEN fl ELSE flight[g]
      /\ Call' = Call
  BY FlightMoves
<1>2. TypeOK'
  BY <1>1, Types, TypesSuffice
<1>3. ASSUME NEW g \in DOMAIN flight' PROVE FlightOK(g)'
  <2>1. FlightOK(g)
    BY <1>1, <1>3 DEF IInv
  <2>2. CASE g = f
    BY <1>1, <2>1, <2>2 DEF FlightOK
  <2>3. CASE g # f
    BY <1>1, <2>1, <2>3 DEF FlightOK
  <2> QED BY <2>2, <2>3
<1>4. ASSUME NEW k \in Key PROVE KeyOK(k)'
  <2>1. inFlight[k] # NoFlight => inFlight[k] \in DOMAIN flight
    BY Types DEF NoFlight
  <2>2. KeyOK(k)
    BY DEF IInv
  <2> QED BY <1>1, <2>1, <2>2 DEF KeyOK
<1>5. ASSUME NEW c \in Caller PROVE CallOK(c)'
  <2>1. CallOK(c)
    BY DEF IInv
  <2>2. call[c] # Absent /\ call[c].from # NoFlight => call[c].from \in DOMAIN flight
    BY SharedFlightExists
  <2> QED BY <1>1, <2>1, <2>2 DEF CallOK
<1> QED BY <1>2, <1>3, <1>4, <1>5 DEF IInv

LEMMA ReadIInv ==
  ASSUME IInv, NEW f \in DOMAIN flight, Read(f)
  PROVE  IInv'
<1> DEFINE was == flight[f].value
           value == [about |-> was.about, readAt |-> now,
                     readEpoch |-> epoch[was.about], landEpoch |-> was.landEpoch]
           fl == [key |-> flight[f].key, value |-> value, stage |-> "read"]
<1>1. flight[f] \in Flight /\ flight[f].stage = "sent"
  BY Types DEF Read
<1>2. was \in Value /\ was.about \in Key /\ flight[f].key \in Key
  BY <1>1 DEF Flight, Value
<1>3. value \in Value /\ fl \in Flight
  BY <1>2, Types DEF Value, Flight, Air
<1>4. flight' = [flight EXCEPT ![f] = fl]
  <2>1. flight' = [flight EXCEPT ![f].stage = "read", ![f].value.readAt = now,
                                 ![f].value.readEpoch = epoch[was.about]]
    BY DEF Read
  <2>2. value = [was EXCEPT !.readAt = now, !.readEpoch = epoch[was.about]]
    BY <1>2, WithSnapshot
  <2>3. fl = [flight[f] EXCEPT !.stage = "read", !.value = value]
    BY <1>1, WithStageAndValue
  <2>4. flight' = [flight EXCEPT ![f] = [flight[f] EXCEPT !.stage = "read",
                      !.value = [was EXCEPT !.readAt = now, !.readEpoch = epoch[was.about]]]]
    BY <2>1
  <2> HIDE DEF value, fl
  <2> QED BY <2>2, <2>3, <2>4
<1>5. /\ UNCHANGED <<now, entries, inFlight, epoch, call>>
      /\ now <= value.readAt + Latency
      /\ flight[f].stage \in Air /\ fl.stage \in Air
  BY <1>1, Types DEF Read, Air
<1>6. \A k \in Key : EntryOK(k)'
  BY <1>5 DEF IInv, EntryOK
<1>7. entries' \in [Key -> {Absent} \cup Entry]
  BY <1>5, Types
<1> QED BY <1>3, <1>4, <1>5, <1>6, <1>7, StaysInTheAir

LEMMA LandIInv ==
  ASSUME IInv, NEW f \in DOMAIN flight, Land(f)
  PROVE  IInv'
<1> DEFINE k == flight[f].key
           was == flight[f].value
           value == [about |-> was.about, readAt |-> was.readAt,
                     readEpoch |-> was.readEpoch, landEpoch |-> epoch[k]]
           fl == [key |-> k, value |-> value, stage |-> "landed"]
           entry == [value |-> value, expiresAt |-> now + TtlMs]
<1>1. flight[f] \in Flight /\ flight[f].stage = "read"
  BY Types DEF Land
<1>2. was \in Value /\ k \in Key /\ was.readAt \in Nat
  BY <1>1, Types DEF Flight, Value
<1>3. value \in Value /\ fl \in Flight /\ entry \in Entry
  <2>1. value \in Value
    BY <1>2, Types DEF Value
  <2>2. now + TtlMs \in Nat
    BY Types
  <2> HIDE DEF value
  <2> QED BY <1>2, <2>1, <2>2 DEF Flight, Air, Entry
<1>4. /\ value = [was EXCEPT !.landEpoch = epoch[k]]
      /\ flight' = [flight EXCEPT ![f] = fl]
  <2>1. value = [was EXCEPT !.landEpoch = epoch[k]]
    BY <1>2, WithLanding
  <2>2. flight' = [flight EXCEPT ![f].stage = "landed", ![f].value = value]
    BY <2>1 DEF Land
  <2>3. fl = [flight[f] EXCEPT !.stage = "landed", !.value = value]
    BY <1>1, WithStageAndValue
  <2> QED BY <2>1, <2>2, <2>3, NestedUpdates
<1>5. entries' = IF TtlMs > 0 THEN [entries EXCEPT ![k] = entry] ELSE entries
  BY <1>4 DEF Land
<1>6. /\ UNCHANGED <<now, inFlight, epoch, call>>
      /\ flight[f].stage \in Air /\ fl.stage \in Air
      /\ FlightOK(f)
  BY <1>1 DEF Land, Air, IInv
<1>7. entries' \in [Key -> {Absent} \cup Entry]
  BY <1>3, <1>5, Types
<1>8. value.about = k /\ now <= value.readAt + Latency
  BY <1>1, <1>6 DEF FlightOK
<1>9. ASSUME NEW h \in Key PROVE EntryOK(h)'
  <2>1. CASE TtlMs > 0 /\ h = k
    <3>1. entries'[h] = entry
      BY <1>2, <1>5, <2>1, Types
    <3>2. now + TtlMs <= value.readAt + Latency + TtlMs
      BY <1>2, <1>8, Types
    <3> QED BY <1>6, <1>8, <2>1, <3>1, <3>2 DEF EntryOK
  <2>2. CASE ~ (TtlMs > 0 /\ h = k)
    <3>1. entries'[h] = entries[h] /\ EntryOK(h)
      BY <1>5, <2>2, Types DEF IInv
    <3> QED BY <1>6, <3>1 DEF EntryOK
  <2> QED BY <2>1, <2>2
<1> QED BY <1>3, <1>4, <1>6, <1>7, <1>8, <1>9, StaysInTheAir

LEMMA FailIInv ==
  ASSUME IInv, NEW f \in DOMAIN flight, Fail(f)
  PROVE  IInv'
<1> DEFINE fl == [key |-> flight[f].key, value |-> flight[f].value, stage |-> "failed"]
<1>1. flight[f] \in Flight /\ flight[f].stage \in {"sent", "read"}
  BY Types DEF Fail
<1>2. fl \in Flight
  BY <1>1 DEF Flight, Air
<1>3. flight' = [flight EXCEPT ![f] = fl]
  <2>1. fl = [flight[f] EXCEPT !.stage = "failed"]
    BY <1>1, WithStage
  <2> QED BY <2>1, NestedUpdates DEF Fail
<1>4. /\ UNCHANGED <<now, entries, inFlight, epoch, call>>
      /\ flight[f].stage \in Air /\ fl.stage \in Air
  BY <1>1 DEF Fail, Air
<1>5. \A k \in Key : EntryOK(k)'
  BY <1>4 DEF IInv, EntryOK
<1>6. entries' \in [Key -> {Absent} \cup Entry]
  BY <1>4, Types
<1> QED BY <1>2, <1>3, <1>4, <1>5, <1>6, StaysInTheAir

\* The registration goes with the flight: finally deletes by key, and by
\* OneFlightPerKey what is registered there is this flight.  Everyone who
\* waits for it is answered.
LEMMA SettleIInv ==
  ASSUME IInv, NEW f \in DOMAIN flight, Settle(f)
  PROVE  IInv'
<1> DEFINE k == flight[f].key
           end == IF flight[f].stage = "landed" THEN "done" ELSE "dropped"
           fl == [key |-> k, value |-> flight[f].value, stage |-> end]
           outcome == IF flight[f].stage = "landed" THEN flight[f].value ELSE Failed
           Waits(c) == call[c] # Absent /\ call[c].from = f /\ call[c].answer = Absent
<1>1. /\ flight[f] \in Flight /\ f # NoFlight
      /\ flight[f].stage \in {"landed", "failed"}
      /\ FlightOK(f)
  BY Types DEF Settle, IInv
<1>2. /\ k \in Key /\ fl \in Flight /\ end \notin Air
      /\ outcome \in Value \cup {Failed} /\ outcome # Absent
      /\ inFlight[k] = f
  <2>1. k \in Key /\ flight[f].value \in Value
    BY <1>1 DEF Flight
  <2>2. end \in {"done", "dropped"} /\ end \notin Air
    BY DEF Air
  <2>3. fl \in Flight
    BY <2>1, <2>2 DEF Flight
  <2>4. inFlight[k] = f
    BY <1>1 DEF FlightOK, Air
  <2> QED BY <2>1, <2>2, <2>3, <2>4, Markers
<1>3. flight' = [flight EXCEPT ![f] = fl]
  <2>1. flight' = [flight EXCEPT ![f].stage = end]
    BY DEF Settle
  <2>2. fl = [flight[f] EXCEPT !.stage = end]
    BY <1>1, WithStage
  <2> HIDE DEF end, fl
  <2> QED BY <2>1, <2>2, NestedUpdates
<1>4. /\ flight' \in Seq(Flight) /\ Len(flight') = Len(flight)
      /\ DOMAIN flight' = DOMAIN flight
      /\ \A g \in DOMAIN flight : flight'[g] = IF g = f THEN fl ELSE flight[g]
      /\ Call' = Call
  <2> HIDE DEF fl
  <2> QED BY <1>2, <1>3, FlightMoves
<1>5. /\ inFlight' = [inFlight EXCEPT ![k] = NoFlight]
      /\ UNCHANGED <<now, entries, epoch>>
  BY DEF Settle
<1>6. /\ DOMAIN call' = Caller
      /\ call' = [c \in Caller |-> call'[c]]
      /\ \A c \in Caller :
            call'[c] = IF Waits(c) THEN [call[c] EXCEPT !.answer = outcome] ELSE call[c]
  BY DEF Settle, Answered
<1> HIDE DEF outcome
<1>7. ASSUME NEW c \in Caller, Waits(c)
      PROVE  call'[c] = [about |-> call[c].about, askedAt |-> call[c].askedAt,
                         askedEpoch |-> call[c].askedEpoch, from |-> f, answer |-> outcome]
  <2>1. call[c] \in Call
    BY <1>7, SharedFlightExists
  <2>2. call'[c] = [call[c] EXCEPT !.answer = outcome]
    BY <1>6, <1>7
  <2>3. ASSUME NEW r \in Call
        PROVE  [r EXCEPT !.answer = outcome]
                 = [about |-> r.about, askedAt |-> r.askedAt, askedEpoch |-> r.askedEpoch,
                    from |-> r.from, answer |-> outcome]
    BY DEF Call
  <2> QED BY <1>7, <2>1, <2>2, <2>3
<1>8. call' \in [Caller -> {Absent} \cup Call]
  <2> SUFFICES ASSUME NEW c \in Caller PROVE call'[c] \in {Absent} \cup Call
    BY <1>6
  <2>1. CASE Waits(c)
    <3>1. call[c] \in Call
      BY <2>1, SharedFlightExists
    <3>2. call[c].from = f /\ f \in 0 .. Len(flight)
      BY <2>1, <3>1 DEF Call
    <3>3. /\ call[c].about \in Key /\ call[c].askedAt \in 0 .. MaxNow
          /\ call[c].askedEpoch \in Nat
      BY <3>1 DEF Call
    <3>4. outcome \in Value \cup {Absent, Failed}
      BY <1>2
    <3>5. [about |-> call[c].about, askedAt |-> call[c].askedAt,
           askedEpoch |-> call[c].askedEpoch, from |-> f, answer |-> outcome] \in Call
      BY <3>2, <3>3, <3>4 DEF Call
    <3> QED BY <1>7, <2>1, <3>5
  <2>2. CASE ~ Waits(c)
    BY <1>6, <2>2, Types
  <2> QED BY <2>1, <2>2
<1>9. TypeOK'
  <2>1. inFlight' \in [Key -> 0 .. Len(flight')]
    <3>1. NoFlight \in 0 .. Len(flight)
      BY Types DEF NoFlight
    <3>2. inFlight' \in [Key -> 0 .. Len(flight)]
      BY <1>5, <3>1, Types
    <3> QED BY <1>4, <3>2
  <2> QED BY <1>4, <1>5, <1>8, <2>1, Types, TypesSuffice
<1>10. ASSUME NEW g \in DOMAIN flight' PROVE FlightOK(g)'
  <2>1. FlightOK(g) /\ flight[g] \in Flight
    BY <1>4, <1>10, Types DEF IInv
  <2>2. CASE g = f
    <3>1. flight'[g] = fl
      BY <1>4, <2>2
    <3>2. fl.stage \notin {"read", "landed"}
      BY <1>2 DEF Air
    <3> QED BY <1>1, <1>2, <3>1, <3>2 DEF FlightOK
  <2>3. CASE g # f
    <3>1. flight'[g] = flight[g]
      BY <1>4, <1>10, <2>3
    <3>2. flight[g].stage \in Air => flight[g].key # k
      BY <1>2, <2>1, <2>3 DEF FlightOK
    <3>3. flight[g].stage \in Air => inFlight'[flight[g].key] = g
      BY <1>5, <2>1, <3>2, Types DEF FlightOK, Flight
    <3> QED BY <1>5, <2>1, <3>1, <3>3 DEF FlightOK
  <2> QED BY <2>2, <2>3
<1>11. ASSUME NEW h \in Key PROVE KeyOK(h)' /\ EntryOK(h)'
  <2>1. EntryOK(h)'
    BY <1>5 DEF IInv, EntryOK
  <2>2. CASE h = k
    <3>1. inFlight'[h] = NoFlight
      BY <1>5, <2>2, Types
    <3> QED BY <2>1, <3>1 DEF KeyOK, NoFlight
  <2>3. CASE h # k
    <3>1. inFlight'[h] = inFlight[h] /\ KeyOK(h)
      BY <1>5, <2>3, Types DEF IInv
    <3>2. inFlight[h] # NoFlight => inFlight[h] \in DOMAIN flight /\ inFlight[h] # f
      BY <2>3, <3>1, Types DEF NoFlight, KeyOK
    <3> QED BY <1>4, <2>1, <3>1, <3>2 DEF KeyOK
  <2> QED BY <2>2, <2>3
<1>12. ASSUME NEW c \in Caller PROVE CallOK(c)'
  <2>1. CallOK(c)
    BY DEF IInv
  <2>2. CASE Waits(c)
    <3>1. /\ call[c] \in Call /\ call[c].askedAt \in Nat
          /\ call[c].askedAt <= now /\ call[c].about = k
      BY <1>1, <2>1, <2>2, SharedFlightExists DEF CallOK, Call
    <3>2. /\ flight'[f].key = k /\ f # NoFlight /\ now' = now
          /\ call'[c].about = k /\ call'[c].askedAt = call[c].askedAt
          /\ call'[c].from = f /\ call'[c].answer = outcome
      <4>1. flight'[f].key = k /\ f # NoFlight /\ now' = now
        BY <1>1, <1>4, <1>5
      <4>2. call'[c] = [about |-> call[c].about, askedAt |-> call[c].askedAt,
                        askedEpoch |-> call[c].askedEpoch, from |-> f, answer |-> outcome]
        BY <1>7, <2>2
      <4>3. /\ call'[c].about = k /\ call'[c].askedAt = call[c].askedAt
            /\ call'[c].from = f /\ call'[c].answer = outcome
        BY <3>1, <4>2
      <4> QED BY <4>1, <4>3
    <3> HIDE DEF Waits, fl, end, k
    <3>3. CASE outcome = Failed
      BY <1>2, <3>1, <3>2, <3>3 DEF CallOK
    <3>4. CASE outcome # Failed
      <4>1. outcome = flight[f].value /\ flight[f].stage = "landed"
        BY <3>4 DEF outcome
      <4>2. outcome.about = k /\ now <= outcome.readAt + Latency
        BY <1>1, <4>1 DEF FlightOK, k
      <4>3. outcome.readAt \in Nat
        BY <1>2, <3>4, Types DEF Value
      <4>4. call[c].askedAt <= outcome.readAt + TtlMs + Latency
        BY <3>1, <4>2, <4>3, Types
      <4> QED BY <1>2, <3>1, <3>2, <4>2, <4>4 DEF CallOK
    <3> QED BY <3>3, <3>4
  <2>3. CASE ~ Waits(c)
    <3>1. call'[c] = call[c]
      BY <1>6, <2>3
    <3>2. call[c] # Absent /\ call[c].from # NoFlight => call[c].from \in DOMAIN flight
      BY SharedFlightExists
    <3> QED BY <1>4, <1>5, <2>1, <2>3, <3>1, <3>2 DEF CallOK
  <2> QED BY <2>2, <2>3
<1> QED BY <1>9, <1>10, <1>11, <1>12 DEF IInv

-----------------------------------------------------------------------------
(* Invalidation and time.                                                  *)

LEMMA InvalidateIInv ==
  ASSUME IInv, NEW k \in Key, Invalidate(k)
  PROVE  IInv'
<1>1. /\ epoch' = [epoch EXCEPT ![k] = @ + 1]
      /\ entries' = [entries EXCEPT ![k] = Absent]
      /\ UNCHANGED <<now, inFlight, flight, call>>
  BY DEF Invalidate
<1>2. TypeOK'
  <2>1. Call' = Call
    BY <1>1 DEF Call
  <2> QED BY <1>1, <2>1, Types, TypesSuffice
<1>3. ASSUME NEW h \in Key PROVE EntryOK(h)'
  <2>1. EntryOK(h)
    BY DEF IInv
  <2>2. CASE h = k
    BY <1>1, <2>2, Types DEF EntryOK
  <2>3. CASE h # k
    BY <1>1, <2>1, <2>3, Types DEF EntryOK
  <2> QED BY <2>2, <2>3
<1>4. /\ \A f \in DOMAIN flight' : FlightOK(f)'
      /\ \A h \in Key : KeyOK(h)'
      /\ \A c \in Caller : CallOK(c)'
  BY <1>1 DEF IInv, FlightOK, KeyOK, CallOK
<1> QED BY <1>2, <1>3, <1>4 DEF IInv

LEMMA TickIInv ==
  ASSUME IInv, Tick
  PROVE  IInv'
<1>1. /\ now < MaxNow /\ now' = now + 1
      /\ UNCHANGED <<entries, inFlight, flight, epoch, call>>
      /\ \A f \in DOMAIN flight :
            flight[f].stage \in {"read", "landed"} => now < flight[f].value.readAt + Latency
  BY DEF Tick
<1>2. TypeOK'
  <2>1. Call' = Call
    BY <1>1 DEF Call
  <2>2. now' \in 0 .. MaxNow
    BY <1>1, Types
  <2> QED BY <1>1, <2>1, <2>2, Types, TypesSuffice
<1>3. ASSUME NEW f \in DOMAIN flight' PROVE FlightOK(f)'
  <2>1. FlightOK(f) /\ flight[f] \in Flight
    BY <1>1, <1>3, Types DEF IInv
  <2>2. flight[f].value.readAt \in Nat
    BY <2>1, Types DEF Flight, Value
  <2>3. flight[f].stage \in {"read", "landed"} => now + 1 <= flight[f].value.readAt + Latency
    BY <1>1, <1>3, <2>2, Types
  <2> QED BY <1>1, <2>1, <2>3 DEF FlightOK
<1>4. ASSUME NEW c \in Caller PROVE CallOK(c)'
  <2>1. CallOK(c)
    BY DEF IInv
  <2>2. call[c] # Absent => call[c].askedAt \in Nat
    BY SharedFlightExists DEF Call
  <2>3. call[c] # Absent => call[c].askedAt <= now + 1
    BY <2>1, <2>2, Types DEF CallOK
  <2> QED BY <1>1, <2>1, <2>3 DEF CallOK
<1>5. \A h \in Key : KeyOK(h)' /\ EntryOK(h)'
  BY <1>1 DEF IInv, KeyOK, EntryOK
<1> QED BY <1>2, <1>3, <1>4, <1>5 DEF IInv

-----------------------------------------------------------------------------
LEMMA ResolveIInv ==
  ASSUME IInv, NEW c \in Caller, NEW host \in Host, NEW kind \in Kind, Resolve(c, host, kind)
  PROVE  IInv'
<1> DEFINE k == <<host, kind>>
<1>1. k \in Key
  BY DEF Key
<1>2. Hit(c, k, k) \/ Share(c, k, k) \/ Start(c, k, k)
  BY DEF Resolve, CacheKeyFor
<1> HIDE DEF k
<1> QED BY <1>1, <1>2, HitIInv, ShareIInv, StartIInv

LEMMA StepIInv == IInv /\ [Next]_vars => IInv'
<1> SUFFICES ASSUME IInv, [Next]_vars PROVE IInv'
  OBVIOUS
<1>1. CASE \E c \in Caller, host \in Host, kind \in Kind : Resolve(c, host, kind)
  BY <1>1, ResolveIInv
<1>2. CASE \E f \in DOMAIN flight : Read(f) \/ Land(f) \/ Fail(f) \/ Settle(f)
  BY <1>2, ReadIInv, LandIInv, FailIInv, SettleIInv
<1>3. CASE \E k \in Key : Invalidate(k)
  BY <1>3, InvalidateIInv
<1>4. CASE Tick
  BY <1>4, TickIInv
<1>5. CASE UNCHANGED vars
  <2>1. /\ UNCHANGED <<now, entries, inFlight, flight, epoch, call>>
    BY <1>5 DEF vars
  <2>2. TypeOK'
    BY <2>1 DEF IInv, TypeOK
  <2> QED BY <2>1, <2>2 DEF IInv, FlightOK, KeyOK, EntryOK, CallOK
<1> QED BY <1>1, <1>2, <1>3, <1>4, <1>5 DEF Next

LEMMA InvariantHolds == Safety => []IInv
BY InitIInv, StepIInv, PTL DEF Safety

(* The two Maps, the flights and the callers keep their shapes.            *)
THEOREM TypeCorrect == Safety => []TypeOK
<1>1. IInv => TypeOK
  BY DEF IInv
<1> QED BY <1>1, InvariantHolds, PTL

(* resolve coalesces: a key never has two calls of the producer under way, *)
(* and the one it has is the one registered in inFlight.                   *)
THEOREM FlightsAreShared == Safety => []OneFlightPerKey
<1>1. IInv => OneFlightPerKey
  <2> SUFFICES ASSUME IInv, NEW k \in Key
               PROVE  InTheAir(k) = IF inFlight[k] = NoFlight THEN {} ELSE {inFlight[k]}
    BY DEF OneFlightPerKey
  <2>1. ASSUME NEW f \in InTheAir(k)
        PROVE  inFlight[k] = f /\ f # NoFlight
    <3>1. f \in DOMAIN flight /\ flight[f].key = k /\ flight[f].stage \notin {"done", "dropped"}
      BY <2>1 DEF InTheAir
    <3>2. flight[f] \in Flight /\ FlightOK(f) /\ f # NoFlight
      BY <3>1, Types DEF IInv
    <3> QED BY <3>1, <3>2 DEF Flight, FlightOK
  <2>2. inFlight[k] # NoFlight => inFlight[k] \in InTheAir(k)
    <3>1. KeyOK(k) /\ (inFlight[k] # NoFlight => inFlight[k] \in DOMAIN flight)
      BY Types DEF IInv, NoFlight
    <3> QED BY <3>1 DEF KeyOK, InTheAir, Air
  <2> QED BY <2>1, <2>2
<1> QED BY <1>1, InvariantHolds, PTL

(* Whoever waits for resolve shares a call of the producer that has not    *)
(* been settled: nobody is left behind by finally, nor handed a failure    *)
(* that was there before.                                                  *)
THEOREM NobodyWaitsForNothing == Safety => []WaitsForAFlight
<1>1. IInv => WaitsForAFlight
  <2> SUFFICES ASSUME IInv, NEW c \in Caller, call[c] # Absent, call[c].answer = Absent
               PROVE  call[c].from \in UNION {InTheAir(k) : k \in Key}
    BY DEF WaitsForAFlight
  <2>1. /\ call[c].from \in DOMAIN flight
        /\ flight[call[c].from].stage \in Air
        /\ flight[call[c].from].key \in Key
    <3>1. CallOK(c)
      BY DEF IInv
    <3>2. call[c].from \in DOMAIN flight /\ flight[call[c].from].stage \in Air
      BY <3>1, SharedFlightExists DEF CallOK
    <3> QED BY <3>2, Types DEF Flight
  <2>2. call[c].from \in InTheAir(flight[call[c].from].key)
    BY <2>1 DEF InTheAir, Air
  <2> QED BY <2>1, <2>2
<1> QED BY <1>1, InvariantHolds, PTL

(* No host is served what was listed on another.                           *)
THEOREM NobodyElsesListing == Safety => []AnswerIsAboutTheAsker
<1>1. IInv => AnswerIsAboutTheAsker
  BY DEF IInv, CallOK, AnswerIsAboutTheAsker, Answers
<1> QED BY <1>1, InvariantHolds, PTL

(* The Maps, the flights and the callers agree: the three invariants in    *)
(* one.                                                                    *)
THEOREM CacheIsCoherent == Safety => []CacheInv
<1>1. TypeOK /\ OneFlightPerKey /\ WaitsForAFlight => CacheInv
  BY DEF CacheInv
<1> QED BY <1>1, TypeCorrect, FlightsAreShared, NobodyWaitsForNothing, PTL

(* What a caller gets was read at most ttlMs and one answer's travel       *)
(* before it asked, through whatever chain of hits and shared flights.     *)
THEOREM ListingsAreRecent == Safety => []AgeBounded
<1>1. IInv => AgeBounded
  BY DEF IInv, CallOK, AgeBounded, Answers
<1> QED BY <1>1, InvariantHolds, PTL

(* A hit never returns what was stored before the key's last invalidation. *)
THEOREM InvalidatedIsGone == Safety => []InvalidationForgets
<1>1. IInv => InvalidationForgets
  BY DEF IInv, CallOK, InvalidationForgets, Answers
<1> QED BY <1>1, InvariantHolds, PTL

-----------------------------------------------------------------------------
(***************************************************************************)
(* The page that shows the cached listings (Dashboard).  Its URL changes   *)
(* under a debounce, answers arrive for locations left long ago, and a     *)
(* placeholder stays on screen.  First whose volumes are on the screen,    *)
(* and that no text is forgotten in the search field; then that a page is  *)
(* never past its list without a cause.                                    *)
(***************************************************************************)
\* A navigation under way is not enough: it may have begun before the text was
\* typed and be discarded on arrival.  It has to carry a text of the field.
TextIsCarried == draft # url.search => timer \/ nav.ofField \/ dropped

PageIInv == RowsAreOfThisHost /\ TextIsCarried

LEMMA PageBegins == PageInit => PageIInv
BY DEF PageInit, RowsAreOfThisHost, TextIsCarried, PageIInv

\* A navigation keeps in mind that the one it discards carried a text.
LEMMA Navigates ==
  ASSUME NEW to, NEW ofField \in BOOLEAN, Navigate(to, ofField)
  PROVE  nav'.ofField <=> (ofField \/ nav.ofField)
BY DEF Navigate

\* A location is committed: the page of another host begins anew, and on the
\* same one the debounce is set again for a text that differs.
LEMMA CommitKeepsThePage ==
  ASSUME PageIInv, RouterCommits
  PROVE  PageIInv'
<1>1. url' = nav.to /\ nav' = NoNav
  BY DEF RouterCommits
<1>2. CASE nav.to = url
  <2>1. /\ dropped' = (dropped \/ (nav.ofField /\ draft # url.search /\ ~ timer))
        /\ draft' = draft /\ timer' = timer /\ view' = view /\ url' = url
    BY <1>1, <1>2 DEF RouterCommits, field
  <2>2. RowsAreOfThisHost'
    BY <2>1 DEF PageIInv, RowsAreOfThisHost, NoView, NoUrl, Link, Unset
  <2>3. TextIsCarried'
    BY <2>1 DEF PageIInv, TextIsCarried
  <2> QED BY <2>2, <2>3 DEF PageIInv
<1>3. CASE nav.to # url
  <2>1. Rerender(nav.to)
    BY <1>3 DEF RouterCommits
  <2>2. CASE nav.to.host # url.host
    <3>1. /\ draft' = url'.search
          /\ (view' = kept /\ kept.of = url') \/ view' = NoView
      BY <1>1, <2>1, <2>2 DEF Rerender
    <3> QED BY <3>1 DEF PageIInv, TextIsCarried, RowsAreOfThisHost, NoView
  <2>3. CASE nav.to.host = url.host
    <3>1. /\ timer' <=> (draft' # url'.search)
          /\ (view' = kept /\ kept.of = url') \/ view' = view
          /\ url'.host = url.host
      BY <1>1, <2>1, <2>3 DEF Rerender
    <3>2. RowsAreOfThisHost'
      BY <3>1 DEF PageIInv, RowsAreOfThisHost, NoView
    <3>3. TextIsCarried'
      BY <3>1 DEF TextIsCarried
    <3> QED BY <3>2, <3>3 DEF PageIInv
  <2> QED BY <2>2, <2>3
<1> QED BY <1>2, <1>3

LEMMA FieldKeepsThePage ==
  ASSUME PageIInv, (\E t \in Texts : Type(t)) \/ TimerFires \/ ClearField
  PROVE  PageIInv'
<1>1. view' = view /\ url' = url
  BY DEF Type, TimerFires, ClearField, lists
<1>2. RowsAreOfThisHost'
  BY <1>1 DEF PageIInv, RowsAreOfThisHost, NoView
<1>3. TextIsCarried'
  <2>1. ASSUME NEW t \in Texts, Type(t) PROVE TextIsCarried'
    BY <1>1, <2>1 DEF Type, TextIsCarried
  <2>2. CASE TimerFires \/ ClearField
    <3>1. nav'.ofField
      BY <2>2, Navigates DEF TimerFires, ClearField
    <3> QED BY <3>1 DEF TextIsCarried
  <2> QED BY <2>1, <2>2
<1> QED BY <1>2, <1>3 DEF PageIInv

\* Links, the pager and the table's controls navigate, and leave the page as it
\* is until the location is committed.
LEMMA ClickKeepsThePage ==
  ASSUME PageIInv,
         \/ \E u \in Usages : ScopeLink(u)
         \/ \E h \in Hosts : SwitchHost(h)
         \/ NextPage \/ PreviousPage \/ ClearFilters \/ Reorder
  PROVE  PageIInv'
<1>1. /\ UNCHANGED <<draft, timer, view, url, dropped>>
      /\ \E to : Navigate(to, FALSE)
  <2>1. ASSUME NEW offset, Turn(offset)
        PROVE  UNCHANGED <<draft, timer, view, url, dropped>> /\ \E to : Navigate(to, FALSE)
    BY <2>1 DEF Turn, field, lists
  <2>2. NextPage \/ PreviousPage => \E offset : Turn(offset)
    BY DEF NextPage, PreviousPage, Pager
  <2>3. ASSUME NEW u \in Usages, ScopeLink(u)
        PROVE  UNCHANGED <<draft, timer, view, url, dropped>> /\ \E to : Navigate(to, FALSE)
    BY <2>3 DEF ScopeLink, field, lists, ghosts
  <2>4. ASSUME NEW h \in Hosts, SwitchHost(h)
        PROVE  UNCHANGED <<draft, timer, view, url, dropped>> /\ \E to : Navigate(to, FALSE)
    BY <2>4 DEF SwitchHost, field, lists, ghosts
  <2>5. ASSUME ClearFilters \/ Reorder
        PROVE  UNCHANGED <<draft, timer, view, url, dropped>> /\ \E to : Navigate(to, FALSE)
    BY <2>5 DEF ClearFilters, Reorder, field, lists, ghosts
  <2> QED BY <2>1, <2>2, <2>3, <2>4, <2>5
<1>2. nav'.ofField <=> nav.ofField
  BY <1>1, Navigates
<1>3. RowsAreOfThisHost'
  BY <1>1 DEF PageIInv, RowsAreOfThisHost, NoView
<1>4. TextIsCarried'
  BY <1>1, <1>2 DEF PageIInv, TextIsCarried
<1> QED BY <1>3, <1>4 DEF PageIInv

\* Requests, their answers, and what happens at the daemons.
LEMMA AnswersKeepThePage ==
  ASSUME PageIInv,
         \/ Fetch \/ (\E a \in inflight : Arrive(a)) \/ SummaryAnswers
         \/ \E h \in Hosts, n \in Names : VolumeAppears(h, n) \/ VolumeGoes(h, n)
         \/ \E h \in Hosts, users \in Containers : UsageChanges(h, users)
         \/ UNCHANGED pageVars
  PROVE  PageIInv'
<1>1. /\ UNCHANGED <<draft, timer, url, nav, dropped>>
      /\ view' = view \/ view'.of = url
  <2>1. ASSUME NEW a \in inflight, Arrive(a)
        PROVE  UNCHANGED <<draft, timer, url, nav, dropped>> /\ (view' = view \/ view'.of = url)
    BY <2>1 DEF Arrive, field, ghosts
  <2>2. ASSUME NEW h \in Hosts, NEW n \in Names, VolumeAppears(h, n) \/ VolumeGoes(h, n)
        PROVE  UNCHANGED <<draft, timer, url, nav, dropped, view>>
    BY <2>2 DEF VolumeAppears, VolumeGoes, field, lists, ghosts
  <2>3. ASSUME Fetch \/ SummaryAnswers \/ UNCHANGED pageVars
        PROVE  UNCHANGED <<draft, timer, url, nav, dropped, view>>
    BY <2>3 DEF Fetch, SummaryAnswers, pageVars, field, lists, ghosts
  <2>4. ASSUME NEW h \in Hosts, NEW users \in Containers, UsageChanges(h, users)
        PROVE  UNCHANGED <<draft, timer, url, nav, dropped, view>>
    BY <2>4 DEF UsageChanges, field, lists
  <2> QED BY <2>1, <2>2, <2>3, <2>4
<1>2. RowsAreOfThisHost'
  BY <1>1 DEF PageIInv, RowsAreOfThisHost, NoView
<1>3. TextIsCarried'
  BY <1>1 DEF PageIInv, TextIsCarried
<1> QED BY <1>2, <1>3 DEF PageIInv

LEMMA PageIsOfItsUrl == PageSpec => [](RowsAreOfThisHost /\ UnsentTextIsOnItsWay)
<1>1. PageIInv /\ [PageNext]_pageVars => PageIInv'
  BY CommitKeepsThePage, FieldKeepsThePage, ClickKeepsThePage, AnswersKeepThePage DEF PageNext
<1>2. PageIInv => RowsAreOfThisHost /\ UnsentTextIsOnItsWay
  <2>1. ~ NoNav.ofField
    BY DEF NoNav
  <2> QED BY <2>1 DEF PageIInv, TextIsCarried, UnsentTextIsOnItsWay
<1>3. PageInit /\ [][PageNext]_pageVars => []PageIInv
  BY PageBegins, <1>1, PTL
<1> QED BY <1>2, <1>3, PTL DEF PageSpec

-----------------------------------------------------------------------------
(***************************************************************************)
(* A page past the end of its list.  That there is none without one of the *)
(* causes is not inductive: the location of a navigation under way, and    *)
(* those of the answers that are kept or in the air, have to start inside  *)
(* their lists too, and what an answer shows has to be there still.        *)
(***************************************************************************)
Listing == [of : Location, present : SUBSET Names, users : Containers]

\* The row of one volume does not depend on which others there are, and its
\* use does not depend on anything but the containers.
RowOf(host, n, users) ==
    ToSummary(World({}, users), host, [name |-> n, managed |-> FALSE, createdAt |-> n])

RowsFor(of, present, users) == Listed(World(present, users), of.host, QueryOf(of))
NamesFor(of, present, users) ==
    {n \in present : /\ of.usage # Unset => RowOf(of.host, n, users).usage.status = of.usage
                     /\ n \in NamesWith[of.search]}

\* How long the list of a location is, when these volumes and containers are
\* present.
RowCount(of, present, users) == Cardinality(NamesFor(of, present, users))

LEMMA RowHasItsName ==
  ASSUME NEW host, NEW n, NEW users
  PROVE  RowOf(host, n, users).name = n
BY DEF RowOf, ToSummary

LEMMA RowsByName ==
  ASSUME NEW of, NEW present, NEW users
  PROVE  RowsFor(of, present, users)
           = {RowOf(of.host, n, users) : n \in NamesFor(of, present, users)}
<1>1. PICK w : w = World(present, users)
  OBVIOUS
<1>2. PICK e : e = World({}, users)
  OBVIOUS
<1>3. /\ w.table = e.table /\ w.containers = e.containers /\ w.now = e.now /\ w.ttl = e.ttl
      /\ w.volumes = {[name |-> n, managed |-> FALSE, createdAt |-> n] : n \in present}
  BY <1>1, <1>2 DEF World
<1>4. ASSUME NEW v PROVE ToSummary(w, of.host, v) = ToSummary(e, of.host, v)
  BY <1>3 DEF ToSummary
<1>5. ASSUME NEW s
      PROVE  Matches(s, QueryOf(of)) <=>
               (of.usage # Unset => s.usage.status = of.usage) /\ s.name \in NamesWith[of.search]
  BY DEF Matches, QueryOf
<1>6. {ToSummary(w, of.host, v) : v \in w.volumes} = {RowOf(of.host, n, users) : n \in present}
  BY <1>2, <1>3, <1>4 DEF RowOf
<1>7. RowsFor(of, present, users)
        = {s \in {RowOf(of.host, n, users) : n \in present} : Matches(s, QueryOf(of))}
  BY <1>1, <1>6 DEF RowsFor, Listed
<1>8. ASSUME NEW n \in present
      PROVE  Matches(RowOf(of.host, n, users), QueryOf(of)) <=> n \in NamesFor(of, present, users)
  BY <1>5, RowHasItsName DEF NamesFor
<1>9. NamesFor(of, present, users) \subseteq present
  BY DEF NamesFor
<1> QED BY <1>7, <1>8, <1>9

\* There is one row for every name.
LEMMA RowsAreCounted ==
  ASSUME NEW of, NEW present \in SUBSET Names, NEW users
  PROVE  /\ IsFiniteSet(RowsFor(of, present, users))
         /\ Cardinality(RowsFor(of, present, users)) = RowCount(of, present, users)
<1>1. PICK names, rows : names = NamesFor(of, present, users) /\ rows = RowsFor(of, present, users)
  OBVIOUS
<1>2. IsFiniteSet(names)
  <2>1. names \subseteq Names
    BY <1>1 DEF NamesFor
  <2> QED BY <2>1, FS_Subset, PageOptions
<1>3. PICK row : row = [n \in names |-> RowOf(of.host, n, users)]
  OBVIOUS
<1>4. row \in Bijection(names, rows)
  <2>1. rows = {row[n] : n \in names}
    BY <1>1, <1>3, RowsByName
  <2>2. row \in [names -> rows]
    BY <1>3, <2>1
  <2>3. \A n \in names : row[n].name = n
    BY <1>3, RowHasItsName
  <2>4. \A n, m \in names : row[n] = row[m] => n = m
    BY <2>3
  <2> QED BY <2>1, <2>2, <2>4 DEF Bijection, Injection, Surjection, IsInjective
<1>5. ExistsBijection(names, rows)
  BY <1>4 DEF ExistsBijection
<1> QED BY <1>1, <1>2, <1>5, FS_Bijection DEF RowCount

\* The list of a location only gets longer when volumes come.
LEMMA CountGrows ==
  ASSUME NEW of, NEW later \in SUBSET Names, NEW earlier \in SUBSET later, NEW users
  PROVE  /\ RowCount(of, earlier, users) \in Nat /\ RowCount(of, later, users) \in Nat
         /\ RowCount(of, earlier, users) <= RowCount(of, later, users)
<1>1. PICK a, b : a = NamesFor(of, earlier, users) /\ b = NamesFor(of, later, users)
  OBVIOUS
<1>2. a \subseteq b /\ b \subseteq Names
  BY <1>1 DEF NamesFor
<1>3. IsFiniteSet(b)
  BY <1>2, FS_Subset, PageOptions
<1>4. IsFiniteSet(a) /\ Cardinality(a) <= Cardinality(b)
  BY <1>2, <1>3, FS_Subset
<1>5. Cardinality(a) \in Nat /\ Cardinality(b) \in Nat
  BY <1>3, <1>4, FS_CardinalityType
<1> QED BY <1>1, <1>4, <1>5 DEF RowCount

\* The offset and the order do not change what is listed.
LEMMA SameCount ==
  ASSUME NEW of, NEW to, NEW present, NEW users,
         to.host = of.host, to.usage = of.usage, to.search = of.search
  PROVE  RowCount(to, present, users) = RowCount(of, present, users)
<1>1. NamesFor(to, present, users) = NamesFor(of, present, users)
  BY DEF NamesFor
<1> QED BY <1>1 DEF RowCount

\* The list of all volumes does not depend on who uses them.
LEMMA AnyUsers ==
  ASSUME NEW of, of.usage = Unset, NEW present, NEW users, NEW others
  PROVE  RowCount(of, present, users) = RowCount(of, present, others)
<1>1. NamesFor(of, present, users) = NamesFor(of, present, others)
  BY DEF NamesFor
<1> QED BY <1>1 DEF RowCount

LEMMA PageBounds == Limit \in Nat /\ Limit > 0 /\ MaxClicks \in Nat /\ MaxChanges \in Nat
<1>1. Limit \in Nat /\ Limit # 0
  BY PageOptions
<1>2. MaxClicks \in Nat /\ MaxChanges \in Nat
  BY PageOptions
<1> QED BY <1>1, <1>2

\* What a page says of its list.
LEMMA PageOfList ==
  ASSUME NEW a \in Listing
  PROVE  LET page == PageOf(a)
             count == RowCount(a.of, a.present, a.users)
         IN  /\ page.hasMore <=> a.of.offset + Limit < count
             /\ page.items = <<>> <=> a.of.offset >= count
<1> DEFINE rows == RowsFor(a.of, a.present, a.users)
           sorted == Sorted(rows, QueryOf(a.of))
           count == RowCount(a.of, a.present, a.users)
<1>1. /\ count \in Nat /\ count = Cardinality(rows)
      /\ a.of.offset \in Nat /\ Limit \in Nat /\ Limit # 0
  <2>1. a.present \in SUBSET Names /\ a.of \in Location
    BY DEF Listing
  <2>2. a.of.offset \in Nat
    BY <2>1 DEF Location
  <2>3. IsFiniteSet(rows) /\ Cardinality(rows) = count
    BY <2>1, RowsAreCounted
  <2>4. Cardinality(rows) \in Nat
    BY <2>3, FS_CardinalityType
  <2> QED BY <2>2, <2>3, <2>4, PageOptions
<1>2. PageOf(a) = Slice(sorted, Limit, a.of.offset)
  <2>1. PICK q : q = QueryOf(a.of)
    OBVIOUS
  <2>2. q.limit = Limit /\ q.offset = a.of.offset
    BY <2>1 DEF QueryOf
  <2>3. PageOf(a) = Slice(Sorted(RowsFor(a.of, a.present, a.users), q), q.limit, q.offset)
    BY <2>1 DEF PageOf, List, RowsFor
  <2> QED BY <2>1, <2>2, <2>3
<1>3. Len(sorted) = count /\ sorted \in Seq({sorted[i] : i \in 1 .. count})
  <2>1. PICK q : q = QueryOf(a.of)
    OBVIOUS
  <2>2. PICK f : f = Sorted(rows, q)
    OBVIOUS
  <2>3. f = [i \in 1 .. count |-> f[i]]
    BY <1>1, <2>2 DEF Sorted
  <2>4. Len(f) = count /\ f \in Seq({f[i] : i \in 1 .. count})
    BY <1>1, <2>3
  <2> QED BY <2>1, <2>2, <2>4
<1>4. PICK s, o : s = sorted /\ o = a.of.offset
  OBVIOUS
<1>5. PICK c : c = count
  OBVIOUS
<1>6. Slice(s, Limit, o).hasMore <=> o + Limit < c
  BY <1>3, <1>4, <1>5 DEF Slice
<1>7. Slice(s, Limit, o).items = <<>> <=> o >= c
  <2>1. PICK last : last = Min({o + Limit, c})
    OBVIOUS
  <2>2. o + Limit \in Nat /\ c \in Nat /\ o \in Nat /\ Limit \in Nat /\ Limit # 0
    BY <1>1, <1>4, <1>5
  <2>3. \E x \in {o + Limit, c} : \A y \in {o + Limit, c} : x <= y
    <3>1. CASE o + Limit <= c
      BY <2>2, <3>1
    <3>2. CASE c <= o + Limit
      BY <2>2, <3>2
    <3> QED BY <2>2, <3>1, <3>2
  <2>4. last \in {o + Limit, c} /\ last <= c /\ last <= o + Limit
    BY <2>1, <2>3 DEF Min
  <2>5. last \in Nat
    BY <2>2, <2>4
  <2>6. PICK items : items = SubSeq(s, o + 1, last)
    OBVIOUS
  <2>7. s \in Seq({s[i] : i \in 1 .. c}) /\ Len(s) = c
    BY <1>3, <1>4, <1>5
  <2>8. Slice(s, Limit, o).items = items
    BY <2>1, <2>6, <2>7 DEF Slice
  <2>9. CASE o < c
    <3>1. last >= o + 1
      BY <2>2, <2>4, <2>9
    <3>2. Len(items) = last - o
      BY <2>2, <2>4, <2>5, <2>6, <2>7, <3>1
    <3>3. Len(items) # 0
      BY <2>2, <2>5, <3>1, <3>2
    <3> QED BY <2>2, <2>8, <2>9, <3>3
  <2>10. CASE o >= c
    <3>1. last < o + 1
      BY <2>2, <2>4, <2>5, <2>10
    <3>2. items = <<>>
      BY <2>2, <2>5, <2>6, <2>7, <3>1
    <3> QED BY <2>8, <2>10, <3>2
  <2> QED BY <2>2, <2>9, <2>10
<1> QED BY <1>1, <1>2, <1>4, <1>5, <1>6, <1>7

-----------------------------------------------------------------------------
PageTypes ==
    /\ inventory \in [Hosts -> SUBSET Names] /\ containers \in [Hosts -> Containers]
    /\ url \in Location /\ pasted \in Location
    /\ nav # NoNav => nav.to \in Location
    /\ draft \in Texts /\ editing \in BOOLEAN /\ timer \in BOOLEAN
    /\ {view, kept} \subseteq Listing \cup {NoView} /\ inflight \subseteq Listing
    /\ DOMAIN cached = Hosts
    /\ \A h \in Hosts : cached[h] # NoSummary => cached[h].host = h
    /\ clicks \in 0 .. MaxClicks /\ changes \in 0 .. MaxChanges
    /\ {removed, regrouped, blind, dropped} \subseteq BOOLEAN

\* A location that was pasted, or a list of one usage after a container moved,
\* may be past its end.
Excused(of) == of = pasted \/ (regrouped /\ of.usage # Unset)
Reaches(of, present, users) == of.offset > 0 => of.offset < RowCount(of, present, users)
ReachesNow(of) == Excused(of) \/ Reaches(of, inventory[of.host], containers[of.host])

\* What an answer shows is still there, and its page starts inside its list.
Remembers(a) ==
    a # NoView =>
        /\ a.present \subseteq inventory[a.of.host]
        /\ regrouped \/ a.users = containers[a.of.host]
        /\ Excused(a.of) \/ Reaches(a.of, a.present, a.users)

\* Every location, of the page, of the navigation under way and of an answer,
\* is as it should be.
Reaching(v, k, f, u, t) ==
    /\ Remembers(v) /\ Remembers(k) /\ \A a \in f : Remembers(a)
    /\ ReachesNow(u)
    /\ t # NoNav => ReachesNow(t.to)

OffsetsOK == removed \/ blind \/ Reaching(view, kept, inflight, url, nav)

OffsetIInv == PageTypes /\ OffsetsOK

LEMMA OffsetsBegin == PageInit => OffsetIInv
<1> SUFFICES ASSUME PageInit PROVE OffsetIInv
  OBVIOUS
<1>1. url \in Location /\ pasted = url /\ url.search \in Texts
  BY DEF PageInit, Location
<1>2. PageTypes
  <2>1. clicks \in 0 .. MaxClicks /\ changes \in 0 .. MaxChanges
    <3>1. clicks = 0 /\ changes = 0
      BY DEF PageInit
    <3> QED BY <3>1, PageBounds
  <2>2. /\ inventory \in [Hosts -> SUBSET Names] /\ containers \in [Hosts -> Containers]
        /\ nav = NoNav
        /\ draft \in Texts /\ editing \in BOOLEAN /\ timer \in BOOLEAN
        /\ {removed, regrouped, blind, dropped} \subseteq BOOLEAN
        /\ view = NoView /\ kept = NoView /\ inflight = {}
    BY <1>1 DEF PageInit
  <2>3. DOMAIN cached = Hosts /\ \A h \in Hosts : cached[h] = NoSummary
    BY DEF PageInit
  <2> QED BY <1>1, <2>1, <2>2, <2>3 DEF PageTypes
<1>3. Reaching(view, kept, inflight, url, nav)
  BY <1>1 DEF PageInit, Reaching, Remembers, ReachesNow, Excused
<1> QED BY <1>2, <1>3 DEF OffsetIInv, OffsetsOK

\* What the daemons may do while no volume goes away.
Steady ==
    /\ pasted' = pasted /\ (regrouped => regrouped')
    /\ \A h \in Hosts : inventory[h] \subseteq inventory'[h]
    /\ regrouped' \/ containers' = containers

\* A location that reached into its list does, and an answer that was
\* remembered is.
LEMMA SteadyReaches ==
  ASSUME PageTypes, PageTypes', Steady, NEW of \in Location, ReachesNow(of)
  PROVE  ReachesNow(of)'
<1>1. PICK h : h = of.host
  OBVIOUS
<1>2. PICK earlier, later, users, others :
        /\ earlier = inventory[h] /\ later = inventory'[h]
        /\ users = containers[h] /\ others = containers'[h]
  OBVIOUS
<1>3. h \in Hosts /\ of.offset \in Nat
  BY <1>1 DEF Location
<1>4. later \in SUBSET Names /\ earlier \in SUBSET later
  BY <1>2, <1>3 DEF PageTypes, Steady
<1>5. Excused(of) => Excused(of)'
  BY DEF Excused, Steady
<1>6. CASE Excused(of) \/ Excused(of)'
  BY <1>5, <1>6 DEF ReachesNow
<1>7. CASE ~ Excused(of) /\ ~ Excused(of)'
  <2>1. Reaches(of, earlier, users)
    BY <1>1, <1>2, <1>7 DEF ReachesNow
  <2>2. RowCount(of, later, others) = RowCount(of, later, users)
    <3>1. CASE of.usage = Unset
      BY <3>1, AnyUsers
    <3>2. CASE of.usage # Unset
      BY <1>2, <1>7, <3>2 DEF Excused, Steady
    <3> QED BY <3>1, <3>2
  <2>3. /\ RowCount(of, earlier, users) \in Nat /\ RowCount(of, later, users) \in Nat
        /\ RowCount(of, earlier, users) <= RowCount(of, later, users)
    BY <1>4, CountGrows
  <2>4. Reaches(of, later, others)
    BY <1>3, <2>1, <2>2, <2>3 DEF Reaches
  <2> QED BY <1>1, <1>2, <2>4 DEF ReachesNow, Reaches
<1> QED BY <1>6, <1>7

LEMMA SteadyRemembers ==
  ASSUME Steady, NEW a \in Listing \cup {NoView}, Remembers(a)
  PROVE  Remembers(a)'
<1>1. SUFFICES ASSUME a # NoView PROVE Remembers(a)'
  BY DEF Remembers
<1>2. a.of.host \in Hosts
  BY <1>1 DEF Listing, Location
<1>3. Excused(a.of) => Excused(a.of)'
  BY DEF Excused, Steady
<1>4. a.present \subseteq inventory'[a.of.host]
  BY <1>1, <1>2 DEF Remembers, Steady
<1>5. regrouped' \/ a.users = containers'[a.of.host]
  BY <1>1 DEF Remembers, Steady
<1>6. Excused(a.of)' \/ Reaches(a.of, a.present, a.users)
  BY <1>1, <1>3 DEF Remembers
<1> QED BY <1>4, <1>5, <1>6 DEF Remembers, Reaches

\* So that it is enough to look at the next state with what is known now.
LEMMA SteadyKeeps ==
  ASSUME PageTypes, PageTypes', Steady, NEW v, NEW k, NEW f, NEW u, NEW t,
         v = view', k = kept', f = inflight', u = url', t = nav',
         removed' \/ blind' \/ Reaching(v, k, f, u, t)
  PROVE  OffsetIInv'
<1>1. CASE removed' \/ blind'
  BY <1>1 DEF OffsetIInv, OffsetsOK
<1>2. CASE Reaching(v, k, f, u, t)
  <2>1. /\ {v, k} \subseteq Listing \cup {NoView} /\ f \subseteq Listing
        /\ u \in Location /\ (t # NoNav => t.to \in Location)
    BY DEF PageTypes
  <2>2. Remembers(v)' /\ Remembers(k)'
    BY <1>2, <2>1, SteadyRemembers DEF Reaching
  <2>3. \A a \in f : Remembers(a)'
    <3> SUFFICES ASSUME NEW a \in f PROVE Remembers(a)'
      OBVIOUS
    <3>1. Remembers(a) /\ a \in Listing
      BY <1>2, <2>1 DEF Reaching
    <3> QED BY <3>1, SteadyRemembers
  <2>4. ReachesNow(u)'
    BY <1>2, <2>1, SteadyReaches DEF Reaching
  <2>5. ASSUME t # NoNav PROVE ReachesNow(t.to)'
    <3>1. PICK to : to = t.to
      OBVIOUS
    <3>2. to \in Location /\ ReachesNow(to)
      BY <1>2, <2>1, <2>5, <3>1 DEF Reaching
    <3>3. ReachesNow(to)'
      BY <3>2, SteadyReaches
    <3> QED BY <3>1, <3>3
  <2>6. Reaching(v, k, f, u, t)'
    BY <2>2, <2>3, <2>4, <2>5 DEF Reaching
  <2>7. Reaching(view, kept, inflight, url, nav)'
    BY <2>6 DEF Reaching, Remembers, ReachesNow, Excused, Reaches
  <2> QED BY <2>7 DEF OffsetIInv, OffsetsOK
<1> QED BY <1>1, <1>2

LEMMA Clicks == ASSUME PageTypes, Click PROVE clicks' \in 0 .. MaxClicks
<1>1. clicks \in 0 .. MaxClicks /\ clicks < MaxClicks /\ clicks' = clicks + 1 /\ MaxClicks \in Nat
  BY PageOptions DEF PageTypes, Click
<1> QED BY <1>1

LEMMA Changes ==
  ASSUME PageTypes, changes < MaxChanges, changes' = changes + 1
  PROVE  changes' \in 0 .. MaxChanges
<1>1. changes \in 0 .. MaxChanges
  BY DEF PageTypes
<1> QED BY <1>1, PageBounds

\* A navigation to a location that is well formed, and that starts inside its
\* list or at its beginning, keeps the invariant.
LEMMA NavigationKeepsTheOffsets ==
  ASSUME OffsetIInv, NEW to \in Location, NEW ofField, Navigate(to, ofField),
         UNCHANGED <<daemons, url, lists, chrome, changes, pasted, removed, regrouped, dropped>>,
         draft' \in Texts, editing' \in BOOLEAN, timer' \in BOOLEAN, clicks' \in 0 .. MaxClicks,
         blind' \in BOOLEAN, blind => blind',
         blind' \/ removed \/ ReachesNow(to)
  PROVE  OffsetIInv'
<1>1. nav'.to = to
  BY DEF Navigate
<1>2. PageTypes /\ OffsetsOK
  BY DEF OffsetIInv
<1>3. /\ UNCHANGED <<inventory, containers, url, view, kept, inflight, cached, changes, pasted>>
      /\ UNCHANGED <<removed, regrouped, dropped>>
  BY DEF daemons, lists, chrome
<1>4. PageTypes'
  BY <1>1, <1>2, <1>3 DEF PageTypes
<1>5. Steady
  BY <1>3 DEF Steady
<1>6. PICK v, k, f, u, t : v = view' /\ k = kept' /\ f = inflight' /\ u = url' /\ t = nav'
  OBVIOUS
<1>7. removed' \/ blind' \/ Reaching(v, k, f, u, t)
  <2>1. SUFFICES ASSUME ~ removed, ~ blind' PROVE Reaching(v, k, f, u, t)
    BY <1>3
  <2>2. Reaching(view, kept, inflight, url, nav)
    BY <1>2, <2>1 DEF OffsetsOK
  <2>3. ReachesNow(t.to)
    BY <1>1, <1>6, <2>1
  <2> QED BY <1>3, <1>6, <2>2, <2>3 DEF Reaching
<1> QED BY <1>2, <1>4, <1>5, <1>6, <1>7, SteadyKeeps

\* The debounce and the clear button.
LEMMA FieldKeepsTheOffsets ==
  ASSUME OffsetIInv, (\E t \in Texts : Type(t)) \/ TimerFires \/ ClearField
  PROVE  OffsetIInv'
<1>1. ASSUME NEW t \in Texts, Type(t) PROVE OffsetIInv'
  <2>1. /\ UNCHANGED <<inventory, containers, url, nav, view, kept, inflight, cached, changes>>
        /\ UNCHANGED <<pasted, removed, regrouped, blind, dropped>>
        /\ draft' \in Texts /\ editing' \in BOOLEAN /\ timer' \in BOOLEAN
    BY <1>1 DEF Type, daemons, lists, chrome, ghosts
  <2>2. clicks' \in 0 .. MaxClicks
    BY <1>1, Clicks DEF Type, OffsetIInv
  <2>3. PageTypes'
    BY <2>1, <2>2 DEF OffsetIInv, PageTypes
  <2>4. OffsetsOK'
    BY <2>1 DEF OffsetIInv, OffsetsOK, Reaching, Remembers, ReachesNow, Excused, Reaches
  <2> QED BY <2>3, <2>4 DEF OffsetIInv
<1>2. ASSUME NEW t \in Texts, Navigate(WithSearch(t), TRUE),
             UNCHANGED <<daemons, url, lists, chrome, changes, ghosts>>,
             draft' \in Texts, editing' \in BOOLEAN, timer' \in BOOLEAN, clicks' \in 0 .. MaxClicks
      PROVE  OffsetIInv'
  <2>1. PICK to : to = WithSearch(t)
    OBVIOUS
  <2>2. to \in Location /\ to.offset = 0
    BY <2>1 DEF WithSearch, OffsetIInv, PageTypes, Location
  <2>3. ReachesNow(to)
    BY <2>2 DEF ReachesNow, Reaches
  <2>4. UNCHANGED <<pasted, removed, regrouped, blind, dropped>> /\ blind' \in BOOLEAN
    BY <1>2 DEF ghosts, OffsetIInv, PageTypes
  <2> QED BY <1>2, <2>1, <2>2, <2>3, <2>4, NavigationKeepsTheOffsets
<1>3. CASE TimerFires
  <2>1. draft \in Texts /\ draft' = draft /\ clicks' \in 0 .. MaxClicks
    BY <1>3 DEF TimerFires, OffsetIInv, PageTypes
  <2>2. PICK t \in Texts : t = draft
    BY <2>1
  <2> QED BY <1>2, <1>3, <2>1, <2>2 DEF TimerFires
<1>4. CASE ClearField
  <2>1. clicks' \in 0 .. MaxClicks
    BY <1>4, Clicks DEF ClearField, OffsetIInv
  <2>2. "" \in Texts
    BY PageOptions
  <2>3. timer' \in BOOLEAN
    BY <1>4 DEF ClearField
  <2> QED BY <1>2, <1>4, <2>1, <2>2, <2>3 DEF ClearField
<1> QED BY <1>1, <1>3, <1>4

\* Links and the sort go to the first page.
LEMMA LinkKeepsTheOffsets ==
  ASSUME OffsetIInv,
         \/ \E u \in Usages : ScopeLink(u)
         \/ \E h \in Hosts : SwitchHost(h)
         \/ ClearFilters \/ Reorder
  PROVE  OffsetIInv'
<1>1. ASSUME NEW to \in Location, to.offset = 0, Navigate(to, FALSE), Click,
             UNCHANGED <<daemons, url, field, lists, chrome, changes, ghosts>>
      PROVE  OffsetIInv'
  <2>1. clicks' \in 0 .. MaxClicks
    BY <1>1, Clicks DEF OffsetIInv
  <2>2. /\ draft' \in Texts /\ editing' \in BOOLEAN /\ timer' \in BOOLEAN
        /\ blind' \in BOOLEAN /\ (blind => blind')
        /\ UNCHANGED <<pasted, removed, regrouped, dropped>>
    BY <1>1 DEF field, ghosts, OffsetIInv, PageTypes
  <2>3. ReachesNow(to)
    BY <1>1 DEF ReachesNow, Reaches
  <2> QED BY <1>1, <2>1, <2>2, <2>3, NavigationKeepsTheOffsets
<1>2. ASSUME NEW h \in Hosts, NEW u \in Usages PROVE Link(h, u) \in Location /\ Link(h, u).offset = 0
  BY PageOptions DEF Link, Location
<1>3. url \in Location /\ url.host \in Hosts
  BY DEF OffsetIInv, PageTypes, Location
<1>4. ASSUME NEW u \in Usages, ScopeLink(u) PROVE OffsetIInv'
  <2>1. PICK to : to = Link(url.host, u)
    OBVIOUS
  <2>2. to \in Location /\ to.offset = 0
    BY <1>2, <1>3, <2>1
  <2> QED BY <1>1, <1>4, <2>1, <2>2 DEF ScopeLink
<1>5. ASSUME NEW h \in Hosts, SwitchHost(h) PROVE OffsetIInv'
  <2>1. PICK to : to = Link(h, Unset)
    OBVIOUS
  <2>2. to \in Location /\ to.offset = 0
    BY <1>2, <2>1, PageOptions
  <2> QED BY <1>1, <1>5, <2>1, <2>2 DEF SwitchHost
<1>6. CASE ClearFilters
  <2>1. PICK to : to = Unfiltered
    OBVIOUS
  <2>2. to \in Location /\ to.offset = 0
    BY <1>3, <2>1, PageOptions DEF Unfiltered, Location
  <2> QED BY <1>1, <1>6, <2>1, <2>2 DEF ClearFilters
<1>7. CASE Reorder
  <2>1. PICK to : to = Reversed
    OBVIOUS
  <2>2. to \in Location /\ to.offset = 0
    BY <1>3, <2>1 DEF Reversed, Location
  <2> QED BY <1>1, <1>7, <2>1, <2>2 DEF Reorder
<1> QED BY <1>4, <1>5, <1>6, <1>7

\* The pager stays inside the list it is shown with; and if that is the one
\* of the URL, inside the list as it is now.
LEMMA TurnStaysInside ==
  ASSUME OffsetIInv, NEW o \in Int, view # NoView, Turn(o),
         Placeholder \/ o <= 0 \/ o < RowCount(view.of, view.present, view.users)
  PROVE  OffsetIInv'
<1>1. PICK to : to = WithOffset(o)
  OBVIOUS
<1>2. PICK at : at = IF o > 0 THEN o ELSE 0
  OBVIOUS
<1>3. at \in Nat
  BY <1>2
<1>4. url \in Location /\ url.host \in Hosts /\ view \in Listing
  BY DEF OffsetIInv, PageTypes, Location
<1>5. to = [url EXCEPT !.offset = at]
  BY <1>1, <1>2 DEF WithOffset
<1>6. /\ to \in Location /\ to.offset = at
      /\ to.host = url.host /\ to.usage = url.usage /\ to.search = url.search
  BY <1>3, <1>4, <1>5 DEF Location
<1>7. blind' \/ removed \/ ReachesNow(to)
  <2>1. SUFFICES ASSUME ~ blind', ~ removed, o > 0, ~ Excused(to) PROVE ReachesNow(to)
    <3>1. CASE o <= 0
      BY <1>2, <1>6, <3>1 DEF ReachesNow, Reaches
    <3>2. CASE o > 0
      BY <2>1, <3>2 DEF ReachesNow
    <3> QED BY <3>1, <3>2
  <2>2. ~ Placeholder /\ ~ blind /\ view.of = url
    BY <2>1 DEF Turn, Placeholder
  <2>3. Remembers(view)
    BY <2>1, <2>2 DEF OffsetIInv, OffsetsOK, Reaching
  <2>4. PICK later, earlier, users, seen :
          /\ later = inventory[url.host] /\ earlier = view.present
          /\ users = containers[url.host] /\ seen = view.users
    OBVIOUS
  <2>5. later \in SUBSET Names /\ earlier \in SUBSET later /\ (regrouped \/ seen = users)
    BY <1>4, <2>2, <2>3, <2>4 DEF Remembers, OffsetIInv, PageTypes
  <2>6. o < RowCount(to, earlier, seen)
    <3>1. o < RowCount(view.of, earlier, seen)
      BY <2>1, <2>2, <2>4
    <3> QED BY <1>6, <2>2, <3>1, SameCount
  <2>7. RowCount(to, later, seen) = RowCount(to, later, users)
    <3>1. CASE to.usage = Unset
      BY <3>1, AnyUsers
    <3>2. CASE to.usage # Unset
      BY <2>1, <2>5, <3>2 DEF Excused
    <3> QED BY <3>1, <3>2
  <2>8. /\ RowCount(to, earlier, seen) \in Nat /\ RowCount(to, later, seen) \in Nat
        /\ RowCount(to, earlier, seen) <= RowCount(to, later, seen)
    BY <2>5, CountGrows
  <2>9. at < RowCount(to, later, users)
    BY <1>2, <2>1, <2>6, <2>7, <2>8
  <2> QED BY <1>6, <2>4, <2>9 DEF ReachesNow, Reaches
<1>8. /\ Navigate(to, FALSE)
      /\ UNCHANGED <<daemons, url, lists, chrome, changes, pasted, removed, regrouped, dropped>>
      /\ draft' \in Texts /\ editing' \in BOOLEAN /\ timer' \in BOOLEAN
      /\ (blind => blind') /\ blind' \in BOOLEAN
  BY <1>1 DEF Turn, field, OffsetIInv, PageTypes, Placeholder
<1>9. clicks' \in 0 .. MaxClicks
  BY Clicks DEF Turn, OffsetIInv
<1> QED BY <1>6, <1>7, <1>8, <1>9, NavigationKeepsTheOffsets

LEMMA PagerKeepsTheOffsets ==
  ASSUME OffsetIInv, NextPage \/ PreviousPage
  PROVE  OffsetIInv'
<1>1. /\ view \in Listing /\ view # NoView /\ view.of.offset \in Nat /\ view.present \in SUBSET Names
      /\ PageOf(view).items # <<>>
  <2>1. view # NoView /\ PageOf(view).items # <<>>
    BY DEF NextPage, PreviousPage, Pager
  <2> QED BY <2>1 DEF OffsetIInv, PageTypes, Listing, Location
<1>2. PICK a, count : a = view /\ count = RowCount(a.of, a.present, a.users)
  OBVIOUS
<1>3. /\ PageOf(a).hasMore <=> a.of.offset + Limit < count
      /\ ~ (a.of.offset >= count)
  BY <1>1, <1>2, PageOfList
<1>4. count \in Nat
  BY <1>1, <1>2, CountGrows
<1>5. CASE NextPage
  <2>1. PICK o : o = view.of.offset + Limit
    OBVIOUS
  <2>2. o \in Int /\ o < count
    BY <1>1, <1>2, <1>3, <1>5, <2>1, PageBounds DEF NextPage
  <2>3. Turn(o)
    BY <1>5, <2>1 DEF NextPage, Pager
  <2> QED BY <1>1, <1>2, <2>2, <2>3, TurnStaysInside
<1>6. CASE PreviousPage
  <2>1. PICK o : o = view.of.offset - Limit
    OBVIOUS
  <2>2. o \in Int /\ o < count
    BY <1>1, <1>2, <1>3, <1>4, <2>1, PageBounds
  <2>3. Turn(o)
    BY <1>6, <2>1 DEF PreviousPage, Pager
  <2> QED BY <1>1, <1>2, <2>2, <2>3, TurnStaysInside
<1> QED BY <1>5, <1>6

\* The page that is committed and the data it is shown with are among those
\* that were known before.
LEMMA CommitKeepsTheOffsets ==
  ASSUME OffsetIInv, RouterCommits
  PROVE  OffsetIInv'
<1>1. /\ nav' = NoNav /\ url' = nav.to /\ nav # NoNav
      /\ UNCHANGED <<inventory, containers, inflight, cached, clicks, changes>>
      /\ UNCHANGED <<pasted, removed, regrouped, blind>>
  BY DEF RouterCommits, daemons
<1>2. nav.to \in Location /\ nav.to.search \in Texts
  BY <1>1 DEF OffsetIInv, PageTypes, Location
<1>3. /\ draft' \in {draft, nav.to.search} /\ editing' \in BOOLEAN /\ timer' \in BOOLEAN
      /\ view' \in {view, kept, NoView} /\ kept' \in {view, kept} /\ dropped' \in BOOLEAN
  <2>1. CASE nav.to = url
    <3>1. UNCHANGED <<draft, editing, timer, view, kept>> /\ dropped' \in BOOLEAN
      BY <2>1 DEF RouterCommits, field, OffsetIInv, PageTypes
    <3> QED BY <3>1 DEF OffsetIInv, PageTypes
  <2>2. CASE nav.to # url
    <3>1. Rerender(nav.to) /\ kept' \in {view, kept} /\ dropped' = dropped
      BY <2>2 DEF RouterCommits
    <3>2. /\ draft' \in {draft, nav.to.search} /\ editing' \in BOOLEAN /\ timer' \in BOOLEAN
          /\ view' \in {view, kept, NoView}
      BY <3>1 DEF Rerender, OffsetIInv, PageTypes
    <3> QED BY <3>1, <3>2 DEF OffsetIInv, PageTypes
  <2> QED BY <2>1, <2>2
<1>4. PageTypes'
  BY <1>1, <1>2, <1>3 DEF OffsetIInv, PageTypes
<1>5. Steady
  BY <1>1 DEF Steady
<1>6. PICK v, k, f, u, t : v = view' /\ k = kept' /\ f = inflight' /\ u = url' /\ t = nav'
  OBVIOUS
<1>7. removed' \/ blind' \/ Reaching(v, k, f, u, t)
  <2>1. SUFFICES ASSUME ~ removed, ~ blind PROVE Reaching(v, k, f, u, t)
    BY <1>1
  <2>2. Reaching(view, kept, inflight, url, nav)
    BY <2>1 DEF OffsetIInv, OffsetsOK
  <2>3. Remembers(v) /\ Remembers(k)
    <3>1. Remembers(NoView)
      BY DEF Remembers
    <3> QED BY <1>3, <1>6, <2>2, <3>1 DEF Reaching
  <2> QED BY <1>1, <1>6, <2>2, <2>3 DEF Reaching
<1> QED BY <1>4, <1>5, <1>6, <1>7, SteadyKeeps DEF OffsetIInv

\* Requests and their answers.
LEMMA AnswersKeepTheOffsets ==
  ASSUME OffsetIInv,
         \/ Fetch \/ (\E a \in inflight : Arrive(a)) \/ SummaryAnswers
         \/ UNCHANGED pageVars
  PROVE  OffsetIInv'
<1>1. ASSUME UNCHANGED <<inventory, containers, url, nav, draft, editing, timer, clicks, changes>>,
             UNCHANGED <<pasted, removed, regrouped, blind, dropped>>,
             NEW v, NEW k, NEW f,
             v = view' /\ k = kept' /\ f = inflight',
             {v, k} \subseteq Listing \cup {NoView} /\ f \subseteq Listing,
             removed \/ blind \/ (Remembers(v) /\ Remembers(k) /\ \A a \in f : Remembers(a)),
             DOMAIN cached' = Hosts, \A h \in Hosts : cached'[h] # NoSummary => cached'[h].host = h
      PROVE  OffsetIInv'
  <2>1. PageTypes'
    BY <1>1 DEF OffsetIInv, PageTypes
  <2>2. Steady
    BY <1>1 DEF Steady
  <2>3. PICK u, t : u = url' /\ t = nav'
    OBVIOUS
  <2>4. removed' \/ blind' \/ Reaching(v, k, f, u, t)
    BY <1>1, <2>3 DEF OffsetIInv, OffsetsOK, Reaching
  <2> QED BY <1>1, <2>1, <2>2, <2>3, <2>4, SteadyKeeps DEF OffsetIInv
<1>2. /\ {view, kept} \subseteq Listing \cup {NoView} /\ inflight \subseteq Listing
      /\ DOMAIN cached = Hosts /\ \A h \in Hosts : cached[h] # NoSummary => cached[h].host = h
      /\ url \in Location /\ url.host \in Hosts
      /\ inventory \in [Hosts -> SUBSET Names] /\ containers \in [Hosts -> Containers]
      /\ removed \/ blind \/ (Remembers(view) /\ Remembers(kept) /\ \A a \in inflight : Remembers(a))
  BY DEF OffsetIInv, PageTypes, OffsetsOK, Reaching, Location
<1>3. CASE Fetch
  <2>1. PICK a : a = Answer(url)
    OBVIOUS
  <2>2. /\ UNCHANGED <<inventory, containers, url, nav, draft, editing, timer, clicks, changes>>
        /\ UNCHANGED <<pasted, removed, regrouped, blind, dropped>>
        /\ UNCHANGED <<view, kept, cached>> /\ inflight' = inflight \cup {a}
    BY <1>3, <2>1 DEF Fetch, daemons, field, chrome, ghosts
  <2>3. /\ a \in Listing /\ a.of = url
        /\ a.present = inventory[url.host] /\ a.users = containers[url.host]
    BY <1>2, <2>1 DEF Answer, Listing
  <2>4. removed \/ blind \/ Remembers(a)
    BY <2>3 DEF OffsetIInv, OffsetsOK, Reaching, ReachesNow, Remembers
  <2>5. PICK v, k, f : v = view /\ k = kept /\ f = inflight \cup {a}
    OBVIOUS
  <2>6. /\ v = view' /\ k = kept' /\ f = inflight'
        /\ {v, k} \subseteq Listing \cup {NoView} /\ f \subseteq Listing
    BY <1>2, <2>2, <2>3, <2>5
  <2>7. removed \/ blind \/ (Remembers(v) /\ Remembers(k) /\ \A b \in f : Remembers(b))
    BY <1>2, <2>4, <2>5
  <2>8. DOMAIN cached' = Hosts /\ \A h \in Hosts : cached'[h] # NoSummary => cached'[h].host = h
    BY <1>2, <2>2
  <2> QED BY <1>1, <2>2, <2>6, <2>7, <2>8
<1>4. ASSUME NEW a \in inflight, Arrive(a) PROVE OffsetIInv'
  <2>1. /\ UNCHANGED <<inventory, containers, url, nav, draft, editing, timer, clicks, changes>>
        /\ UNCHANGED <<pasted, removed, regrouped, blind, dropped>>
        /\ UNCHANGED cached /\ inflight' = inflight \ {a}
        /\ view' \in {view, a} /\ kept' \in {kept, a}
    BY <1>4 DEF Arrive, daemons, field, chrome, ghosts
  <2>2. a \in Listing /\ (removed \/ blind \/ Remembers(a))
    BY <1>2, <1>4
  <2>3. PICK v, k, f : v = view' /\ k = kept' /\ f = inflight'
    OBVIOUS
  <2>4. {v, k} \subseteq Listing \cup {NoView} /\ f \subseteq Listing
    BY <1>2, <2>1, <2>2, <2>3
  <2>5. removed \/ blind \/ (Remembers(v) /\ Remembers(k) /\ \A b \in f : Remembers(b))
    BY <1>2, <2>1, <2>2, <2>3
  <2>6. DOMAIN cached' = Hosts /\ \A h \in Hosts : cached'[h] # NoSummary => cached'[h].host = h
    BY <1>2, <2>1
  <2> QED BY <1>1, <2>1, <2>3, <2>4, <2>5, <2>6
<1>5. CASE SummaryAnswers
  <2>1. /\ UNCHANGED <<inventory, containers, url, nav, draft, editing, timer, clicks, changes>>
        /\ UNCHANGED <<pasted, removed, regrouped, blind, dropped>>
        /\ UNCHANGED <<view, kept, inflight>>
        /\ cached' = [cached EXCEPT ![url.host] = Summary(url.host)]
    BY <1>5 DEF SummaryAnswers, daemons, field, lists, ghosts
  <2>2. PICK v, k, f : v = view /\ k = kept /\ f = inflight
    OBVIOUS
  <2>3. DOMAIN cached' = Hosts /\ \A h \in Hosts : cached'[h] # NoSummary => cached'[h].host = h
    BY <1>2, <2>1 DEF Summary
  <2>4. /\ v = view' /\ k = kept' /\ f = inflight'
        /\ {v, k} \subseteq Listing \cup {NoView} /\ f \subseteq Listing
        /\ removed \/ blind \/ (Remembers(v) /\ Remembers(k) /\ \A a \in f : Remembers(a))
    BY <1>2, <2>1, <2>2
  <2> QED BY <1>1, <2>1, <2>3, <2>4
<1>6. CASE UNCHANGED pageVars
  <2>1. /\ UNCHANGED <<inventory, containers, url, nav, draft, editing, timer, clicks, changes>>
        /\ UNCHANGED <<pasted, removed, regrouped, blind, dropped>>
        /\ UNCHANGED <<view, kept, inflight, cached>>
    BY <1>6 DEF pageVars, daemons, field, lists, chrome, ghosts
  <2>2. PICK v, k, f : v = view /\ k = kept /\ f = inflight
    OBVIOUS
  <2>3. /\ v = view' /\ k = kept' /\ f = inflight'
        /\ {v, k} \subseteq Listing \cup {NoView} /\ f \subseteq Listing
        /\ removed \/ blind \/ (Remembers(v) /\ Remembers(k) /\ \A a \in f : Remembers(a))
        /\ DOMAIN cached' = Hosts /\ \A h \in Hosts : cached'[h] # NoSummary => cached'[h].host = h
    BY <1>2, <2>1, <2>2
  <2> QED BY <1>1, <2>1, <2>3
<1> QED BY <1>3, <1>4, <1>5, <1>6

\* What happens to the volumes and the containers.
LEMMA DaemonsKeepTheOffsets ==
  ASSUME OffsetIInv,
         \/ \E h \in Hosts, n \in Names : VolumeAppears(h, n) \/ VolumeGoes(h, n)
         \/ \E h \in Hosts, users \in Containers : UsageChanges(h, users)
  PROVE  OffsetIInv'
<1>1. PageTypes /\ OffsetsOK
  BY DEF OffsetIInv
<1>2. ASSUME UNCHANGED <<url, nav, view, kept, inflight, removed, blind>>, PageTypes', Steady
      PROVE  OffsetIInv'
  <2>1. PICK v, k, f, u, t : v = view' /\ k = kept' /\ f = inflight' /\ u = url' /\ t = nav'
    OBVIOUS
  <2>2. removed' \/ blind' \/ Reaching(v, k, f, u, t)
    BY <1>1, <1>2, <2>1 DEF OffsetsOK, Reaching
  <2> QED BY <1>1, <1>2, <2>1, <2>2, SteadyKeeps
<1>3. ASSUME NEW h \in Hosts, NEW n \in Names, VolumeAppears(h, n) PROVE OffsetIInv'
  <2>1. /\ UNCHANGED <<url, nav, draft, editing, timer, view, kept, inflight, cached, clicks>>
        /\ UNCHANGED <<containers, pasted, removed, regrouped, blind, dropped>>
        /\ inventory' = [inventory EXCEPT ![h] = inventory[h] \cup {n}]
        /\ changes' = changes + 1 /\ changes < MaxChanges
    BY <1>3 DEF VolumeAppears, field, lists, chrome, ghosts
  <2>2. /\ inventory' \in [Hosts -> SUBSET Names]
        /\ \A g \in Hosts : inventory[g] \subseteq inventory'[g]
    BY <1>1, <2>1 DEF PageTypes
  <2>3. PageTypes'
    BY <1>1, <2>1, <2>2, Changes DEF PageTypes
  <2>4. Steady
    BY <2>1, <2>2 DEF Steady
  <2> QED BY <1>2, <2>1, <2>3, <2>4
<1>4. ASSUME NEW h \in Hosts, NEW n \in Names, VolumeGoes(h, n) PROVE OffsetIInv'
  <2>1. /\ UNCHANGED <<url, nav, draft, editing, timer, view, kept, inflight, cached, clicks>>
        /\ UNCHANGED <<containers, pasted, regrouped, blind, dropped>>
        /\ inventory' = [inventory EXCEPT ![h] = inventory[h] \ {n}] /\ removed' = TRUE
        /\ changes' = changes + 1 /\ changes < MaxChanges
    BY <1>4 DEF VolumeGoes, field, lists, chrome
  <2>2. inventory' \in [Hosts -> SUBSET Names]
    BY <1>1, <2>1 DEF PageTypes
  <2>3. PageTypes'
    BY <1>1, <2>1, <2>2, Changes DEF PageTypes
  <2> QED BY <2>1, <2>3 DEF OffsetIInv, OffsetsOK
<1>5. ASSUME NEW h \in Hosts, NEW users \in Containers, UsageChanges(h, users) PROVE OffsetIInv'
  <2>1. /\ UNCHANGED <<url, nav, draft, editing, timer, view, kept, inflight, cached, clicks>>
        /\ UNCHANGED <<inventory, pasted, removed, blind, dropped>>
        /\ containers' = [containers EXCEPT ![h] = users] /\ regrouped' = TRUE
        /\ changes' = changes + 1 /\ changes < MaxChanges
    BY <1>5 DEF UsageChanges, field, lists, chrome
  <2>2. containers' \in [Hosts -> Containers]
    BY <1>1, <2>1 DEF PageTypes
  <2>3. PageTypes'
    BY <1>1, <2>1, <2>2, Changes DEF PageTypes
  <2>4. Steady
    BY <2>1 DEF Steady
  <2> QED BY <1>2, <2>1, <2>3, <2>4
<1> QED BY <1>3, <1>4, <1>5

LEMMA OffsetsMean == OffsetIInv => PageTypeOK /\ EmptyPageHasACause
<1> SUFFICES ASSUME OffsetIInv PROVE PageTypeOK /\ EmptyPageHasACause
  OBVIOUS
<1>1. PageTypeOK
  BY DEF OffsetIInv, PageTypes, PageTypeOK
<1>2. ASSUME view # NoView, ~ Placeholder, url.offset > 0, PageOf(view).items = <<>>,
             ~ (removed \/ blind), ~ Excused(url)
      PROVE  FALSE
  <2>1. view \in Listing /\ view.of = url /\ url.offset \in Nat /\ view.present \in SUBSET Names
    BY <1>2 DEF OffsetIInv, PageTypes, Placeholder, Listing, Location
  <2>2. PICK a, count : a = view /\ count = RowCount(a.of, a.present, a.users)
    OBVIOUS
  <2>3. a.of.offset >= count
    BY <1>2, <2>1, <2>2, PageOfList
  <2>4. Remembers(a)
    BY <1>2, <2>2 DEF OffsetIInv, OffsetsOK, Reaching
  <2>5. a.of.offset < count
    BY <1>2, <2>1, <2>2, <2>4 DEF Remembers, Reaches
  <2>6. count \in Nat
    BY <2>1, <2>2, CountGrows
  <2> QED BY <2>1, <2>2, <2>3, <2>5, <2>6
<1>3. EmptyPageHasACause
  BY <1>2 DEF EmptyPageHasACause, Excused
<1> QED BY <1>1, <1>3

(* The table never lists volumes of another machine than the one the page  *)
(* is headed with, a text in the search field that is not in the URL is on *)
(* its way there, and a page past the end of its list is one that was      *)
(* pasted, that a volume went away from or (in a list of one usage) became *)
(* used or unused, or that was asked for off a placeholder, in whatever    *)
(* order navigations and answers arrive (filter-bar.tsx, volume-table.tsx, *)
(* use-volumes.ts, use-volume-query.ts).                                   *)
THEOREM DashboardHolds == PageSpec => []DashboardInv
<1>1. OffsetIInv /\ [PageNext]_pageVars => OffsetIInv'
  BY CommitKeepsTheOffsets, FieldKeepsTheOffsets, LinkKeepsTheOffsets, PagerKeepsTheOffsets,
     AnswersKeepTheOffsets, DaemonsKeepTheOffsets DEF PageNext
<1>2. PageInit /\ [][PageNext]_pageVars => []OffsetIInv
  BY OffsetsBegin, <1>1, PTL
<1>3. (RowsAreOfThisHost /\ UnsentTextIsOnItsWay) /\ OffsetIInv => DashboardInv
  BY OffsetsMean DEF DashboardInv
<1> QED BY <1>2, <1>3, PageIsOfItsUrl, PTL DEF PageSpec
=============================================================================
