----------------------------- MODULE TtlCache -------------------------------
(***************************************************************************)
(* backend/src/utils/ttl-cache.util.ts, the read-through cache in front of *)
(* a daemon's container and volume listings (container.repository.ts,      *)
(* volume.repository.ts) and of the strategy probe (scanner.service.ts).   *)
(*                                                                         *)
(* A flight is one call of the producer.  Its life is                      *)
(*   sent    the request is on its way                                     *)
(*   read    the daemon has taken its snapshot, the answer is under way    *)
(*   landed  the then-callback has stored it  (failed: the call threw)     *)
(*   done    the finally-callback has run and every caller is answered     *)
(*           (dropped: the same after a failure)                           *)
(* The listing itself does not matter here, only which key it was read     *)
(* for and when: a value is that provenance.                               *)
(***************************************************************************)
EXTENDS Naturals, Sequences, FiniteSets

CONSTANTS
    Host, Kind,   \* the two parts of a cache key
    Caller,       \* API requests, each of which may ask again and again
    TtlMs,        \* create(ttlMs); 0 is legal and switches the entries off
    Latency,      \* bound of the model: ticks an answer travels from the daemon
    MaxNow, MaxFlights, MaxInvalidations  \* bounds of the model

ASSUME CacheOptions ==
    TtlMs \in Nat /\ Latency \in Nat /\ MaxNow \in Nat /\ MaxFlights \in Nat
    /\ MaxInvalidations \in Nat

VARIABLES
    now,       \* Date.now(); assumed not to be set back
    entries,   \* entries[k]: the cached value and its expiry, or Absent
    inFlight,  \* inFlight[k]: the flight callers of k share, or NoFlight
    flight,    \* every flight ever started
    epoch,     \* epoch[k]: how often k has been invalidated
    call       \* call[c]: what caller c last asked and what it was answered

vars == <<now, entries, inFlight, flight, epoch, call>>

CONSTANTS Absent, Failed
NoFlight == 0
Key == Host \X Kind

\* What the producer read, as its provenance: for which key, and when.
Value == [about : Key, readAt : 0 .. MaxNow, readEpoch : Nat, landEpoch : Nat]

ASSUME Markers == Absent # Failed /\ Absent \notin Value

\* Mutant: the bare, un-namespaced key.
BareKey(host, kind) == <<CHOOSE g \in Host : TRUE, kind>>

\* CacheKey.for: two hosts never share a key, nor do two kinds of a host.
CacheKeyFor(host, kind) == <<host, kind>>

Init ==
    /\ now = 0
    /\ entries = [k \in Key |-> Absent]
    /\ inFlight = [k \in Key |-> NoFlight]
    /\ flight = <<>>
    /\ epoch = [k \in Key |-> 0]
    /\ call = [c \in Caller |-> Absent]

IsLive(k) == entries[k] # Absent /\ entries[k].expiresAt > now

\* c has no unanswered call.
CanAsk(c) == call[c] # Absent => call[c].answer # Absent

Asking(c, k, from, answer) ==
    call' = [call EXCEPT ![c] = [about |-> k, askedAt |-> now, askedEpoch |-> epoch[k],
                                 from |-> from, answer |-> answer]]

-----------------------------------------------------------------------------
(* resolve(key, producer) by caller c: the three outcomes.                  *)

\* Mutant: every hit pushes the expiry forward.
HitSliding(c, target, k) ==
    /\ CanAsk(c) /\ IsLive(k)
    /\ Asking(c, target, NoFlight, entries[k].value)
    /\ entries' = [entries EXCEPT ![k].expiresAt = now + TtlMs]
    /\ UNCHANGED <<now, inFlight, flight, epoch>>

Hit(c, target, k) ==
    /\ CanAsk(c)
    /\ IsLive(k)
    /\ Asking(c, target, NoFlight, entries[k].value)
    /\ UNCHANGED <<now, entries, inFlight, flight, epoch>>

Share(c, target, k) ==
    /\ CanAsk(c)
    /\ ~ IsLive(k)
    /\ inFlight[k] # NoFlight
    /\ Asking(c, target, inFlight[k], Absent)
    /\ UNCHANGED <<now, entries, inFlight, flight, epoch>>

\* The producer was made for the host that asked, whatever the key is.
NewFlight(target, k) ==
    [key |-> k, stage |-> "sent",
     value |-> [about |-> target, readAt |-> 0, readEpoch |-> 0, landEpoch |-> 0]]

\* Mutant: a flight is started although one is in the air.
StartAlways(c, target, k) ==
    LET id == Len(flight) + 1
    IN  /\ CanAsk(c) /\ ~ IsLive(k) /\ id <= MaxFlights
        /\ flight' = Append(flight, NewFlight(target, k))
        /\ inFlight' = [inFlight EXCEPT ![k] = id]
        /\ Asking(c, target, id, Absent)
        /\ UNCHANGED <<now, entries, epoch>>

Start(c, target, k) ==
    LET id == Len(flight) + 1
    IN  /\ CanAsk(c)
        /\ ~ IsLive(k)
        /\ inFlight[k] = NoFlight
        /\ id <= MaxFlights
        /\ flight' = Append(flight, NewFlight(target, k))
        /\ inFlight' = [inFlight EXCEPT ![k] = id]
        /\ Asking(c, target, id, Absent)
        /\ UNCHANGED <<now, entries, epoch>>

Resolve(c, host, kind) ==
    LET target == <<host, kind>>   k == CacheKeyFor(host, kind)
    IN  Hit(c, target, k) \/ Share(c, target, k) \/ Start(c, target, k)

-----------------------------------------------------------------------------
\* The daemon takes the snapshot it will answer with.
Read(f) ==
    /\ flight[f].stage = "sent"
    /\ LET about == flight[f].value.about
       IN  flight' = [flight EXCEPT ![f].stage = "read", ![f].value.readAt = now,
                                    ![f].value.readEpoch = epoch[about]]
    /\ UNCHANGED <<now, entries, inFlight, epoch, call>>

\* The then-callback.
Land(f) ==
    /\ flight[f].stage = "read"
    /\ LET k == flight[f].key
           value == [flight[f].value EXCEPT !.landEpoch = epoch[k]]
       IN  /\ flight' = [flight EXCEPT ![f].stage = "landed", ![f].value = value]
           /\ entries' = IF TtlMs > 0
                         THEN [entries EXCEPT ![k] = [value |-> value, expiresAt |-> now + TtlMs]]
                         ELSE entries
    /\ UNCHANGED <<now, inFlight, epoch, call>>

\* The producer rejects: the daemon, or the way to it, fails.
Fail(f) ==
    /\ flight[f].stage \in {"sent", "read"}
    /\ flight' = [flight EXCEPT ![f].stage = "failed"]
    /\ UNCHANGED <<now, entries, inFlight, epoch, call>>

\* All who share flight f are answered with its outcome.
Answered(f) ==
    [c \in Caller |->
        IF call[c] # Absent /\ call[c].from = f /\ call[c].answer = Absent
        THEN [call[c] EXCEPT !.answer =
                 IF flight[f].stage = "landed" THEN flight[f].value ELSE Failed]
        ELSE call[c]]

\* The finally-callback, after which the shared promise settles.  It deletes
\* by key, whichever flight is registered under it.
Settle(f) ==
    /\ flight[f].stage \in {"landed", "failed"}
    /\ inFlight' = [inFlight EXCEPT ![flight[f].key] = NoFlight]
    /\ call' = Answered(f)
    /\ flight' = [flight EXCEPT ![f].stage = IF @ = "landed" THEN "done" ELSE "dropped"]
    /\ UNCHANGED <<now, entries, epoch>>

\* Mutant: only what has expired is dropped.
InvalidateExpired(k) ==
    /\ epoch[k] < MaxInvalidations
    /\ epoch' = [epoch EXCEPT ![k] = @ + 1]
    /\ entries' = IF IsLive(k) THEN entries ELSE [entries EXCEPT ![k] = Absent]
    /\ UNCHANGED <<now, inFlight, flight, call>>

\* invalidate(key): the flight in the air is left alone.  Nobody in the
\* program calls invalidate() without a key, nor peek().
Invalidate(k) ==
    /\ epoch[k] < MaxInvalidations
    /\ epoch' = [epoch EXCEPT ![k] = @ + 1]
    /\ entries' = [entries EXCEPT ![k] = Absent]
    /\ UNCHANGED <<now, inFlight, flight, call>>

\* Time passes, but no answer is under way for longer than Latency.
Tick ==
    /\ now < MaxNow
    /\ \A f \in DOMAIN flight :
          flight[f].stage \in {"read", "landed"} => now < flight[f].value.readAt + Latency
    /\ now' = now + 1
    /\ UNCHANGED <<entries, inFlight, flight, epoch, call>>

Next ==
    \/ \E c \in Caller, host \in Host, kind \in Kind : Resolve(c, host, kind)
    \/ \E f \in DOMAIN flight : Read(f) \/ Land(f) \/ Fail(f) \/ Settle(f)
    \/ \E k \in Key : Invalidate(k)
    \/ Tick

Safety == Init /\ [][Next]_vars

-----------------------------------------------------------------------------
(* Type invariant: the two Maps, the flights and the callers.              *)
TypeOK ==
    /\ now \in 0 .. MaxNow
    /\ entries \in [Key -> {Absent} \cup [value : Value, expiresAt : Nat]]
    /\ inFlight \in [Key -> 0 .. Len(flight)]
    /\ flight \in Seq([key : Key, value : Value,
                       stage : {"sent", "read", "landed", "failed", "done", "dropped"}])
    /\ epoch \in [Key -> Nat]
    /\ call \in [Caller -> {Absent} \cup
                  [about : Key, askedAt : 0 .. MaxNow, askedEpoch : Nat, from : 0 .. Len(flight),
                   answer : Value \cup {Absent, Failed}]]

InTheAir(k) == {f \in DOMAIN flight : flight[f].key = k /\ flight[f].stage \notin {"done", "dropped"}}

(* Concurrent callers share one flight: of a key's flights no two are in   *)
(* the air at once, and the one that is can be joined.  finally() deletes  *)
(* by key, so a second flight would lose the first one's place.            *)
OneFlightPerKey ==
    \A k \in Key :
        InTheAir(k) = IF inFlight[k] = NoFlight THEN {} ELSE {inFlight[k]}

Answers == {call[c] : c \in {d \in Caller : call[d] # Absent /\ call[d].answer \notin {Absent, Failed}}}

(* Nobody is served another host's listing: the note on inventoryCache in  *)
(* container.repository.ts.                                                *)
AnswerIsAboutTheAsker == \A a \in Answers : a.answer.about = a.about

(* The age of what callers see is bounded: the daemon was read no longer   *)
(* than ttlMs and one answer's travel before the question.                 *)
AgeBounded == \A a \in Answers : a.askedAt <= a.answer.readAt + TtlMs + Latency

(* What was stored when a key was invalidated is gone for everyone who     *)
(* asks afterwards.  (A flight then in the air is not: it stores what it   *)
(* read before.)                                                           *)
InvalidationForgets ==
    \A a \in Answers : a.from = NoFlight => a.answer.landEpoch = a.askedEpoch

(* Nobody waits for nothing: an unanswered call shares a flight that is    *)
(* still in the air and will answer it.  Whoever asks after a failure is   *)
(* not given the failed flight.                                            *)
WaitsForAFlight ==
    \A c \in Caller : call[c] # Absent /\ call[c].answer = Absent =>
        call[c].from \in UNION {InTheAir(k) : k \in Key}

(* The two Maps agree with the flights, and the callers wait for flights.  *)
CacheInv == TypeOK /\ OneFlightPerKey /\ WaitsForAFlight
=============================================================================
