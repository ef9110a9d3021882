------------------------- MODULE MeasurementSeries -------------------------
(***************************************************************************)
(* What measurement.repository.ts promises of a volume's measurements,     *)
(* with no rounds, queues or crashes in it: a series that is only ever     *)
(* appended to, with the present time.  What has left the window may be    *)
(* dropped, in any portion, but never without something newer that stays.  *)
(*                                                                         *)
(* So the last size of a volume is never lost and never gets older, and a  *)
(* chart of the window misses no measurement.                              *)
(***************************************************************************)
EXTENDS Naturals

CONSTANTS Key, Retention

VARIABLES clock, series   \* <<k, t>>: k was measured at time t

seriesVars == <<clock, series>>

Init == clock = 0 /\ series = {}

Advance == clock' = clock + 1 /\ UNCHANGED series

Record(k) == series' = series \cup {<<k, clock>>} /\ UNCHANGED clock

Expired(t) == t + Retention < clock

Trim ==
    /\ UNCHANGED clock
    /\ series' \subseteq series
    /\ \A lost \in series \ series' :
          /\ Expired(lost[2])
          /\ \E kept \in series' : kept[1] = lost[1] /\ lost[2] < kept[2]

Next == Advance \/ Trim \/ \E k \in Key : Record(k)

Spec == Init /\ [][Next]_seriesVars
=============================================================================
