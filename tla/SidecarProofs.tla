---------------------------- MODULE SidecarProofs ----------------------------
(***************************************************************************)
(* Proofs about Sidecar, for all scans, with and without pulls and socket  *)
(* timeouts, and any number of image checks, changed hosts and restarts.   *)
(*                                                                         *)
(* A container and the run it belongs to fail independently: the invariant *)
(* says what a run's stage and its container still have to do with one     *)
(* another, which checks of the image can still be in the air, and what    *)
(* the sweep has yet to look at.                                           *)
(*                                                                         *)
(* The second half is about ScanProbe: what the probe in such a container  *)
(* prints and what the parser makes of it, and the walk that replaces it.  *)
(* A measurement is a sum that is built up while it can be cut off at any  *)
(* point; the invariant says what of it has been accounted for so far.     *)
(***************************************************************************)
EXTENDS Sidecar, ScanProbe, FiniteSetTheorems, SequenceTheorems, TLAPS

Early == {"idle", "checking", "creating"}

Stage == Early \cup {"starting", "waiting", "killing", "settling", "logging",
                     "loggingLate", "removing", "done", "dead"}

Reaper ==
    [pc : {"down", "listing", "reaping", "skipped"},
     strays : SUBSET Run, refused : SUBSET Run]

RunRecord ==
    [pc : Stage,
     boot : 0..MaxBoots, check : 0..MaxChecks,
     result : {"none", "measured", "timedOut", "failed"},
     excused : BOOLEAN]

State == {"none", "created", "running", "ended", "died"}

Types == TypeOK /\ Len(check) <= MaxChecks /\ (~ up => boots < MaxBoots)

\* A run that has not come to createContainer has no sidecar; one that is
\* over has one only for an excuse.
Fits(x, state) ==
    /\ x.pc \in Early => state = "none"
    /\ x.pc = "done" /\ state # "none" => x.excused

Fit == \A r \in Run : Fits(run[r], container[r])

\* Checks in the air that the host's entry does not hold: forgetImage() has
\* orphaned each of them.
OrphansOK == IsFiniteSet(InTheAir) /\ Cardinality(InTheAir \ {imageReady}) <= forgets

\* The sweep still has to remove, or was refused, what is left of the dead.
Swept ==
    up /\ reaper.pc = "reaping" =>
        \A r \in Run : run[r].pc = "dead" /\ container[r] # "none"
                           => r \in reaper.strays \cup reaper.refused

IInv == Types /\ Fit /\ OrphansOK /\ Swept

-----------------------------------------------------------------------------
(* The shared check of the image.                                          *)

LEMMA CheckType ==
    ASSUME IInv
    PROVE  /\ check \in Seq({"inspecting", "pulling", "ok", "failed", "lost"})
           /\ Len(check) \in Nat /\ DOMAIN check = 1 .. Len(check) /\ Len(check) <= MaxChecks
           /\ imageReady \in 0 .. Len(check) /\ forgets \in Nat
           /\ run \in [Run -> RunRecord] /\ container \in [Run -> State] /\ reaper \in Reaper
BY SidecarOptions DEF Reaper, IInv, Types, TypeOK, RunRecord, Stage, Early, State

\* At most one more check is in the air than the host's entry says.
LEMMA AirBound ==
    ASSUME IInv
    PROVE  /\ Cardinality(InTheAir) \in Nat /\ Cardinality(InTheAir \ {imageReady}) \in Nat
           /\ Cardinality(InTheAir) <= 1 + forgets
           /\ imageReady = NoCheck => Cardinality(InTheAir) <= forgets
           /\ \A k \in InTheAir : Cardinality(InTheAir \ {k}) <= forgets
<1>1. IsFiniteSet(InTheAir) /\ forgets \in Nat /\ NoCheck \notin InTheAir
  BY CheckType DEF IInv, OrphansOK, InTheAir, NoCheck
<1>2. \A x : /\ IsFiniteSet(InTheAir \ {x}) /\ Cardinality(InTheAir \ {x}) \in Nat
             /\ Cardinality(InTheAir \ {x}) = IF x \in InTheAir THEN Cardinality(InTheAir) - 1
                                              ELSE Cardinality(InTheAir)
  BY <1>1, FS_RemoveElement, FS_CardinalityType
<1>3. Cardinality(InTheAir) \in Nat /\ Cardinality(InTheAir \ {imageReady}) <= forgets
  BY <1>1, FS_CardinalityType DEF IInv, OrphansOK
<1> QED BY <1>1, <1>2, <1>3

\* Steps of the checks: runs that begin come to "checking", and no further.
LEMMA ChecksStep ==
    ASSUME IInv, UNCHANGED <<up, boots, container, reaper>>,
           TypeOK', Len(check') <= MaxChecks, OrphansOK',
           \A r \in Run : run'[r] = run[r] \/ (run[r].pc = "idle" /\ run'[r].pc = "checking")
    PROVE  IInv'
<1>1. Types'
  BY DEF IInv, Types
<1>2. Fit'
  BY DEF IInv, Fit, Fits, Early
<1>3. Swept'
  BY DEF IInv, Swept
<1> QED BY <1>1, <1>2, <1>3 DEF IInv

LEMMA BeginInv ==
    ASSUME IInv, NEW r \in Run, Begin(r)
    PROVE  IInv'
<1>1. /\ run[r].pc = "idle"
      /\ UNCHANGED <<up, boots, image, forgets, container, reaper>>
      /\ run' = [run EXCEPT ![r].pc = "checking", ![r].boot = boots, ![r].check = imageReady']
  BY DEF Begin, process
<1>2. \/ imageReady # NoCheck /\ UNCHANGED <<check, imageReady>>
      \/ /\ imageReady = NoCheck /\ Len(check) < MaxChecks
         /\ check' = Append(check, "inspecting") /\ imageReady' = Len(check')
  BY DEF Begin
<1>3. /\ check' \in Seq({"inspecting", "pulling", "ok", "failed", "lost"})
      /\ Len(check') <= MaxChecks /\ Len(check') \in Nat /\ imageReady' \in 0 .. Len(check')
  BY <1>2, CheckType, SidecarOptions
<1>4. /\ run' \in [Run -> RunRecord]
      /\ \A s \in Run : run'[s] = run[s] \/ (run[s].pc = "idle" /\ run'[s].pc = "checking")
  <2>1. imageReady' \in 0 .. MaxChecks /\ boots \in 0 .. MaxBoots
    BY <1>3, SidecarOptions DEF IInv, Types, TypeOK
  <2> DEFINE x == [run[r] EXCEPT !.pc = "checking", !.boot = boots, !.check = imageReady']
  <2>2. x \in RunRecord /\ x.pc = "checking"
    BY <2>1, CheckType DEF RunRecord, Stage, Early
  <2>3. run' = [run EXCEPT ![r] = x]
    BY <1>1, CheckType DEF RunRecord
  <2> HIDE DEF x
  <2> QED BY <1>1, <2>2, <2>3, CheckType
<1>5. TypeOK'
  BY <1>1, <1>3, <1>4 DEF IInv, Types, TypeOK, RunRecord, Stage, Early
<1>6. OrphansOK'
  <2>1. CASE UNCHANGED <<check, imageReady>>
    BY <1>1, <2>1 DEF IInv, OrphansOK, InTheAir
  <2>2. CASE imageReady = NoCheck /\ check' = Append(check, "inspecting") /\ imageReady' = Len(check')
    <3>1. InTheAir' = InTheAir \cup {imageReady'} /\ imageReady' \notin InTheAir
      BY <2>2, CheckType DEF InTheAir
    <3>2. InTheAir' \ {imageReady'} = InTheAir
      BY <3>1
    <3>3. IsFiniteSet(InTheAir')
      BY <3>1, FS_AddElement DEF IInv, OrphansOK
    <3> QED BY <1>1, <2>2, <3>2, <3>3, AirBound DEF OrphansOK
  <2> QED BY <1>2, <2>1, <2>2
<1> QED BY <1>1, <1>3, <1>4, <1>5, <1>6, ChecksStep

\* A check in the air gets a new state.
LEMMA CheckImageInv ==
    ASSUME IInv, NEW k \in DOMAIN check, CheckImage(k)
    PROVE  IInv'
<1>1. /\ check[k] \in {"inspecting", "pulling"} /\ k \in InTheAir
      /\ UNCHANGED <<up, boots, forgets, run, container, reaper>>
  BY DEF CheckImage, InspectImage, PullImage, InTheAir, process
<1>2. PICK state \in {"ok", "pulling", "failed"} :
         /\ check' = [check EXCEPT ![k] = state]
         /\ imageReady' = IF state = "failed" THEN NoCheck ELSE imageReady
  BY DEF CheckImage, InspectImage, PullImage, FailCheck
<1>3. image' \in BOOLEAN
  BY DEF CheckImage, InspectImage, PullImage, IInv, Types, TypeOK
<1>4. /\ check' \in Seq({"inspecting", "pulling", "ok", "failed", "lost"})
      /\ Len(check') = Len(check) /\ DOMAIN check' = DOMAIN check
      /\ check'[k] = state /\ \A j \in DOMAIN check : j # k => check'[j] = check[j]
  BY <1>2, CheckType
<1>5. imageReady' \in 0 .. Len(check)
  BY <1>2, CheckType DEF NoCheck
<1>6. TypeOK' /\ Len(check') <= MaxChecks
  BY <1>1, <1>3, <1>4, <1>5, CheckType DEF IInv, Types, TypeOK
<1>7. InTheAir' = IF state = "pulling" THEN InTheAir ELSE InTheAir \ {k}
  BY <1>1, <1>4 DEF InTheAir
<1>8. IsFiniteSet(InTheAir')
  BY <1>7, FS_RemoveElement DEF IInv, OrphansOK
<1>9. Cardinality(InTheAir' \ {imageReady'}) <= forgets
  <2>1. CASE state = "pulling"
    BY <1>2, <1>7, <2>1 DEF IInv, OrphansOK
  <2>2. CASE state = "failed"
    <3>1. InTheAir' \ {imageReady'} = InTheAir \ {k}
      BY <1>2, <1>7, <2>2, CheckType DEF InTheAir, NoCheck
    <3> QED BY <1>1, <3>1, AirBound
  <2>3. CASE state = "ok"
    <3>1. InTheAir' \ {imageReady'} = (InTheAir \ {imageReady}) \ {k}
      BY <1>2, <1>7, <2>3
    <3>2. IsFiniteSet(InTheAir \ {imageReady})
      BY FS_RemoveElement DEF IInv, OrphansOK
    <3>3. Cardinality((InTheAir \ {imageReady}) \ {k}) <= Cardinality(InTheAir \ {imageReady})
      BY <3>2, FS_Subset
    <3>4. Cardinality((InTheAir \ {imageReady}) \ {k}) \in Nat
      BY <3>2, FS_RemoveElement, FS_CardinalityType
    <3>5. /\ Cardinality(InTheAir \ {imageReady}) <= forgets /\ forgets \in Nat
          /\ Cardinality(InTheAir \ {imageReady}) \in Nat
      BY AirBound, CheckType DEF IInv, OrphansOK
    <3> QED BY <3>1, <3>3, <3>4, <3>5
  <2> QED BY <2>1, <2>2, <2>3
<1>10. OrphansOK'
  BY <1>1, <1>8, <1>9 DEF OrphansOK
<1> QED BY <1>1, <1>6, <1>10, ChecksStep

LEMMA ForgetImageInv ==
    ASSUME IInv, ForgetImage
    PROVE  IInv'
<1>1. /\ forgets < MaxForgets /\ forgets' = forgets + 1 /\ imageReady' = NoCheck
      /\ UNCHANGED <<up, boots, image, check, run, container, reaper>>
  BY DEF ForgetImage, process
<1>2. TypeOK' /\ Len(check') <= MaxChecks
  BY <1>1, CheckType, SidecarOptions DEF IInv, Types, TypeOK, NoCheck
<1>3. InTheAir' = InTheAir /\ InTheAir \ {imageReady'} = InTheAir
  BY <1>1, CheckType DEF InTheAir, NoCheck
<1>4. IsFiniteSet(InTheAir) /\ Cardinality(InTheAir) <= 1 + forgets /\ forgets \in Nat
  BY AirBound, CheckType DEF IInv, OrphansOK
<1>5. InTheAir' \ {imageReady'} = InTheAir /\ forgets' = 1 + forgets
  BY <1>1, <1>3, <1>4
<1>6. OrphansOK'
  BY <1>3, <1>4, <1>5 DEF OrphansOK
<1> QED BY <1>1, <1>2, <1>6, ChecksStep

LEMMA PruneImageInv ==
    ASSUME IInv, PruneImage
    PROVE  IInv'
<1>1. /\ image' = FALSE
      /\ UNCHANGED <<up, boots, imageReady, check, forgets, run, container, reaper>>
  BY DEF PruneImage, process
<1>2. TypeOK' /\ Len(check') <= MaxChecks
  BY <1>1 DEF IInv, Types, TypeOK
<1>3. OrphansOK'
  BY <1>1 DEF IInv, OrphansOK, InTheAir
<1> QED BY <1>1, <1>2, <1>3, ChecksStep

-----------------------------------------------------------------------------
(* The runs and their containers.                                          *)

\* A step of one run or of its container.
LEMMA RunStep ==
    ASSUME IInv, NEW r \in Run,
           UNCHANGED Others,
           run' \in [Run -> RunRecord], container' \in [Run -> State],
           \A s \in Run : s # r => run'[s] = run[s] /\ container'[s] = container[s],
           Fits(run'[r], container'[r]),
           run'[r].pc = "dead" => run[r].pc = "dead"
                                  /\ (container'[r] # "none" => container[r] # "none")
    PROVE  IInv'
<1>1. UNCHANGED <<up, boots, image, imageReady, check, forgets, reaper>>
  BY DEF Others, process, checks
<1>2. Types'
  BY <1>1 DEF IInv, Types, TypeOK, RunRecord, Stage, Early, State
<1>3. Fit'
  BY DEF IInv, Fit, Fits
<1>4. OrphansOK'
  BY <1>1 DEF IInv, OrphansOK, InTheAir
<1>5. Swept'
  BY <1>1 DEF IInv, Swept
<1> QED BY <1>2, <1>3, <1>4, <1>5 DEF IInv

LEMMA StepType ==
    ASSUME IInv, NEW r \in Run, NEW from, NEW to \in Stage, Step(r, from, to)
    PROVE  /\ run[r].pc = from /\ run' \in [Run -> RunRecord] /\ run'[r].pc = to
           /\ \A s \in Run : s # r => run'[s] = run[s]
BY CheckType DEF Step, RunRecord

LEMMA OverType ==
    ASSUME IInv, NEW r \in Run, NEW result \in {"none", "measured", "timedOut", "failed"},
           NEW excused \in BOOLEAN, Over(r, result, excused)
    PROVE  /\ run' \in [Run -> RunRecord] /\ run'[r].pc = "done"
           /\ run'[r].result = result /\ run'[r].excused = excused
           /\ \A s \in Run : s # r => run'[s] = run[s]
<1> DEFINE x == [run[r] EXCEPT !.pc = "done", !.result = result, !.excused = excused]
<1>1. x \in RunRecord /\ x.pc = "done" /\ x.result = result /\ x.excused = excused
  BY CheckType DEF RunRecord, Stage
<1>2. run' = [run EXCEPT ![r] = x]
  BY CheckType DEF Over, RunRecord
<1> HIDE DEF x
<1> QED BY <1>1, <1>2, CheckType

\* Steps of a run that has, or may have, its container.
LEMMA MovesOn ==
    ASSUME IInv, NEW r \in Run, NEW from, NEW to \in Stage \ (Early \cup {"done", "dead"}),
           Step(r, from, to), UNCHANGED Others,
           \/ container' = container
           \/ \E state \in State : container' = [container EXCEPT ![r] = state]
    PROVE  IInv'
<1>1. /\ run' \in [Run -> RunRecord] /\ run'[r].pc = to
      /\ \A s \in Run : s # r => run'[s] = run[s]
  BY StepType
<1>2. container' \in [Run -> State] /\ \A s \in Run : s # r => container'[s] = container[s]
  BY CheckType
<1>3. Fits(run'[r], container'[r]) /\ run'[r].pc # "dead"
  BY <1>1 DEF Fits
<1> QED BY <1>1, <1>2, <1>3, RunStep

LEMMA AwaitImageInv ==
    ASSUME IInv, NEW r \in Run, AwaitImage(r)
    PROVE  IInv'
<1>1. run[r].pc = "checking" /\ UNCHANGED <<container, Others>> /\ container[r] = "none"
  BY DEF AwaitImage, IInv, Fit, Fits, Early
<1>2. Step(r, "checking", "creating") \/ Over(r, "failed", FALSE)
  BY DEF AwaitImage
<1>3. /\ run' \in [Run -> RunRecord] /\ run'[r].pc # "dead"
      /\ \A s \in Run : s # r => run'[s] = run[s]
  <2>1. CASE Step(r, "checking", "creating")
    <3>1. "creating" \in Stage
      BY DEF Stage, Early
    <3> QED BY <2>1, <3>1, StepType
  <2>2. CASE Over(r, "failed", FALSE)
    BY <2>2, OverType
  <2> QED BY <1>2, <2>1, <2>2
<1>4. Fits(run'[r], container'[r])
  BY <1>1 DEF Fits
<1> QED BY <1>1, <1>3, <1>4, CheckType, RunStep

LEMMA CreateInv ==
    ASSUME IInv, NEW r \in Run, Create(r)
    PROVE  IInv'
<1>1. run[r].pc = "creating" /\ UNCHANGED Others /\ container[r] = "none"
  BY DEF Create, IInv, Fit, Fits, Early
<1>2. CASE Over(r, "failed", FALSE) /\ UNCHANGED container
  <2>1. Fits(run'[r], container'[r])
    BY <1>1, <1>2 DEF Fits
  <2> QED BY <1>1, <1>2, <2>1, CheckType, OverType, RunStep
<1>3. CASE container' = [container EXCEPT ![r] = "created"] /\ Step(r, "creating", "starting")
  BY <1>1, <1>3, MovesOn DEF Stage, Early, State
<1>4. CASE container' = [container EXCEPT ![r] = "created"] /\ Over(r, "failed", TRUE)
  <2>1. run'[r].pc = "done" /\ run'[r].excused
    BY <1>4, OverType
  <2>2. Fits(run'[r], container'[r])
    BY <2>1 DEF Fits, Early
  <2>3. container' \in [Run -> State] /\ \A s \in Run : s # r => container'[s] = container[s]
    BY <1>4, CheckType DEF State
  <2> QED BY <1>1, <1>4, <2>1, <2>2, <2>3, OverType, RunStep
<1> QED BY <1>2, <1>3, <1>4 DEF Create

LEMMA StartInv ==
    ASSUME IInv, NEW r \in Run, Start(r)
    PROVE  IInv'
<1>1. /\ Step(r, "starting", "waiting") \/ Step(r, "starting", "removing")
      /\ \/ container' = container
         \/ \E state \in State : container' = [container EXCEPT ![r] = state]
      /\ UNCHANGED Others
  BY DEF Start, State
<1> QED BY <1>1, MovesOn DEF Stage, Early

LEMMA WaitInv ==
    ASSUME IInv, NEW r \in Run, Waited(r) \/ Expire(r) \/ AwaitExit(r)
    PROVE  IInv'
<1>1. /\ UNCHANGED Others /\ container' = container
      /\ \/ Step(r, "waiting", "logging") \/ Step(r, "waiting", "removing")
         \/ Step(r, "waiting", "killing") \/ Step(r, "settling", "loggingLate")
  BY DEF Waited, Expire, AwaitExit
<1> QED BY <1>1, MovesOn DEF Stage, Early

LEMMA KillInv ==
    ASSUME IInv, NEW r \in Run, Kill(r)
    PROVE  IInv'
<1>1. /\ UNCHANGED Others /\ Step(r, "killing", "settling")
      /\ \/ container' = container
         \/ container' = [container EXCEPT ![r] = IF @ = "running" THEN "died" ELSE @]
  BY DEF Kill
<1>2. (IF container[r] = "running" THEN "died" ELSE container[r]) \in State
  BY CheckType DEF State
<1> QED BY <1>1, <1>2, MovesOn DEF Stage, Early

LEMMA LogsInv ==
    ASSUME IInv, NEW r \in Run, Logs(r)
    PROVE  IInv'
<1>1. /\ run[r].pc \in {"logging", "loggingLate"} /\ UNCHANGED <<container, Others>>
      /\ \/ run' = [run EXCEPT ![r].pc = "removing"]
         \/ run' = [run EXCEPT ![r].pc = "removing", ![r].result = Verdict(r)]
  BY DEF Logs
<1>2. Verdict(r) \in {"none", "measured", "timedOut", "failed"}
  BY DEF Verdict
<1>3. /\ run' \in [Run -> RunRecord] /\ run'[r].pc = "removing"
      /\ \A s \in Run : s # r => run'[s] = run[s]
  <2>1. CASE run' = [run EXCEPT ![r].pc = "removing"]
    BY <2>1, CheckType DEF RunRecord, Stage
  <2>2. CASE run' = [run EXCEPT ![r].pc = "removing", ![r].result = Verdict(r)]
    <3> DEFINE x == [run[r] EXCEPT !.pc = "removing", !.result = Verdict(r)]
    <3>1. x \in RunRecord /\ x.pc = "removing"
      BY <1>2, CheckType DEF RunRecord, Stage
    <3>2. run' = [run EXCEPT ![r] = x]
      BY <2>2, CheckType DEF RunRecord
    <3> HIDE DEF x
    <3> QED BY <3>1, <3>2, CheckType
  <2> QED BY <1>1, <2>1, <2>2
<1>4. Fits(run'[r], container'[r])
  BY <1>3 DEF Fits, Early
<1> QED BY <1>1, <1>3, <1>4, CheckType, RunStep

LEMMA RemoveInv ==
    ASSUME IInv, NEW r \in Run, Remove(r)
    PROVE  IInv'
<1>1. run[r].pc = "removing" /\ UNCHANGED Others
  BY DEF Remove
<1>2. PICK outcome \in {"none", "measured", "timedOut", "failed"} :
         \/ container' = [container EXCEPT ![r] = "none"] /\ Over(r, outcome, FALSE)
         \/ UNCHANGED container /\ Over(r, outcome, Exists(r))
  BY CheckType DEF Remove, RunRecord
<1>3. CASE container' = [container EXCEPT ![r] = "none"] /\ Over(r, outcome, FALSE)
  <2>1. /\ container' \in [Run -> State] /\ container'[r] = "none"
        /\ \A s \in Run : s # r => container'[s] = container[s]
    BY <1>3, CheckType DEF State
  <2>2. Fits(run'[r], container'[r])
    BY <2>1 DEF Fits
  <2> QED BY <1>1, <1>3, <2>1, <2>2, OverType, RunStep
<1>4. CASE UNCHANGED container /\ Over(r, outcome, Exists(r))
  <2>1. PICK excused \in BOOLEAN : excused <=> Exists(r)
    <3>1. CASE Exists(r)
      BY <3>1
    <3>2. CASE ~ Exists(r)
      BY <3>2
    <3> QED BY <3>1, <3>2
  <2>2. Over(r, outcome, excused)
    <3>1. excused = Exists(r)
      BY <2>1 DEF Exists
    <3> QED BY <1>4, <3>1
  <2>3. run'[r].pc = "done" /\ run'[r].excused = excused
    BY <2>2, OverType
  <2>4. container'[r] # "none" => excused
    BY <1>4, <2>1, CheckType DEF Exists, State
  <2>5. Fits(run'[r], container'[r])
    BY <2>3, <2>4 DEF Fits, Early
  <2> QED BY <1>1, <1>4, <2>2, <2>3, <2>5, CheckType, OverType, RunStep
<1> QED BY <1>2, <1>3, <1>4

LEMMA ExitInv ==
    ASSUME IInv, NEW r \in Run, Exit(r)
    PROVE  IInv'
<1>1. /\ container[r] = "running" /\ UNCHANGED run /\ UNCHANGED Others
      /\ \E state \in {"ended", "died"} : container' = [container EXCEPT ![r] = state]
  BY DEF Exit, Others
<1>2. container' \in [Run -> State] /\ \A s \in Run : s # r => container'[s] = container[s]
  BY <1>1, CheckType DEF State
<1>3. Fits(run'[r], container'[r])
  BY <1>1 DEF IInv, Fit, Fits
<1> QED BY <1>1, <1>2, <1>3, CheckType, RunStep

-----------------------------------------------------------------------------
(* Crash, restart and sweep.                                               *)

LEMMA CrashInv ==
    ASSUME IInv, Crash
    PROVE  IInv'
<1>1. /\ up' = FALSE /\ imageReady' = NoCheck
      /\ check' = [k \in DOMAIN check |-> IF k \in InTheAir THEN "lost" ELSE check[k]]
      /\ run' = [r \in Run |-> IF InProgress(r) THEN [run[r] EXCEPT !.pc = "dead"] ELSE run[r]]
      /\ reaper' = [pc |-> "down", strays |-> {}, refused |-> {}]
      /\ boots < MaxBoots /\ UNCHANGED <<boots, image, forgets>>
  BY DEF Crash
<1>2. PICK late \in SUBSET {r \in Run : image /\ run[r].pc = "creating"} :
         container' = [r \in Run |-> IF r \in late THEN "created" ELSE container[r]]
  BY DEF Crash
<1>3. /\ check' \in Seq({"inspecting", "pulling", "ok", "failed", "lost"})
      /\ Len(check') = Len(check) /\ InTheAir' = {}
  BY <1>1, CheckType DEF InTheAir
<1>4. /\ run' \in [Run -> RunRecord]
      /\ \A r \in Run : run'[r].pc = "dead" \/ (run'[r] = run[r] /\ ~ InProgress(r))
  <2>1. \A r \in Run : [run[r] EXCEPT !.pc = "dead"] \in RunRecord
    BY CheckType DEF RunRecord, Stage
  <2> QED BY <1>1, <2>1, CheckType DEF RunRecord
<1>5. container' \in [Run -> State]
  BY <1>2, CheckType DEF State
<1>6. reaper' \in Reaper
  BY <1>1 DEF Reaper
<1>7. imageReady' \in 0 .. Len(check')
  BY <1>1, <1>3, CheckType DEF NoCheck
<1>8. Types'
  BY <1>1, <1>3, <1>4, <1>5, <1>6, <1>7
     DEF IInv, Types, TypeOK, RunRecord, Stage, Early, State, Reaper
<1>9. Fit'
  <2> SUFFICES ASSUME NEW r \in Run PROVE Fits(run'[r], container'[r])
    BY DEF Fit
  <2>1. CASE run'[r].pc = "dead"
    BY <2>1 DEF Fits, Early
  <2>2. CASE run'[r] = run[r] /\ ~ InProgress(r)
    BY <1>2, <2>2 DEF IInv, Fit, Fits, InProgress
  <2> QED BY <1>4, <2>1, <2>2
<1>10. OrphansOK'
  <2>1. IsFiniteSet({}) /\ Cardinality({}) = 0 /\ InTheAir' \ {imageReady'} = {}
    BY <1>3, FS_EmptySet
  <2> QED BY <1>1, <1>3, <2>1, CheckType DEF OrphansOK
<1>11. Swept'
  BY <1>1 DEF Swept
<1> QED BY <1>8, <1>9, <1>10, <1>11 DEF IInv

LEMMA BootInv ==
    ASSUME IInv, Boot
    PROVE  IInv'
<1>1. /\ boots' = boots + 1 /\ up' = TRUE
      /\ reaper' = [reaper EXCEPT !.pc = "listing"]
      /\ UNCHANGED <<image, imageReady, check, forgets, run, container>>
  BY DEF Boot, checks
<1>2. boots' \in 1 .. MaxBoots
  BY <1>1, SidecarOptions DEF Boot, IInv, Types, TypeOK
<1>3. Types' /\ reaper'.pc = "listing"
  BY <1>1, <1>2 DEF IInv, Types, TypeOK
<1>4. Fit' /\ OrphansOK' /\ Swept'
  BY <1>1, <1>3 DEF IInv, Fit, OrphansOK, InTheAir, Swept
<1> QED BY <1>3, <1>4 DEF IInv

LEMMA ReapListInv ==
    ASSUME IInv, ReapList
    PROVE  IInv'
<1>1. UNCHANGED <<up, boots, image, imageReady, check, forgets, run, container>>
  BY DEF ReapList, process, checks
<1>2. \/ reaper' = [reaper EXCEPT !.pc = "reaping", !.strays = Listed]
      \/ reaper' = [reaper EXCEPT !.pc = "skipped"]
  BY DEF ReapList
<1>3. /\ reaper' \in Reaper
      /\ reaper'.pc = "reaping" => reaper'.strays = Listed
  <2>1. reaper \in Reaper /\ Listed \in SUBSET Run
    BY CheckType DEF Listed
  <2> QED BY <1>2, <2>1 DEF Reaper
<1>4. Types' /\ Fit' /\ OrphansOK'
  BY <1>1, <1>3 DEF IInv, Types, TypeOK, Reaper, Fit, OrphansOK, InTheAir
<1>5. Swept'
  BY <1>1, <1>3, CheckType DEF Swept, Listed, Exists, State
<1> QED BY <1>4, <1>5 DEF IInv

LEMMA ReapOneInv ==
    ASSUME IInv, NEW r \in Run, ReapOne(r)
    PROVE  IInv'
<1>1. UNCHANGED <<up, boots, image, imageReady, check, forgets, run>>
  BY DEF ReapOne, process, checks
<1>2. \/ /\ container' = [container EXCEPT ![r] = "none"]
         /\ reaper' = [reaper EXCEPT !.strays = @ \ {r}]
      \/ /\ UNCHANGED container
         /\ reaper' = [reaper EXCEPT !.strays = @ \ {r}, !.refused = @ \cup {r}]
  BY DEF ReapOne
<1>3. /\ container' \in [Run -> State] /\ container'[r] \in {"none", container[r]}
      /\ \A s \in Run : s # r => container'[s] = container[s]
  BY <1>2, CheckType DEF State
<1>4. /\ reaper' \in Reaper
      /\ reaper'.pc = reaper.pc
      /\ reaper'.strays = reaper.strays \ {r} /\ reaper.refused \subseteq reaper'.refused
      /\ container'[r] = "none" \/ r \in reaper'.refused
  BY <1>2, CheckType DEF Reaper
<1>5. Types' /\ OrphansOK'
  BY <1>1, <1>3, <1>4 DEF IInv, Types, TypeOK, State, Reaper, OrphansOK, InTheAir
<1>6. Fit'
  BY <1>1, <1>3 DEF IInv, Fit, Fits
<1>7. Swept'
  BY <1>1, <1>3, <1>4 DEF IInv, Swept
<1> QED BY <1>5, <1>6, <1>7 DEF IInv

-----------------------------------------------------------------------------
(* The invariant is inductive.                                             *)

LEMMA InitInv == Init => IInv
<1> SUFFICES ASSUME Init PROVE IInv
  OBVIOUS
<1>1. /\ check = <<>> /\ Len(check) = 0 /\ imageReady = 0 /\ forgets = 0 /\ InTheAir = {}
      /\ check \in Seq({"inspecting", "pulling", "ok", "failed", "lost"})
  BY DEF Init, InTheAir, NoCheck
<1>2. run \in [Run -> RunRecord] /\ container \in [Run -> State]
  <2>1. 0 \in 0 .. MaxBoots /\ NoCheck \in 0 .. MaxChecks
    BY SidecarOptions DEF NoCheck
  <2> QED BY <2>1 DEF Init, RunRecord, Stage, Early, State
<1>3. up \in BOOLEAN /\ boots \in 1 .. MaxBoots /\ image \in BOOLEAN /\ forgets \in 0 .. MaxForgets
      /\ reaper \in Reaper
  BY SidecarOptions DEF Init, Reaper
<1>4. Types
  <2>1. Len(check) <= MaxChecks /\ imageReady \in 0 .. Len(check) /\ up
    BY <1>1, SidecarOptions DEF Init
  <2> QED BY <1>1, <1>2, <1>3, <2>1
          DEF Types, TypeOK, RunRecord, Stage, Early, State, Reaper
<1>5. Fit /\ Swept
  BY DEF Init, Fit, Fits, Swept
<1>6. OrphansOK
  <2>1. IsFiniteSet({}) /\ Cardinality({}) = 0 /\ InTheAir \ {imageReady} = {}
    BY <1>1, FS_EmptySet
  <2> QED BY <1>1, <2>1 DEF OrphansOK
<1> QED BY <1>4, <1>5, <1>6 DEF IInv

LEMMA AdvanceInv ==
    ASSUME IInv, NEW r \in Run, Advance(r)
    PROVE  IInv'
BY AwaitImageInv, CreateInv, StartInv, WaitInv, KillInv, LogsInv, RemoveInv DEF Advance

LEMMA StepInv == IInv /\ [Next]_vars => IInv'
<1> SUFFICES ASSUME IInv, [Next]_vars PROVE IInv'
  OBVIOUS
<1>1. ASSUME NEW r \in Run, Begin(r) \/ Advance(r) \/ Exit(r) \/ ReapOne(r) PROVE IInv'
  BY <1>1, BeginInv, AdvanceInv, ExitInv, ReapOneInv
<1>2. ASSUME NEW k \in DOMAIN check, CheckImage(k) PROVE IInv'
  BY <1>2, CheckImageInv
<1>3. CASE UNCHANGED vars
  BY <1>3 DEF vars, process, checks, IInv, Types, TypeOK, Fit, OrphansOK, InTheAir, Swept
<1> QED BY <1>1, <1>2, <1>3, ForgetImageInv, PruneImageInv, CrashInv, BootInv, ReapListInv
        DEF Next

\* Runs, containers, image checks and the sweep fit together, across crashes.
THEOREM Inductive == Spec => []IInv
BY InitInv, StepInv, PTL DEF Spec

-----------------------------------------------------------------------------
(* However scans begin, checks fail late and hosts are changed: at most as *)
(* many image checks are in the air as hosts were changed, and one.        *)
THEOREM SidecarInvariant == Spec => []SidecarInv
<1>1. IInv => SidecarInv
  BY AirBound DEF IInv, Types, SidecarInv, ChecksShared
<1> QED BY <1>1, Inductive, PTL

(* Whatever fails, and in whatever order, a run that is over has removed   *)
(* its container, unless the daemon did not tell it of the container or    *)
(* refused to remove it.                                                   *)
THEOREM Removed == Spec => []SidecarRemoved
<1>1. IInv => SidecarRemoved
  BY DEF IInv, Fit, Fits, SidecarRemoved, Exists
<1> QED BY <1>1, Inductive, PTL

(* After any number of crashes, in any stage of any run: a sweep that is   *)
(* through has left nothing of the dead that it was not refused.           *)
THEOREM DeadAreCleared == Spec => []ReaperClearsTheDead
<1>1. IInv => ReaperClearsTheDead
  BY DEF IInv, Swept, ReaperClearsTheDead, Exists
<1> QED BY <1>1, Inductive, PTL

-----------------------------------------------------------------------------
(* ScanProbe: the elements of a sequence at some indexes (Nth, At), which   *)
(* is how a directory is listed.                                           *)

\* How many of a set of indexes come before one.
Before(S, i) == Cardinality({j \in S : j < i})

\* Each element has a rank of its own.
LEMMA Ranks ==
  ASSUME NEW n \in Nat, NEW S \in SUBSET (1 .. n)
  PROVE  /\ IsFiniteSet(S) /\ Cardinality(S) \in Nat
         /\ \A i \in S : Before(S, i) \in 0 .. Cardinality(S) - 1
         /\ \A i, j \in S : i < j => Before(S, i) < Before(S, j)
<1>0. \A i \in S : i \in Nat
  OBVIOUS
<1>1. IsFiniteSet(1 .. n)
  BY FS_Interval
<1>2. IsFiniteSet(S) /\ Cardinality(S) \in Nat
  BY <1>1, FS_Subset, FS_CardinalityType
<1>3. ASSUME NEW i \in S
      PROVE  /\ IsFiniteSet({j \in S : j < i}) /\ Before(S, i) \in Nat
             /\ i \notin {j \in S : j < i}
  BY <1>2, FS_Subset, FS_CardinalityType, {j \in S : j < i} \in SUBSET S DEF Before
<1>4. ASSUME NEW i \in S, NEW T \in SUBSET S, {j \in S : j < i} \cup {i} \subseteq T
      PROVE  Before(S, i) < Cardinality(T)
  <2>1. /\ IsFiniteSet({j \in S : j < i} \cup {i})
        /\ Cardinality({j \in S : j < i} \cup {i}) = Before(S, i) + 1
    BY <1>3, FS_AddElement DEF Before
  <2>2. IsFiniteSet(T) /\ Cardinality(T) \in Nat
    BY <1>2, FS_Subset, FS_CardinalityType
  <2>3. Cardinality({j \in S : j < i} \cup {i}) <= Cardinality(T)
    BY <1>4, <2>2, FS_Subset
  <2>4. Before(S, i) \in Nat
    BY <1>3
  <2> QED BY <2>1, <2>2, <2>3, <2>4
<1>5. ASSUME NEW i \in S PROVE Before(S, i) \in 0 .. Cardinality(S) - 1
  <2>1. Before(S, i) < Cardinality(S)
    BY <1>3, <1>4
  <2>2. Before(S, i) \in Nat
    BY <1>3
  <2> QED BY <1>2, <2>1, <2>2
<1>6. ASSUME NEW i \in S, NEW k \in S, i < k PROVE Before(S, i) < Before(S, k)
  <2>1. {j \in S : j < i} \cup {i} \subseteq {j \in S : j < k}
    <3>1. i < k /\ i \in Nat /\ k \in Nat
      BY <1>0, <1>6
    <3>2. ASSUME NEW j \in S, j < i PROVE j < k
      BY <1>0, <3>1, <3>2
    <3> QED BY <3>1, <3>2
  <2>2. Before(S, i) < Cardinality({j \in S : j < k})
    BY <1>4, <2>1
  <2> QED BY <2>2 DEF Before
<1> QED BY <1>2, <1>5, <1>6

\* Every one of the first Cardinality(S) places is that of one element of S.
LEMMA NthIs ==
  ASSUME NEW n \in Nat, NEW S \in SUBSET (1 .. n)
  PROVE  /\ \A k \in 1 .. Cardinality(S) : Nth(S, k) \in S /\ Before(S, Nth(S, k)) = k - 1
         /\ \A i \in S : Nth(S, Before(S, i) + 1) = i
<1>1. /\ IsFiniteSet(S) /\ Cardinality(S) \in Nat
      /\ \A i \in S : Before(S, i) \in 0 .. Cardinality(S) - 1
      /\ \A i, j \in S : i < j => Before(S, i) < Before(S, j)
  BY Ranks
<1>2. \A i, j \in S : Before(S, i) = Before(S, j) => i = j
  <2>1. SUFFICES ASSUME NEW i \in S, NEW j \in S, i # j PROVE Before(S, i) # Before(S, j)
    OBVIOUS
  <2>2. i < j \/ j < i
    BY <2>1
  <2>3. Before(S, i) < Before(S, j) \/ Before(S, j) < Before(S, i)
    BY <1>1, <2>2
  <2> QED BY <1>1, <2>3
<1>3. PICK m \in Nat : m = Cardinality(S)
  BY <1>1
<1>4. PICK place : place = [i \in S |-> Before(S, i) + 1]
  OBVIOUS
<1>5. \A i \in S : place[i] \in 1 .. m
  BY <1>1, <1>3, <1>4
<1>6. place \in Injection(S, 1 .. m)
  <2>1. place \in [S -> 1 .. m]
    BY <1>4, <1>5
  <2>2. \A i, j \in S : place[i] = place[j] => i = j
    BY <1>1, <1>2, <1>4
  <2> QED BY <2>1, <2>2 DEF Injection, IsInjective
<1>7. IsFiniteSet(1 .. m) /\ Cardinality(1 .. m) = m
  BY FS_Interval
<1>8. place \in Surjection(S, 1 .. m)
  BY <1>1, <1>3, <1>6, <1>7, FS_Injection
<1>9. ASSUME NEW k \in 1 .. m
      PROVE  Nth(S, k) \in S /\ Before(S, Nth(S, k)) = k - 1
  <2>1. PICK i \in S : place[i] = k
    BY <1>8 DEF Surjection
  <2>2. Before(S, i) = k - 1
    BY <1>1, <1>4, <2>1
  <2> QED BY <2>2 DEF Nth, Before
<1>10. ASSUME NEW i \in S PROVE Nth(S, Before(S, i) + 1) = i
  <2>1. PICK k \in 1 .. m : k = Before(S, i) + 1
    BY <1>1, <1>3
  <2>2. Nth(S, k) \in S /\ Before(S, Nth(S, k)) = Before(S, i)
    BY <1>1, <1>9, <2>1
  <2> QED BY <1>2, <2>1, <2>2
<1> QED BY <1>3, <1>9, <1>10

\* The elements of a sequence at some indexes: each of them, and once if
\* the sequence has each of its elements once.
LEMMA AtIs ==
  ASSUME NEW V, NEW s \in Seq(V), NEW S \in SUBSET DOMAIN s
  PROVE  /\ At(S, s) \in Seq(V) /\ Len(At(S, s)) = Cardinality(S) /\ Cardinality(S) \in Nat
         /\ \A k \in 1 .. Cardinality(S) : \E i \in S : At(S, s)[k] = s[i]
         /\ \A i \in S : \E k \in 1 .. Cardinality(S) : At(S, s)[k] = s[i]
         /\ (\A i, j \in DOMAIN s : s[i] = s[j] => i = j)
              => \A j, k \in 1 .. Cardinality(S) : At(S, s)[j] = At(S, s)[k] => j = k
<1>1. PICK n \in Nat : DOMAIN s = 1 .. n /\ \A i \in 1 .. n : s[i] \in V
  BY LenProperties, ElementOfSeq
<1>2. S \in SUBSET (1 .. n)
  BY <1>1
<1>3. /\ \A k \in 1 .. Cardinality(S) : Nth(S, k) \in S /\ Before(S, Nth(S, k)) = k - 1
      /\ \A i \in S : Nth(S, Before(S, i) + 1) = i
  BY <1>2, NthIs
<1>4. Cardinality(S) \in Nat /\ \A i \in S : Before(S, i) \in 0 .. Cardinality(S) - 1
  BY <1>2, Ranks
<1>5. PICK m \in Nat : m = Cardinality(S)
  BY <1>4
<1>6. PICK a : a = At(S, s)
  OBVIOUS
<1>7. a = [k \in 1 .. m |-> s[Nth(S, k)]]
  BY <1>5, <1>6 DEF At
<1>8. \A k \in 1 .. m : Nth(S, k) \in S /\ a[k] = s[Nth(S, k)] /\ a[k] \in V
  BY <1>1, <1>2, <1>3, <1>5, <1>7
<1>9. a \in Seq(V) /\ Len(a) = m
  BY <1>7, <1>8
<1>10. ASSUME NEW i \in S PROVE \E k \in 1 .. m : a[k] = s[i]
  <2>1. Before(S, i) + 1 \in 1 .. m
    BY <1>4, <1>5
  <2> QED BY <1>3, <1>7, <2>1
<1>11. ASSUME \A i, j \in DOMAIN s : s[i] = s[j] => i = j,
              NEW j \in 1 .. m, NEW k \in 1 .. m, a[j] = a[k]
       PROVE  j = k
  <2>1. Nth(S, j) = Nth(S, k)
    BY <1>1, <1>2, <1>8, <1>11
  <2>2. j - 1 = k - 1
    BY <1>3, <1>5, <2>1
  <2> QED BY <2>2
<1> QED BY <1>4, <1>5, <1>6, <1>8, <1>9, <1>10, <1>11
-----------------------------------------------------------------------------
(* ScanProbe: what is in the volume, and that it adds up.                  *)

Places ==
    /\ tree \in [Child -> Entry] /\ cutTo \in [Child -> Child] /\ second \in [Child -> SecondLine]
    /\ target \in [local : BOOLEAN, allowed : BOOLEAN, readable : BOOLEAN]
    /\ request \in [mode : {"measure"}, path : {Root}]
                  \cup [mode : {"list"}, path : {Root} \cup {c \in Child : cutTo[c] = c}]

\* Blocks is a measure: of finite sets, monotone and additive.
LEMMA BlocksAdd ==
  ASSUME NEW A, NEW B, IsFiniteSet(A), IsFiniteSet(B)
  PROVE  /\ Blocks(A) \in Nat
         /\ A \subseteq B => Blocks(A) <= Blocks(B)
         /\ A \cap B = {} => Blocks(A \cup B) = Blocks(A) + Blocks(B)
<1>1. ASSUME NEW S, IsFiniteSet(S)
      PROVE  /\ IsFiniteSet(S \cap {Shared})
             /\ Cardinality(S) \in Nat /\ Cardinality(S \cap {Shared}) \in Nat
  BY <1>1, FS_Intersection, FS_CardinalityType
<1>2. Blocks(A) \in Nat
  <2>1. Cardinality(A) \in Nat /\ Cardinality(A \cap {Shared}) \in Nat
    BY <1>1
  <2> QED BY <2>1 DEF Blocks
<1>3. ASSUME A \subseteq B PROVE Blocks(A) <= Blocks(B)
  <2>1. Cardinality(A) <= Cardinality(B)
    BY <1>3, FS_Subset
  <2>2. Cardinality(A \cap {Shared}) <= Cardinality(B \cap {Shared})
    BY <1>1, <1>3, FS_Subset, A \cap {Shared} \in SUBSET (B \cap {Shared})
  <2>3. /\ Cardinality(A) \in Nat /\ Cardinality(A \cap {Shared}) \in Nat
        /\ Cardinality(B) \in Nat /\ Cardinality(B \cap {Shared}) \in Nat
    BY <1>1
  <2> QED BY <2>1, <2>2, <2>3 DEF Blocks
<1>4. ASSUME A \cap B = {} PROVE Blocks(A \cup B) = Blocks(A) + Blocks(B)
  <2>1. Cardinality(A \cup B) = Cardinality(A) + Cardinality(B)
    <3>1. Cardinality(A \cup B) = Cardinality(A) + Cardinality(B) - Cardinality(A \cap B)
      BY FS_Union
    <3>2. Cardinality(A \cap B) = 0
      BY <1>4, FS_EmptySet
    <3>3. Cardinality(A) \in Nat /\ Cardinality(B) \in Nat
      BY <1>1
    <3> QED BY <3>1, <3>2, <3>3
  <2> DEFINE a == A \cap {Shared}
             b == B \cap {Shared}
  <2>2. (A \cup B) \cap {Shared} = a \cup b /\ a \cap b = {}
    BY <1>4
  <2>3. Cardinality(a \cup b) = Cardinality(a) + Cardinality(b)
    <3>1. Cardinality(a \cup b) = Cardinality(a) + Cardinality(b) - Cardinality(a \cap b)
      BY <1>1, FS_Union
    <3>2. Cardinality(a \cap b) = 0
      BY <2>2, FS_EmptySet
    <3>3. Cardinality(a) \in Nat /\ Cardinality(b) \in Nat
      BY <1>1
    <3> QED BY <3>1, <3>2, <3>3
  <2>4. Cardinality((A \cup B) \cap {Shared}) = Cardinality(A \cap {Shared}) + Cardinality(B \cap {Shared})
    BY <2>2, <2>3
  <2>5. /\ Cardinality(A) \in Nat /\ Cardinality(A \cap {Shared}) \in Nat
        /\ Cardinality(B) \in Nat /\ Cardinality(B \cap {Shared}) \in Nat
    BY <1>1
  <2> QED BY <2>1, <2>4, <2>5 DEF Blocks
<1> QED BY <1>2, <1>3, <1>4

\* Finitely many finite sets.
LEMMA UnionIsFinite ==
  ASSUME NEW D, IsFiniteSet(D), NEW f, \A d \in D : IsFiniteSet(f[d])
  PROVE  IsFiniteSet(UNION {f[d] : d \in D})
<1>1. PICK values : values = {f[d] : d \in D}
  OBVIOUS
<1>2. PICK g : g = [d \in D |-> f[d]]
  OBVIOUS
<1>3. g \in Surjection(D, values)
  BY <1>1, <1>2 DEF Surjection
<1>4. IsFiniteSet(values)
  BY <1>3, FS_Surjection
<1>5. \A T \in values : IsFiniteSet(T)
  BY <1>1
<1> QED BY <1>1, <1>4, <1>5, FS_UNION

\* ProbeOptions, for the sequence and for the set of its elements.
LEMMA ChildrenAre ==
  /\ Children \in Seq(Child) /\ Root \notin Child /\ IsFiniteSet(Child)
  /\ Elsewhere \notin Child /\ Elsewhere # Root
  /\ \A i, j \in DOMAIN Children : Children[i] = Children[j] => i = j
  /\ \A c \in Child : \E i \in DOMAIN Children : Children[i] = c
  /\ \A i \in DOMAIN Children : Children[i] \in Child
<1>1. PICK C : C = Child
  OBVIOUS
<1>2. /\ Children \in Seq(C) /\ Root \notin C /\ Elsewhere \notin C
      /\ \A i, j \in DOMAIN Children : Children[i] = Children[j] => i = j
  BY <1>1, ProbeOptions
<1>3. C = {Children[i] : i \in DOMAIN Children}
  BY <1>1 DEF Child, Range
<1>4. PICK n \in Nat : DOMAIN Children = 1 .. n
  BY <1>2, LenProperties
<1>5. Children \in [1 .. n -> C]
  BY <1>2, <1>4, LenProperties
<1>6. Children \in Surjection(1 .. n, C)
  BY <1>3, <1>4, <1>5 DEF Surjection
<1>7. IsFiniteSet(C)
  BY <1>6, FS_Surjection, FS_Interval
<1>8. Elsewhere # Root
  BY DEF Elsewhere, Root
<1> QED BY <1>1, <1>2, <1>3, <1>7, <1>8

LEMMA InnerIs == Range(Inner) = {"file", "linked"} /\ DOMAIN Inner = 1 .. 2
BY DEF Inner, Range

LEMMA EntryIs ==
  ASSUME Places, NEW c \in Child
  PROVE  /\ tree[c].kind \in {"none", "file", "linked", "symlink", "dir"}
         /\ tree[c].inner \subseteq {"file", "linked"} /\ tree[c].open \in BOOLEAN
<1>1. tree[c] \in Entry
  BY DEF Places
<1>2. PICK e : e = tree[c]
  OBVIOUS
<1>3. \/ e = Missing
      \/ e \in [kind : {"file", "linked", "symlink"}, inner : {{}}, open : {TRUE}]
      \/ e \in [kind : {"dir"}, inner : SUBSET {"file", "linked"}, open : BOOLEAN]
  BY <1>1, <1>2, InnerIs DEF Entry
<1>4. /\ e.kind \in {"none", "file", "linked", "symlink", "dir"}
      /\ e.inner \subseteq {"file", "linked"} /\ e.open \in BOOLEAN
  <2>1. CASE e = Missing
    BY <2>1 DEF Missing
  <2>2. CASE e \in [kind : {"file", "linked", "symlink"}, inner : {{}}, open : {TRUE}]
    <3>1. e.inner = {} /\ e.open = TRUE
      BY <2>2
    <3> QED BY <2>2, <3>1
  <2>3. CASE e \in [kind : {"dir"}, inner : SUBSET {"file", "linked"}, open : BOOLEAN]
    BY <2>3
  <2> QED BY <1>3, <2>1, <2>2, <2>3
<1> QED BY <1>2, <1>4

\* What lies below a child belongs to it alone, but for the inode that all
\* hard links share.
LEMMA BelowChild ==
  ASSUME Places, NEW c \in Child
  PROVE  /\ IsFiniteSet(InodesUnder(c)) /\ IsFiniteSet(FilesIn(c)) /\ IsFiniteSet(DirsIn(c))
         /\ \A i \in InodesUnder(c) : i = Shared \/ \E k \in {"dir", "file", "linked"} : i = <<c, k>>
         /\ \A p \in FilesIn(c) : \E k \in {"file", "linked"} : p = <<c, k>>
         /\ \A p \in DirsIn(c) : p = <<c, "dir">>
         /\ tree[c].kind = "none" => InodesUnder(c) = {} /\ FilesIn(c) = {} /\ DirsIn(c) = {}
         /\ Cardinality(DirsIn(c)) = IF tree[c].kind = "dir" THEN 1 ELSE 0
         /\ tree[c].kind # "dir" =>
              Cardinality(FilesIn(c)) = IF tree[c].kind \in {"file", "linked"} THEN 1 ELSE 0
<1>1. /\ tree[c].kind \in {"none", "file", "linked", "symlink", "dir"}
      /\ tree[c].inner \subseteq {"file", "linked"}
  BY EntryIs
<1>2. \A i \in InodesUnder(c) : i = Shared \/ \E k \in {"dir", "file", "linked"} : i = <<c, k>>
  BY <1>1 DEF InodesUnder, FileInode
<1>3. \A p \in FilesIn(c) : \E k \in {"file", "linked"} : p = <<c, k>>
  BY <1>1 DEF FilesIn
<1>4. \A p \in DirsIn(c) : p = <<c, "dir">>
  BY DEF DirsIn
<1>5. ASSUME NEW x, NEW y, NEW z, NEW w PROVE IsFiniteSet({x, y, z, w})
  <2>1. IsFiniteSet({x})
    BY FS_Singleton
  <2>2. IsFiniteSet({x} \cup {y})
    BY <2>1, FS_AddElement
  <2>3. IsFiniteSet(({x} \cup {y}) \cup {z})
    BY <2>2, FS_AddElement
  <2>4. IsFiniteSet((({x} \cup {y}) \cup {z}) \cup {w})
    BY <2>3, FS_AddElement
  <2>5. {x, y, z, w} = (({x} \cup {y}) \cup {z}) \cup {w}
    OBVIOUS
  <2> QED BY <2>4, <2>5
<1>6. PICK all : all = {Shared, <<c, "dir">>, <<c, "file">>, <<c, "linked">>}
  OBVIOUS
<1>7. IsFiniteSet(all)
  BY <1>5, <1>6
<1>8. InodesUnder(c) \in SUBSET all
  BY <1>2, <1>6
<1>9. FilesIn(c) \in SUBSET all
  BY <1>3, <1>6
<1>10. DirsIn(c) \in SUBSET all
  BY <1>4, <1>6
<1>11. IsFiniteSet(InodesUnder(c)) /\ IsFiniteSet(FilesIn(c)) /\ IsFiniteSet(DirsIn(c))
  BY <1>7, <1>8, <1>9, <1>10, FS_Subset
<1>12. tree[c].kind = "none" => InodesUnder(c) = {} /\ FilesIn(c) = {} /\ DirsIn(c) = {}
  BY DEF InodesUnder, FilesIn, DirsIn
<1>13. DirsIn(c) = IF tree[c].kind = "dir" THEN {<<c, "dir">>} ELSE {}
  BY DEF DirsIn
<1>14. tree[c].kind # "dir" =>
         FilesIn(c) = IF tree[c].kind \in {"file", "linked"} THEN {<<c, "file">>} ELSE {}
  BY <1>1 DEF FilesIn
<1> QED BY <1>2, <1>3, <1>4, <1>11, <1>12, <1>13, <1>14, FS_Singleton, FS_EmptySet

\* Two children share at most the one inode.
LEMMA DifferentChildren ==
  ASSUME Places, NEW c \in Child, NEW d \in Child, c # d
  PROVE  /\ InodesUnder(c) \cap InodesUnder(d) \subseteq {Shared}
         /\ FilesIn(c) \cap FilesIn(d) = {} /\ DirsIn(c) \cap DirsIn(d) = {}
<1>1. ASSUME NEW i \in InodesUnder(c), i \in InodesUnder(d) PROVE i = Shared
  <2>1. SUFFICES ASSUME i # Shared PROVE FALSE
    OBVIOUS
  <2>2. PICK k \in {"dir", "file", "linked"} : i = <<c, k>>
    BY <2>1, BelowChild
  <2>3. PICK l \in {"dir", "file", "linked"} : i = <<d, l>>
    BY <1>1, <2>1, BelowChild
  <2> QED BY <2>2, <2>3
<1>2. ASSUME NEW p \in FilesIn(c), p \in FilesIn(d) PROVE FALSE
  <2>2. PICK k \in {"file", "linked"} : p = <<c, k>>
    BY BelowChild
  <2>3. PICK l \in {"file", "linked"} : p = <<d, l>>
    BY <1>2, BelowChild
  <2> QED BY <2>2, <2>3
<1>3. ASSUME NEW p \in DirsIn(c), p \in DirsIn(d) PROVE FALSE
  <2>2. p = <<c, "dir">> /\ p = <<d, "dir">>
    BY <1>3, BelowChild
  <2> QED BY <2>2
<1> QED BY <1>1, <1>2, <1>3

\* The inodes, files and directories of some of the children.
InodesOf(V) == UNION {InodesUnder(c) : c \in V}
FilesOf(V) == UNION {FilesIn(c) : c \in V}
DirsOf(V) == UNION {DirsIn(c) : c \in V}

LEMMA ChildrenTogether ==
  ASSUME Places, NEW V \in SUBSET Child
  PROVE  IsFiniteSet(InodesOf(V)) /\ IsFiniteSet(FilesOf(V)) /\ IsFiniteSet(DirsOf(V))
<1>1. IsFiniteSet(V)
  BY ChildrenAre, FS_Subset
<1>2. PICK inodes : inodes = [c \in V |-> InodesUnder(c)]
  OBVIOUS
<1>3. PICK files : files = [c \in V |-> FilesIn(c)]
  OBVIOUS
<1>4. PICK dirs : dirs = [c \in V |-> DirsIn(c)]
  OBVIOUS
<1>5. \A c \in V : IsFiniteSet(inodes[c]) /\ IsFiniteSet(files[c]) /\ IsFiniteSet(dirs[c])
  BY <1>2, <1>3, <1>4, BelowChild
<1>6. /\ IsFiniteSet(UNION {inodes[c] : c \in V})
      /\ IsFiniteSet(UNION {files[c] : c \in V})
      /\ IsFiniteSet(UNION {dirs[c] : c \in V})
  BY <1>1, <1>5, UnionIsFinite
<1>7. InodesOf(V) = UNION {inodes[c] : c \in V}
  BY <1>2 DEF InodesOf
<1>8. FilesOf(V) = UNION {files[c] : c \in V}
  BY <1>3 DEF FilesOf
<1>9. DirsOf(V) = UNION {dirs[c] : c \in V}
  BY <1>4 DEF DirsOf
<1> QED BY <1>6, <1>7, <1>8, <1>9

\* One child more: its files and directories add up, and so do its blocks,
\* once the inode met already is taken out.
LEMMA OneMore ==
  ASSUME Places, NEW V \in SUBSET Child, NEW x \in Child, x \notin V
  PROVE  /\ InodesOf(V \cup {x}) = InodesOf(V) \cup InodesUnder(x)
         /\ Cardinality(FilesOf(V \cup {x})) = Cardinality(FilesOf(V)) + Cardinality(FilesIn(x))
         /\ Cardinality(DirsOf(V \cup {x})) = Cardinality(DirsOf(V)) + Cardinality(DirsIn(x))
         /\ \A seen \in SUBSET InodesOf(V) :
                Blocks(seen \cup InodesUnder(x)) =
                    Blocks(seen) + Blocks(InodesUnder(x) \ (seen \cap {Shared}))
<1>1. InodesOf(V \cup {x}) = InodesOf(V) \cup InodesUnder(x)
  BY DEF InodesOf
<1>2. FilesOf(V \cup {x}) = FilesOf(V) \cup FilesIn(x) /\ FilesOf(V) \cap FilesIn(x) = {}
  <2>1. \A c \in V : FilesIn(c) \cap FilesIn(x) = {}
    BY DifferentChildren
  <2> QED BY <2>1 DEF FilesOf
<1>3. DirsOf(V \cup {x}) = DirsOf(V) \cup DirsIn(x) /\ DirsOf(V) \cap DirsIn(x) = {}
  <2>1. \A c \in V : DirsIn(c) \cap DirsIn(x) = {}
    BY DifferentChildren
  <2> QED BY <2>1 DEF DirsOf
<1>4. ASSUME NEW A, NEW B, IsFiniteSet(A), IsFiniteSet(B), A \cap B = {}
      PROVE  Cardinality(A \cup B) = Cardinality(A) + Cardinality(B)
  <2>1. Cardinality(A \cup B) = Cardinality(A) + Cardinality(B) - Cardinality(A \cap B)
    BY <1>4, FS_Union
  <2>2. Cardinality(A \cap B) = 0
    BY <1>4, FS_EmptySet
  <2>3. Cardinality(A) \in Nat /\ Cardinality(B) \in Nat
    BY <1>4, FS_CardinalityType
  <2> QED BY <2>1, <2>2, <2>3
<1>5. /\ IsFiniteSet(InodesOf(V)) /\ IsFiniteSet(FilesOf(V)) /\ IsFiniteSet(DirsOf(V))
      /\ IsFiniteSet(InodesUnder(x)) /\ IsFiniteSet(FilesIn(x)) /\ IsFiniteSet(DirsIn(x))
  BY ChildrenTogether, BelowChild
<1>6. Cardinality(FilesOf(V \cup {x})) = Cardinality(FilesOf(V)) + Cardinality(FilesIn(x))
  BY <1>2, <1>4, <1>5
<1>7. Cardinality(DirsOf(V \cup {x})) = Cardinality(DirsOf(V)) + Cardinality(DirsIn(x))
  BY <1>3, <1>4, <1>5
<1>8. ASSUME NEW seen \in SUBSET InodesOf(V)
      PROVE  Blocks(seen \cup InodesUnder(x)) =
                 Blocks(seen) + Blocks(InodesUnder(x) \ (seen \cap {Shared}))
  <2>1. PICK more : more = InodesUnder(x) \ (seen \cap {Shared})
    OBVIOUS
  <2>2. \A c \in V : InodesUnder(c) \cap InodesUnder(x) \subseteq {Shared}
    BY DifferentChildren
  <2>3. InodesOf(V) \cap InodesUnder(x) \subseteq {Shared}
    BY <2>2 DEF InodesOf
  <2>4. seen \cap more = {} /\ seen \cup more = seen \cup InodesUnder(x)
    BY <2>1, <2>3
  <2>5. IsFiniteSet(seen) /\ IsFiniteSet(more)
    BY <1>5, <2>1, FS_Subset
  <2> QED BY <2>1, <2>4, <2>5, BlocksAdd
<1> QED BY <1>1, <1>6, <1>7, <1>8

\* The volume: the root's own block, and what its children hold.
LEMMA WholeVolume ==
  ASSUME Places
  PROVE  /\ Blocks(Volume) = 1 + Blocks(InodesOf(Child)) /\ Blocks(Volume) \in Nat
         /\ Files = FilesOf(Child) /\ Dirs = DirsOf(Child)
         /\ IsFiniteSet(InodesOf(Child))
         /\ \A seen \in SUBSET InodesOf(Child) : Blocks(seen) <= Blocks(InodesOf(Child))
         /\ Cardinality(Files) \in Nat /\ Cardinality(Dirs) \in Nat
<1>1. PICK top : top = {<<Root, "dir">>}
  OBVIOUS
<1>2. Volume = top \cup InodesOf(Child)
  BY <1>1 DEF Volume, InodesOf
<1>3. IsFiniteSet(InodesOf(Child)) /\ IsFiniteSet(FilesOf(Child)) /\ IsFiniteSet(DirsOf(Child))
  BY ChildrenTogether
<1>4. top \cap InodesOf(Child) = {}
  <2>1. ASSUME NEW c \in Child PROVE <<Root, "dir">> \notin InodesUnder(c)
    <3>1. Root # c
      BY ChildrenAre
    <3>2. <<Root, "dir">> # Shared
      BY DEF Shared
    <3>3. \A k : <<Root, "dir">> # <<c, k>>
      BY <3>1
    <3> QED BY <3>2, <3>3, BelowChild
  <2> QED BY <1>1, <2>1 DEF InodesOf
<1>5. IsFiniteSet(top) /\ Blocks(top) = 1
  <2>1. IsFiniteSet(top) /\ Cardinality(top) = 1
    BY <1>1, FS_Singleton
  <2>2. top \cap {Shared} = {}
    BY <1>1 DEF Shared
  <2>3. Cardinality(top \cap {Shared}) = 0
    BY <2>2, FS_EmptySet
  <2> QED BY <2>1, <2>3 DEF Blocks
<1>6. Blocks(top \cup InodesOf(Child)) = Blocks(top) + Blocks(InodesOf(Child))
  BY <1>3, <1>4, <1>5, BlocksAdd
<1>7. Blocks(InodesOf(Child)) \in Nat
  BY <1>3, BlocksAdd
<1>8. Blocks(Volume) = 1 + Blocks(InodesOf(Child)) /\ Blocks(Volume) \in Nat
  BY <1>2, <1>5, <1>6, <1>7
<1>9. ASSUME NEW seen \in SUBSET InodesOf(Child) PROVE Blocks(seen) <= Blocks(InodesOf(Child))
  BY <1>3, FS_Subset, BlocksAdd
<1>10. Files = FilesOf(Child) /\ Dirs = DirsOf(Child)
  BY DEF Files, Dirs, FilesOf, DirsOf
<1> QED BY <1>3, <1>8, <1>9, <1>10, FS_CardinalityType

\* The children there are, in their order.
Present == {i \in DOMAIN Children : tree[Children[i]].kind # "none"}

\* The root lists each child that is there, once.
LEMMA ItemsOfRoot ==
  ASSUME Places
  PROVE  /\ Items(Root) \in Seq(Child) /\ Len(Items(Root)) \in Nat
         /\ \A k \in 1 .. Len(Items(Root)) : tree[Items(Root)[k]].kind # "none"
         /\ \A j, k \in 1 .. Len(Items(Root)) : Items(Root)[j] = Items(Root)[k] => j = k
         /\ \A c \in Child : tree[c].kind # "none" => \E k \in 1 .. Len(Items(Root)) : Items(Root)[k] = c
<1>1. PICK C : C = Child
  OBVIOUS
<1>2. /\ Children \in Seq(C) /\ Present \in SUBSET DOMAIN Children
      /\ \A i, j \in DOMAIN Children : Children[i] = Children[j] => i = j
      /\ \A c \in C : \E i \in DOMAIN Children : Children[i] = c
  BY <1>1, ChildrenAre DEF Present
<1>3. Items(Root) = At(Present, Children)
  BY DEF Items, Present
<1>4. /\ Items(Root) \in Seq(C) /\ Len(Items(Root)) = Cardinality(Present) /\ Cardinality(Present) \in Nat
      /\ \A k \in 1 .. Cardinality(Present) : \E i \in Present : Items(Root)[k] = Children[i]
      /\ \A i \in Present : \E k \in 1 .. Cardinality(Present) : Items(Root)[k] = Children[i]
      /\ \A j, k \in 1 .. Cardinality(Present) : Items(Root)[j] = Items(Root)[k] => j = k
  <2>1. PICK P : P = Present
    OBVIOUS
  <2>2. /\ At(P, Children) \in Seq(C)
        /\ Len(At(P, Children)) = Cardinality(P) /\ Cardinality(P) \in Nat
    BY <1>2, <2>1, AtIs
  <2>3. \A k \in 1 .. Cardinality(P) : \E i \in P : At(P, Children)[k] = Children[i]
    BY <1>2, <2>1, AtIs
  <2>4. \A i \in P : \E k \in 1 .. Cardinality(P) : At(P, Children)[k] = Children[i]
    BY <1>2, <2>1, AtIs
  <2>5. \A j, k \in 1 .. Cardinality(P) : At(P, Children)[j] = At(P, Children)[k] => j = k
    BY <1>2, <2>1, AtIs
  <2>6. Items(Root) = At(P, Children)
    BY <1>3, <2>1
  <2> QED BY <2>1, <2>2, <2>3, <2>4, <2>5, <2>6
<1>5. \A k \in 1 .. Len(Items(Root)) : tree[Items(Root)[k]].kind # "none"
  BY <1>4 DEF Present
<1>6. ASSUME NEW c \in C, tree[c].kind # "none"
      PROVE  \E k \in 1 .. Len(Items(Root)) : Items(Root)[k] = c
  <2>1. PICK i \in DOMAIN Children : Children[i] = c
    BY <1>2
  <2>2. i \in Present
    BY <1>6, <2>1 DEF Present
  <2> QED BY <1>4, <2>1, <2>2
<1> QED BY <1>1, <1>4, <1>5, <1>6

\* The cap leaves a prefix, and all of a short listing.
LEMMA CapIs ==
  ASSUME NEW V, NEW items \in Seq(V)
  PROVE  /\ Capped(items) \in Seq(V) /\ Len(Capped(items)) \in 0 .. Len(items)
         /\ \A k \in 1 .. Len(Capped(items)) : Capped(items)[k] = items[k]
         /\ Len(items) <= MaxEntries => Len(Capped(items)) = Len(items)
<1>1. Len(items) \in Nat /\ \A i \in 1 .. Len(items) : items[i] \in V
  BY ElementOfSeq, LenProperties
<1>2. MaxEntries \in Nat
  BY ProbeOptions
<1>3. PICK n : n = IF Len(items) < MaxEntries THEN Len(items) ELSE MaxEntries
  OBVIOUS
<1>4. n \in Nat /\ n <= Len(items) /\ (Len(items) <= MaxEntries => n = Len(items))
  BY <1>1, <1>2, <1>3
<1>5. /\ SubSeq(items, 1, n) \in Seq(V)
      /\ Len(SubSeq(items, 1, n)) = IF 1 <= n THEN n - 1 + 1 ELSE 0
      /\ \A i \in 1 .. n - 1 + 1 : SubSeq(items, 1, n)[i] = items[1 + i - 1]
  <2>1. \A i \in 1 .. n : items[i] \in V
    BY <1>1, <1>4
  <2> QED BY <1>4, <2>1, SubSeqProperties
<1>6. Len(SubSeq(items, 1, n)) = n /\ \A i \in 1 .. n : SubSeq(items, 1, n)[i] = items[i]
  BY <1>1, <1>4, <1>5
<1>7. Capped(items) = SubSeq(items, 1, n)
  BY <1>3 DEF Capped
<1> QED BY <1>1, <1>4, <1>5, <1>6, <1>7

\* What a directory below the root lists are files.
LEMMA ItemsOfChild ==
  ASSUME Places, NEW c \in Child
  PROVE  /\ Items(c) \in Seq({"file", "linked"})
         /\ \A k \in DOMAIN Items(c) : Items(c)[k] # "dir"
<1>1. PICK V : V = {"file", "linked"}
  OBVIOUS
<1>2. Inner \in Seq(V)
  BY <1>1 DEF Inner
<1>3. PICK S : S = {i \in DOMAIN Inner : Inner[i] \in tree[c].inner}
  OBVIOUS
<1>4. At(S, Inner) \in Seq(V)
  BY <1>2, <1>3, AtIs
<1>5. Items(c) = At(S, Inner)
  BY <1>3, ChildrenAre DEF Items
<1>6. \A k \in DOMAIN Items(c) : Items(c)[k] \in V
  BY <1>4, <1>5, ElementOfSeq, LenProperties
<1> QED BY <1>1, <1>4, <1>5, <1>6

\* Counting lines counts names, if no name has two lines.
LEMMA LineCounts ==
  ASSUME Places
  PROVE  /\ LineCount(Files) \in Nat /\ LineCount(Dirs) \in Nat
         /\ OneLinePerName => LineCount(Files) = Cardinality(Files) /\ LineCount(Dirs) = Cardinality(Dirs)
<1>1. IsFiniteSet(Files) /\ IsFiniteSet(Dirs)
  BY ChildrenTogether, WholeVolume
<1>2. ASSUME NEW S, IsFiniteSet(S),
             OneLinePerName => \A p \in S : \E c \in Child : tree[c].kind # "none" /\ p[1] = c
      PROVE  LineCount(S) \in Nat /\ (OneLinePerName => LineCount(S) = Cardinality(S))
  <2>1. PICK broken : broken = {p \in S : cutTo[p[1]] # p[1]}
    OBVIOUS
  <2>2. IsFiniteSet(broken)
    BY <1>2, <2>1, FS_Subset
  <2>3. Cardinality(S) \in Nat /\ Cardinality(broken) \in Nat
    BY <1>2, <2>2, FS_CardinalityType
  <2>4. LineCount(S) = Cardinality(S) + Cardinality(broken)
    BY <2>1 DEF LineCount
  <2>5. OneLinePerName => broken = {}
    BY <1>2, <2>1 DEF OneLinePerName
  <2>6. OneLinePerName => Cardinality(broken) = 0
    BY <2>5, FS_EmptySet
  <2> QED BY <2>3, <2>4, <2>6
<1>3. \A p \in Files : \E c \in Child : tree[c].kind # "none" /\ p[1] = c
  <2>1. SUFFICES ASSUME NEW c \in Child, NEW p \in FilesIn(c)
                 PROVE  tree[c].kind # "none" /\ p[1] = c
    BY DEF Files
  <2>2. PICK k \in {"file", "linked"} : p = <<c, k>>
    BY BelowChild
  <2>3. tree[c].kind # "none"
    BY BelowChild
  <2> QED BY <2>2, <2>3
<1>4. \A p \in Dirs : \E c \in Child : tree[c].kind # "none" /\ p[1] = c
  <2>1. SUFFICES ASSUME NEW c \in Child, NEW p \in DirsIn(c)
                 PROVE  tree[c].kind # "none" /\ p[1] = c
    BY DEF Dirs
  <2>2. p = <<c, "dir">> /\ tree[c].kind # "none"
    BY BelowChild
  <2> QED BY <2>2
<1>5. LineCount(Files) \in Nat /\ (OneLinePerName => LineCount(Files) = Cardinality(Files))
  BY <1>1, <1>2, <1>3
<1>6. LineCount(Dirs) \in Nat /\ (OneLinePerName => LineCount(Dirs) = Cardinality(Dirs))
  BY <1>1, <1>2, <1>4
<1> QED BY <1>5, <1>6

\* The volume and the request stay what they are.
LEMMA SameWorld ==
  ASSUME world' = world
  PROVE  /\ Places <=> Places'
         /\ \A c \in Child :
                 /\ InodesUnder(c)' = InodesUnder(c)
                 /\ FilesIn(c)' = FilesIn(c) /\ DirsIn(c)' = DirsIn(c)
         /\ Volume' = Volume /\ Files' = Files /\ Dirs' = Dirs
         /\ LineCount(Files)' = LineCount(Files) /\ LineCount(Dirs)' = LineCount(Dirs)
         /\ Items(Root)' = Items(Root) /\ Items(request.path)' = Items(request.path)
         /\ Resolved(request.path)' = Resolved(request.path)
         /\ (WalkUsable <=> WalkUsable') /\ (OneLinePerName <=> OneLinePerName')
         /\ \A type : Says(type) <=> Says(type)'
<1>1. tree' = tree /\ cutTo' = cutTo /\ second' = second /\ target' = target /\ request' = request
  BY DEF world
<1>2. Places <=> Places'
  BY <1>1 DEF Places
<1>3. ASSUME NEW c \in Child
      PROVE  InodesUnder(c)' = InodesUnder(c) /\ FilesIn(c)' = FilesIn(c) /\ DirsIn(c)' = DirsIn(c)
  BY <1>1 DEF InodesUnder, FilesIn, DirsIn
<1>4. Volume' = Volume /\ Files' = Files /\ Dirs' = Dirs
  BY <1>3 DEF Volume, Files, Dirs
<1>5. LineCount(Files)' = LineCount(Files) /\ LineCount(Dirs)' = LineCount(Dirs)
  BY <1>1, <1>4 DEF LineCount
<1>6. Items(Root)' = Items(Root)
  BY <1>1 DEF Items
<1>7. Items(request.path)' = Items(request.path)
  BY <1>1 DEF Items
<1>8. Resolved(request.path)' = Resolved(request.path)
  BY <1>1 DEF Resolved
<1>9. (WalkUsable <=> WalkUsable') /\ (OneLinePerName <=> OneLinePerName')
  BY <1>1 DEF WalkUsable, OneLinePerName
<1>10. \A type : Says(type) <=> Says(type)'
  BY <1>1 DEF Says
<1> QED BY <1>2, <1>3, <1>4, <1>5, <1>6, <1>7, <1>8, <1>9, <1>10

-----------------------------------------------------------------------------
(* ScanProbe: what the script prints.                                      *)

\* What can follow a record: nothing, but after a name, and there what the
\* parser makes of it.
MoreOK(line) ==
    /\ line.more.type \in {"NONE", "TEXT", "BASE", "DU", "STAT", "FILE_COUNT", "DIR_COUNT",
                          "TRUNCATED", "ERROR", "END"}
    /\ line.more.type \notin {"NONE", "TEXT", "DU"} => Says(line.more.type) /\ line.type = "STAT"
    /\ line.more.type \in {"BASE", "DU"} => line.more.path = Elsewhere

\* What is true of every record.
LineOK(line) ==
    /\ MoreOK(line)
    /\ line.type \in {"BASE", "DU", "STAT", "FILE_COUNT", "DIR_COUNT", "TRUNCATED", "ERROR", "END"}
    /\ line.type = "BASE" => line.path = request.path
    /\ line.type = "DU" => line.path \in Child \cup {Root}
    /\ line.type = "DU" /\ request.mode = "measure" /\ line.path = Root => line.n = Blocks(Volume)
    /\ line.type = "FILE_COUNT" => line.n = LineCount(Files)
    /\ line.type = "DIR_COUNT" => line.n = 1 + LineCount(Dirs)
    /\ line.type = "ERROR" =>
        \/ line.token = "OUTSIDE_ROOT" /\ Resolved(request.path) = "outside"
        \/ line.token = "NOT_A_DIRECTORY" /\ Resolved(request.path) = "no directory"

\* The records of a size come first.
Sizing(line) == line.type \in {"BASE", "DU"}
AllSizing(p) == \A k \in DOMAIN p : Sizing(p[k])
NoneSizing(p) == \A k \in DOMAIN p : ~ Sizing(p[k])
SizesFirst(p) == \A j, k \in DOMAIN p : j < k /\ Sizing(p[k]) => Sizing(p[j])

Has(p, line) == \E k \in DOMAIN p : p[k] = line

\* Some lines of it before the last.
Body(p) ==
    /\ \E V : p \in Seq(V)
    /\ \A k \in DOMAIN p : LineOK(p[k]) /\ p[k].type # "END"

\* r is p and then q.
Joint(p, q, r) ==
    \E m \in Nat, n \in Nat :
        /\ DOMAIN p = 1 .. m /\ DOMAIN q = 1 .. n /\ DOMAIN r = 1 .. m + n
        /\ \A i \in 1 .. m : r[i] = p[i]
        /\ \A i \in m + 1 .. m + n : r[i] = q[i - m]

\* Lines printed one after the other.
LEMMA Joints ==
  ASSUME NEW V, NEW W, NEW p \in Seq(V), NEW q \in Seq(W)
  PROVE  p \o q \in Seq(V \cup W) /\ Joint(p, q, p \o q)
<1>1. PICK U : U = V \cup W
  OBVIOUS
<1>2. p \in Seq(U) /\ q \in Seq(U)
  BY <1>1, SeqMonotonic
<1>3. /\ p \o q \in Seq(U) /\ Len(p \o q) = Len(p) + Len(q)
      /\ \A i \in 1 .. Len(p) + Len(q) : (p \o q)[i] = IF i <= Len(p) THEN p[i] ELSE q[i - Len(p)]
  BY <1>2, ConcatProperties
<1>4. /\ Len(p) \in Nat /\ DOMAIN p = 1 .. Len(p)
      /\ Len(q) \in Nat /\ DOMAIN q = 1 .. Len(q)
      /\ DOMAIN (p \o q) = 1 .. Len(p) + Len(q)
  BY <1>2, <1>3, LenProperties
<1>5. PICK m \in Nat, n \in Nat : m = Len(p) /\ n = Len(q)
  BY <1>4
<1>6. PICK r : r = p \o q
  OBVIOUS
<1>7. /\ DOMAIN p = 1 .. m /\ DOMAIN q = 1 .. n /\ DOMAIN r = 1 .. m + n
      /\ \A i \in 1 .. m : r[i] = p[i]
      /\ \A i \in m + 1 .. m + n : r[i] = q[i - m]
  BY <1>3, <1>4, <1>5, <1>6
<1>8. Joint(p, q, r)
  BY <1>7 DEF Joint
<1> QED BY <1>1, <1>3, <1>6, <1>8

\* The order of sizes and others survives when no size comes later.
LEMMA OrderKept ==
  ASSUME NEW V, NEW W, NEW p \in Seq(V), NEW q \in Seq(W)
  PROVE  /\ SizesFirst(p) /\ NoneSizing(q) => SizesFirst(p \o q)
         /\ AllSizing(p) /\ AllSizing(q) => AllSizing(p \o q)
         /\ NoneSizing(p) /\ NoneSizing(q) => NoneSizing(p \o q)
<1>1. PICK r : r = p \o q
  OBVIOUS
<1>2. PICK m \in Nat, n \in Nat :
        /\ DOMAIN p = 1 .. m /\ DOMAIN q = 1 .. n /\ DOMAIN r = 1 .. m + n
        /\ \A i \in 1 .. m : r[i] = p[i]
        /\ \A i \in m + 1 .. m + n : r[i] = q[i - m]
  <2>1. Joint(p, q, r)
    BY <1>1, Joints
  <2> QED BY <2>1 DEF Joint
<1>3. ASSUME NEW k \in 1 .. m + n
      PROVE  \/ k \in 1 .. m /\ r[k] = p[k]
             \/ k \in m + 1 .. m + n /\ k - m \in 1 .. n /\ r[k] = q[k - m]
  BY <1>2, <1>1
<1>4. ASSUME SizesFirst(p), NoneSizing(q) PROVE SizesFirst(r)
  <2>1. SUFFICES ASSUME NEW j \in 1 .. m + n, NEW k \in 1 .. m + n, j < k, Sizing(r[k])
                 PROVE  Sizing(r[j])
    BY <1>2, <1>1 DEF SizesFirst
  <2>2. k \in 1 .. m /\ r[k] = p[k]
    BY <1>2, <1>3, <1>4, <2>1 DEF NoneSizing
  <2>3. j \in 1 .. m
    BY <2>1, <2>2
  <2>4. r[j] = p[j]
    BY <1>2, <1>1, <2>3
  <2> QED BY <1>2, <1>4, <2>1, <2>2, <2>3, <2>4 DEF SizesFirst
<1>5. ASSUME AllSizing(p), AllSizing(q) PROVE AllSizing(r)
  BY <1>2, <1>3, <1>5 DEF AllSizing
<1>6. ASSUME NoneSizing(p), NoneSizing(q) PROVE NoneSizing(r)
  BY <1>2, <1>3, <1>6 DEF NoneSizing
<1> QED BY <1>1, <1>4, <1>5, <1>6

LEMMA Joined ==
  ASSUME NEW p, NEW q, Body(p), Body(q)
  PROVE  /\ Body(p \o q)
         /\ \A line : Has(p, line) \/ Has(q, line) => Has(p \o q, line)
         /\ SizesFirst(p) /\ NoneSizing(q) => SizesFirst(p \o q)
<1>1. PICK V : p \in Seq(V)
  BY DEF Body
<1>2. PICK W : q \in Seq(W)
  BY DEF Body
<1>3. p \o q \in Seq(V \cup W) /\ (SizesFirst(p) /\ NoneSizing(q) => SizesFirst(p \o q))
  BY <1>1, <1>2, Joints, OrderKept
<1>4. PICK r : r = p \o q
  OBVIOUS
<1>5. PICK m \in Nat, n \in Nat :
        /\ DOMAIN p = 1 .. m /\ DOMAIN q = 1 .. n /\ DOMAIN r = 1 .. m + n
        /\ \A i \in 1 .. m : r[i] = p[i]
        /\ \A i \in m + 1 .. m + n : r[i] = q[i - m]
  <2>1. Joint(p, q, r)
    BY <1>1, <1>2, <1>4, Joints
  <2> QED BY <2>1 DEF Joint
<1>6. \A k \in DOMAIN r : LineOK(r[k]) /\ r[k].type # "END"
  <2>1. SUFFICES ASSUME NEW k \in 1 .. m + n PROVE LineOK(r[k]) /\ r[k].type # "END"
    BY <1>5
  <2>2. CASE k <= m
    <3>1. k \in 1 .. m
      BY <2>2
    <3> QED BY <1>5, <3>1 DEF Body
  <2>3. CASE k > m
    <3>1. k - m \in 1 .. n /\ k \in m + 1 .. m + n
      BY <2>3
    <3> QED BY <1>5, <3>1 DEF Body
  <2> QED BY <2>2, <2>3
<1>7. ASSUME NEW line, Has(p, line) PROVE Has(r, line)
  <2>1. PICK k \in 1 .. m : p[k] = line
    BY <1>5, <1>7 DEF Has
  <2>2. k \in 1 .. m + n /\ r[k] = line
    BY <1>5, <2>1
  <2> QED BY <1>5, <2>2 DEF Has
<1>8. ASSUME NEW line, Has(q, line) PROVE Has(r, line)
  <2>1. PICK k \in 1 .. n : q[k] = line
    BY <1>5, <1>8 DEF Has
  <2>2. m + k \in m + 1 .. m + n /\ (m + k) - m = k /\ m + k \in 1 .. m + n
    OBVIOUS
  <2>3. r[m + k] = line
    BY <1>5, <2>1, <2>2
  <2> QED BY <1>5, <2>2, <2>3 DEF Has
<1> QED BY <1>3, <1>4, <1>6, <1>7, <1>8 DEF Body

LEMMA OneLine ==
  ASSUME NEW line, LineOK(line), line.type # "END"
  PROVE  Body(<<line>>) /\ Has(<<line>>, line)
<1>1. PICK p : p = <<line>>
  OBVIOUS
<1>2. DOMAIN p = 1 .. 1 /\ p[1] = line /\ p \in Seq({line})
  BY <1>1
<1>3. \A k \in DOMAIN p : p[k] = line
  BY <1>2
<1>4. Body(p)
  BY <1>2, <1>3 DEF Body
<1>5. Has(p, line)
  BY <1>2 DEF Has
<1> QED BY <1>1, <1>4, <1>5

LEMMA NoLine == Body(<<>>)
<1>1. <<>> \in Seq({}) /\ DOMAIN <<>> = {}
  OBVIOUS
<1> QED BY <1>1 DEF Body

\* And the last line.
LEMMA Finally ==
  ASSUME NEW p, Body(p)
  PROVE  /\ p \o End \in Seq(Range(p \o End)) /\ p \o End # <<>>
         /\ \A k \in DOMAIN (p \o End) :
              LineOK((p \o End)[k]) /\ ((p \o End)[k].type = "END" <=> k = Len(p \o End))
         /\ \A line : Has(p, line) => Has(p \o End, line)
         /\ SizesFirst(p) => SizesFirst(p \o End)
<1>1. PICK V : p \in Seq(V)
  BY DEF Body
<1>2. PICK e : e = [type |-> "END", more |-> Nothing]
  OBVIOUS
<1>3. PICK U : U = V \cup {e}
  OBVIOUS
<1>4. p \in Seq(U) /\ <<e>> \in Seq(U)
  <2>1. p \in Seq(U)
    BY <1>1, <1>3, SeqMonotonic
  <2>2. e \in U
    BY <1>3
  <2> QED BY <2>1, <2>2
<1>5. PICK r : r = p \o End
  OBVIOUS
<1>6. End = <<e>> /\ Len(<<e>>) = 1 /\ <<e>>[1] = e
  BY <1>2 DEF End
<1>7. /\ r \in Seq(U) /\ Len(r) = Len(p) + 1
      /\ \A i \in 1 .. Len(p) + 1 : r[i] = IF i <= Len(p) THEN p[i] ELSE <<e>>[i - Len(p)]
  BY <1>4, <1>5, <1>6, ConcatProperties
<1>8. Len(p) \in Nat /\ DOMAIN p = 1 .. Len(p) /\ DOMAIN r = 1 .. Len(p) + 1
  BY <1>4, <1>7, LenProperties
<1>9. PICK m \in Nat : m = Len(p)
  BY <1>8
<1>10. /\ DOMAIN p = 1 .. m /\ DOMAIN r = 1 .. m + 1 /\ Len(r) = m + 1
       /\ \A i \in 1 .. m : r[i] = p[i]
  BY <1>7, <1>8, <1>9
<1>11. r[m + 1] = e
  <2>1. m + 1 \in 1 .. m + 1 /\ (m + 1) - m = 1 /\ ~ m + 1 <= m
    OBVIOUS
  <2> QED BY <1>6, <1>7, <1>9, <2>1
<1>12. LineOK(e) /\ e.type = "END"
  BY <1>2 DEF LineOK, MoreOK, Nothing
<1>13. \A k \in DOMAIN r : LineOK(r[k]) /\ (r[k].type = "END" <=> k = Len(r))
  <2>1. SUFFICES ASSUME NEW k \in 1 .. m + 1 PROVE LineOK(r[k]) /\ (r[k].type = "END" <=> k = m + 1)
    BY <1>10
  <2>2. CASE k \in 1 .. m
    BY <1>10, <2>2 DEF Body
  <2>3. CASE k = m + 1
    BY <1>11, <1>12, <2>3
  <2> QED BY <2>2, <2>3
<1>14. r \in Seq(Range(r))
  <2>1. r \in [1 .. m + 1 -> Range(r)]
    BY <1>7, <1>10, LenProperties DEF Range
  <2> QED BY <2>1
<1>15. \A line : Has(p, line) => Has(r, line)
  BY <1>10 DEF Has
<1>16. r # <<>>
  BY <1>10
<1>17. SizesFirst(p) => SizesFirst(r)
  <2>1. <<e>> \in Seq({e}) /\ NoneSizing(<<e>>)
    BY <1>2 DEF NoneSizing, Sizing
  <2> QED BY <1>1, <1>5, <1>6, <2>1, OrderKept
<1> QED BY <1>5, <1>13, <1>14, <1>15, <1>16, <1>17

\* The lines on which a measurement depends.
BaseLine == [type |-> "BASE", path |-> request.path, more |-> Nothing]
BaseSize == [type |-> "DU", path |-> request.path, n |-> Blocks(Under(request.path)), more |-> Nothing]
CutShort == [type |-> "TRUNCATED", more |-> Nothing]
FileLine == [type |-> "FILE_COUNT", n |-> LineCount(Files), more |-> Nothing]
DirLine == [type |-> "DIR_COUNT", n |-> 1 + LineCount(Dirs), more |-> Nothing]

\* A measurement is one of the root.
LEMMA Asked ==
  ASSUME Places
  PROVE  /\ request.path \in Child \cup {Root} /\ request.mode \in {"measure", "list"}
         /\ request.mode = "measure" => request.path = Root
BY DEF Places

LEMMA DuLinesOK ==
  ASSUME Places
  PROVE  /\ Body(DuLines(request.path)) /\ Has(DuLines(request.path), BaseSize)
         /\ AllSizing(DuLines(request.path))
<1>1. PICK path \in Child \cup {Root} : path = request.path
  BY Asked
<1>2. PICK items : items = Items(path)
  OBVIOUS
<1>3. PICK dirs : dirs = {i \in DOMAIN items : Kind(path, items[i]) = "dir"}
  OBVIOUS
<1>4. PICK front : front = [k \in 1 .. Cardinality(dirs) |->
                              [type |-> "DU", path |-> CutName(path, items[Nth(dirs, k)]),
                               n |-> Blocks(FirstMet(path, Nth(dirs, k))),
                               more |-> AfterSize(path, items[Nth(dirs, k)])]]
  OBVIOUS
<1>5. DuLines(path) = front \o <<BaseSize>>
  BY <1>1, <1>2, <1>3, <1>4 DEF DuLines, BaseSize
<1>6. PICK m \in Nat : m = Cardinality(dirs)
  <2>1. CASE path = Root
    <3>1. Items(Root) \in Seq(Child)
      BY ItemsOfRoot
    <3>2. PICK n \in Nat : DOMAIN items = 1 .. n
      BY <1>2, <2>1, <3>1, LenProperties
    <3>3. dirs \in SUBSET (1 .. n)
      BY <1>3, <3>2
    <3> QED BY <3>3, Ranks
  <2>2. CASE path \in Child
    <3>1. dirs = {}
      BY <1>2, <1>3, <2>2, ItemsOfChild, ChildrenAre DEF Kind
    <3> QED BY <3>1, FS_EmptySet
  <2> QED BY <2>1, <2>2
<1>7. ASSUME NEW k \in 1 .. m PROVE CutName(path, items[Nth(dirs, k)]) \in Child
  <2>1. CASE path = Root
    <3>1. Items(Root) \in Seq(Child)
      BY ItemsOfRoot
    <3>2. PICK n \in Nat : DOMAIN items = 1 .. n /\ items \in [1 .. n -> Child]
      BY <1>2, <2>1, <3>1, LenProperties
    <3>3. dirs \in SUBSET (1 .. n)
      BY <1>3, <3>2
    <3>4. Nth(dirs, k) \in dirs
      BY <1>6, <3>3, NthIs
    <3>5. items[Nth(dirs, k)] \in Child
      BY <3>2, <3>3, <3>4
    <3> QED BY <2>1, <3>5 DEF CutName, Places
  <2>2. CASE path \in Child
    <3>1. dirs = {}
      BY <1>2, <1>3, <2>2, ItemsOfChild, ChildrenAre DEF Kind
    <3>2. m = 0
      BY <1>6, <3>1, FS_EmptySet
    <3> QED BY <3>2
  <2> QED BY <2>1, <2>2
<1>8. Body(front)
  <2>1. DOMAIN front = 1 .. m
    BY <1>4, <1>6
  <2>2. ASSUME NEW k \in 1 .. m PROVE LineOK(front[k]) /\ front[k].type # "END"
    <3>1. /\ front[k].type = "DU" /\ front[k].path \in Child
      BY <1>4, <1>6, <1>7
    <3>2. front[k].path # Root
      BY <3>1, ChildrenAre
    <3>3. front[k].more = AfterSize(path, items[Nth(dirs, k)])
      BY <1>4, <1>6
    <3>4. front[k].more.type \in {"NONE", "DU"} /\ (front[k].more.type = "DU" => front[k].more.path = Elsewhere)
      BY <3>3 DEF AfterSize, Nothing
    <3> QED BY <3>1, <3>2, <3>4 DEF LineOK, MoreOK
  <2>3. front \in Seq({front[k] : k \in 1 .. m})
    <3>1. front \in [1 .. m -> {front[k] : k \in 1 .. m}]
      BY <1>4, <1>6
    <3> QED BY <3>1
  <2> QED BY <2>1, <2>2, <2>3 DEF Body
<1>9. LineOK(BaseSize) /\ BaseSize.type = "DU"
  <2>1. /\ BaseSize.type = "DU" /\ BaseSize.path = path /\ BaseSize.n = Blocks(Under(path))
        /\ BaseSize.more.type = "NONE"
    BY <1>1 DEF BaseSize, Nothing
  <2>2. path = Root => Under(path) = Volume
    BY DEF Under
  <2> QED BY <2>1, <2>2 DEF LineOK, MoreOK
<1>10. Body(<<BaseSize>>) /\ Has(<<BaseSize>>, BaseSize)
  BY <1>9, OneLine
<1>11. Body(front \o <<BaseSize>>) /\ Has(front \o <<BaseSize>>, BaseSize)
  BY <1>8, <1>10, Joined
<1>12. AllSizing(front \o <<BaseSize>>)
  <2>1. AllSizing(front)
    BY <1>4 DEF AllSizing, Sizing
  <2>2. AllSizing(<<BaseSize>>) /\ <<BaseSize>> \in Seq({BaseSize})
    BY <1>9 DEF AllSizing, Sizing
  <2>3. PICK V : front \in Seq(V)
    BY <1>8 DEF Body
  <2> QED BY <2>1, <2>2, <2>3, OrderKept
<1> QED BY <1>1, <1>5, <1>11, <1>12

LEMMA StatLinesOK ==
  ASSUME Places
  PROVE  Body(StatLines(request.path)) /\ NoneSizing(StatLines(request.path))
<1>1. PICK path \in Child \cup {Root} : path = request.path
  BY Asked
<1>2. PICK items : items = Capped(Items(path))
  OBVIOUS
<1>3. PICK n \in Nat : n = Len(items)
  <2>1. PICK V : Items(path) \in Seq(V)
    BY ItemsOfRoot, ItemsOfChild
  <2>2. items \in Seq(V)
    BY <1>2, <2>1, CapIs
  <2> QED BY <2>2, LenProperties
<1>4. PICK s : s = StatLines(path)
  OBVIOUS
<1>5. s = [i \in 1 .. n |->
            [type |-> "STAT", path |-> CutName(path, items[i]), kind |-> Kind(path, items[i]),
             n |-> IF Kind(path, items[i]) = "dir" THEN 0 ELSE Blocks(Inodes(path, items[i])),
             more |-> AfterName(path, items[i])]]
  BY <1>1, <1>2, <1>3, <1>4 DEF StatLines
<1>6. DOMAIN s = 1 .. n /\ \A k \in 1 .. n : s[k].type = "STAT"
  BY <1>5
<1>7. s \in Seq({s[k] : k \in 1 .. n})
  <2>1. s \in [1 .. n -> {s[k] : k \in 1 .. n}]
    BY <1>5
  <2> QED BY <2>1
<1>8. ASSUME NEW k \in 1 .. n PROVE MoreOK(s[k])
  <2>1. PICK x : x = items[k]
    OBVIOUS
  <2>2. s[k].type = "STAT" /\ s[k].more = AfterName(path, x)
    BY <1>5, <2>1
  <2>3. CASE ~ TwoLines(path, x)
    BY <2>2, <2>3 DEF AfterName, MoreOK, Nothing
  <2>4. CASE TwoLines(path, x)
    <3>1. path = Root /\ request.path = Root /\ cutTo[x] # x
      BY <1>1, <2>4 DEF TwoLines
    <3>2. /\ Items(Root) \in Seq(Child)
          /\ \A j \in 1 .. Len(Items(Root)) : tree[Items(Root)[j]].kind # "none"
      BY ItemsOfRoot
    <3>3. k \in 1 .. Len(Items(Root)) /\ x = Items(Root)[k]
      BY <1>2, <1>3, <2>1, <3>1, <3>2, CapIs
    <3>4. x \in Child /\ tree[x].kind # "none"
      BY <3>2, <3>3, ElementOfSeq
    <3>5. second[x] \in SecondLine /\ s[k].more = second[x]
      BY <2>2, <2>4, <3>4 DEF AfterName, Places
    <3>6. Says(second[x].type)
      BY <3>1, <3>4 DEF Says
    <3>7. /\ second[x].type \in {"TEXT", "BASE", "DU", "STAT", "FILE_COUNT", "DIR_COUNT",
                                "TRUNCATED", "ERROR", "END"}
          /\ second[x].type \in {"BASE", "DU"} => second[x].path = Elsewhere
      BY <3>5 DEF SecondLine
    <3> QED BY <2>2, <3>5, <3>6, <3>7 DEF MoreOK
  <2> QED BY <2>3, <2>4
<1>9. \A k \in 1 .. n : LineOK(s[k]) /\ s[k].type # "END" /\ ~ Sizing(s[k])
  BY <1>6, <1>8 DEF LineOK, Sizing
<1> QED BY <1>1, <1>4, <1>6, <1>7, <1>9 DEF Body, NoneSizing

\* What the script is going to print when it begins.
Planned == Script(request.mode, request.path)

\* Every line of it is true, END is the last and no other, and each line
\* that a refusal or a measurement depends on is among them.
LEMMA ScriptSays ==
  ASSUME Places
  PROVE  /\ Planned \in Seq(Range(Planned)) /\ Planned # <<>>
         /\ \A k \in DOMAIN Planned : LineOK(Planned[k]) /\ (Planned[k].type = "END" <=> k = Len(Planned))
         /\ SizesFirst(Planned)
         /\ Resolved(request.path) # "directory" => \E line : line.type = "ERROR" /\ Has(Planned, line)
         /\ request.mode = "measure" =>
                /\ Has(Planned, BaseLine) /\ Has(Planned, BaseSize)
                /\ Has(Planned, FileLine) /\ Has(Planned, DirLine)
                /\ Len(Items(Root)) > MaxEntries => Has(Planned, CutShort)
<1>1. PICK path \in Child \cup {Root} : path = request.path
  BY Asked
<1>2. CASE Resolved(path) # "directory"
  <2>1. Resolved(path) \in {"directory", "outside", "no directory"}
    BY DEF Resolved
  <2>2. PICK err : err = [type |-> "ERROR",
                          token |-> IF Resolved(path) = "outside" THEN "OUTSIDE_ROOT" ELSE "NOT_A_DIRECTORY",
                          more |-> Nothing]
    OBVIOUS
  <2>3. Planned = <<err>> \o End
    BY <1>1, <1>2, <2>1, <2>2 DEF Planned, Script, Refusal
  <2>4. LineOK(err) /\ err.type = "ERROR"
    BY <1>1, <1>2, <2>1, <2>2 DEF LineOK, MoreOK, Nothing
  <2>5. Body(<<err>>) /\ Has(<<err>>, err)
    BY <2>4, OneLine
  <2>6. request.mode # "measure"
    BY <1>1, <1>2, Asked DEF Resolved
  <2>7. Has(<<err>> \o End, err)
    BY <2>5, Finally
  <2>8. /\ <<err>> \o End \in Seq(Range(<<err>> \o End)) /\ <<err>> \o End # <<>>
        /\ \A k \in DOMAIN (<<err>> \o End) :
             LineOK((<<err>> \o End)[k]) /\ ((<<err>> \o End)[k].type = "END" <=> k = Len(<<err>> \o End))
    BY <2>5, Finally
  <2>9. SizesFirst(<<err>> \o End)
    <3>1. SizesFirst(<<err>>)
      BY DEF SizesFirst
    <3> QED BY <2>5, <3>1, Finally
  <2> QED BY <2>3, <2>4, <2>6, <2>7, <2>8, <2>9
<1>3. CASE Resolved(path) = "directory"
  <2>1. PICK base : base = <<BaseLine>>
    OBVIOUS
  <2>2. PICK du : du = DuLines(path)
    OBVIOUS
  <2>3. PICK stat : stat = StatLines(path)
    OBVIOUS
  <2>4. PICK cut : cut = IF Len(Items(path)) > MaxEntries THEN <<CutShort>> ELSE <<>>
    OBVIOUS
  <2>5. PICK count : count = IF request.mode = "measure" THEN <<FileLine>> \o <<DirLine>> ELSE <<>>
    OBVIOUS
  <2>6. Body(base) /\ Has(base, BaseLine)
    <3>1. LineOK(BaseLine) /\ BaseLine.type = "BASE"
      BY DEF LineOK, MoreOK, Nothing, BaseLine
    <3> QED BY <2>1, <3>1, OneLine
  <2>7. Body(du) /\ Has(du, BaseSize) /\ AllSizing(du)
    BY <1>1, <2>2, DuLinesOK
  <2>8. Body(stat) /\ NoneSizing(stat)
    BY <1>1, <2>3, StatLinesOK
  <2>9. Body(cut) /\ NoneSizing(cut) /\ (Len(Items(path)) > MaxEntries => Has(cut, CutShort))
    <3>1. LineOK(CutShort) /\ CutShort.type = "TRUNCATED"
      BY DEF LineOK, MoreOK, Nothing, CutShort
    <3>2. Body(<<CutShort>>) /\ Has(<<CutShort>>, CutShort)
      BY <3>1, OneLine
    <3>3. NoneSizing(<<CutShort>>) /\ NoneSizing(<<>>)
      BY <3>1 DEF NoneSizing, Sizing
    <3> QED BY <2>4, <3>2, <3>3, NoLine
  <2>10. /\ Body(count) /\ NoneSizing(count)
         /\ request.mode = "measure" => Has(count, FileLine) /\ Has(count, DirLine)
    <3>1. LineOK(FileLine) /\ FileLine.type = "FILE_COUNT"
      BY DEF LineOK, MoreOK, Nothing, FileLine
    <3>2. LineOK(DirLine) /\ DirLine.type = "DIR_COUNT"
      BY DEF LineOK, MoreOK, Nothing, DirLine
    <3>3. Body(<<FileLine>>) /\ Has(<<FileLine>>, FileLine) /\ Body(<<DirLine>>) /\ Has(<<DirLine>>, DirLine)
      BY <3>1, <3>2, OneLine
    <3>4. /\ Body(<<FileLine>> \o <<DirLine>>)
          /\ Has(<<FileLine>> \o <<DirLine>>, FileLine) /\ Has(<<FileLine>> \o <<DirLine>>, DirLine)
      BY <3>3, Joined
    <3>5. NoneSizing(<<FileLine>> \o <<DirLine>>) /\ NoneSizing(<<>>)
      <4>1. NoneSizing(<<FileLine>>) /\ NoneSizing(<<DirLine>>) /\ NoneSizing(<<>>)
        BY <3>1, <3>2 DEF NoneSizing, Sizing
      <4>2. <<FileLine>> \in Seq({FileLine}) /\ <<DirLine>> \in Seq({DirLine})
        OBVIOUS
      <4> QED BY <4>1, <4>2, OrderKept
    <3> QED BY <2>5, <3>4, <3>5, NoLine
  <2>11. /\ Body(base \o du) /\ \A line : Has(base, line) \/ Has(du, line) => Has(base \o du, line)
         /\ SizesFirst(base \o du)
    <3>1. PICK V : du \in Seq(V)
      BY <2>7 DEF Body
    <3>2. AllSizing(base) /\ base \in Seq({BaseLine})
      BY <2>1 DEF AllSizing, Sizing, BaseLine
    <3>3. AllSizing(base \o du)
      BY <2>7, <3>1, <3>2, OrderKept
    <3>4. SizesFirst(base \o du)
      BY <3>3 DEF AllSizing, SizesFirst
    <3> QED BY <2>6, <2>7, <3>4, Joined
  <2>12. /\ Body((base \o du) \o stat) /\ SizesFirst((base \o du) \o stat)
         /\ \A line : Has(base \o du, line) => Has((base \o du) \o stat, line)
    BY <2>8, <2>11, Joined
  <2>13. /\ Body(((base \o du) \o stat) \o cut) /\ SizesFirst(((base \o du) \o stat) \o cut)
         /\ \A line : Has((base \o du) \o stat, line) \/ Has(cut, line)
                        => Has(((base \o du) \o stat) \o cut, line)
    BY <2>9, <2>12, Joined
  <2>14. PICK most : most = ((base \o du) \o stat) \o cut
    OBVIOUS
  <2>15. /\ Body(most \o count) /\ SizesFirst(most \o count)
         /\ \A line : Has(most, line) \/ Has(count, line) => Has(most \o count, line)
    BY <2>10, <2>13, <2>14, Joined
  <2>16. PICK all : all = most \o count
    OBVIOUS
  <2>17. /\ all \o End \in Seq(Range(all \o End)) /\ all \o End # <<>>
         /\ \A k \in DOMAIN (all \o End) :
              LineOK((all \o End)[k]) /\ ((all \o End)[k].type = "END" <=> k = Len(all \o End))
         /\ SizesFirst(all \o End)
    BY <2>15, <2>16, Finally
  <2>18. \A line : Has(all, line) => Has(all \o End, line)
    BY <2>15, <2>16, Finally
  <2>19. Planned = all \o End
    <3>1. CountLines = <<FileLine>> \o <<DirLine>>
      BY DEF CountLines, FileLine, DirLine
    <3> QED BY <1>1, <1>3, <2>1, <2>2, <2>3, <2>4, <2>5, <2>14, <2>16, <3>1
        DEF Planned, Script, BaseLine, CutShort
  <2>20. Has(all, BaseLine) /\ Has(all, BaseSize)
    BY <2>6, <2>7, <2>11, <2>12, <2>13, <2>14, <2>15, <2>16
  <2>21. request.mode = "measure" => Has(all, FileLine) /\ Has(all, DirLine)
    BY <2>10, <2>15, <2>16
  <2>22. Len(Items(path)) > MaxEntries => Has(all, CutShort)
    BY <2>9, <2>13, <2>14, <2>15, <2>16
  <2>23. request.mode = "measure" => path = Root
    BY <1>1, Asked
  <2> QED BY <1>1, <1>3, <2>17, <2>18, <2>19, <2>20, <2>21, <2>22, <2>23
<1> QED BY <1>1, <1>2, <1>3

-----------------------------------------------------------------------------
(* ScanProbe: the invariant.                                               *)

Parsed(p) ==
    /\ p = [base |-> p.base, sizes |-> p.sizes, stats |-> p.stats,
            files |-> p.files, dirs |-> p.dirs, truncated |-> p.truncated,
            error |-> p.error, completed |-> p.completed]
    /\ p.sizes = [path \in Child \cup {Root, Elsewhere} |-> p.sizes[path]]
    /\ p.completed \in BOOLEAN /\ p.truncated \in BOOLEAN

ProbeTypes ==
    /\ Places /\ stage \in {"new", "probing", "walking", "done"} /\ whole \in BOOLEAN
    /\ left \in Seq(Range(Planned)) /\ Parsed(parsed)
    /\ walk = [left |-> walk.left, counted |-> walk.counted, entries |-> walk.entries,
               bytes |-> walk.bytes, files |-> walk.files, dirs |-> walk.dirs,
               late |-> walk.late, cut |-> walk.cut]
    /\ walk.late \in BOOLEAN /\ walk.cut \in BOOLEAN

\* What has arrived is what the script was going to print, or a name.
ReadOK ==
    /\ request.mode = "measure" => parsed.sizes[Root] \in {0, Blocks(Volume)}
    /\ \/ parsed.error = "none"
       \/ parsed.error = "OUTSIDE_ROOT" /\ Resolved(request.path) = "outside"
       \/ parsed.error = "NOT_A_DIRECTORY" /\ Resolved(request.path) = "no directory"
       \/ Says("ERROR")

\* The last line comes last, so that as long as any is to come, or it has
\* come, no line was lost but those of a du that was killed.  An END that a
\* name spells comes after the sizes.
LastIsLast ==
    left # <<>> =>
        /\ parsed.completed => Says("END") /\ NoneSizing(left)
        /\ SizesFirst(left)
        /\ \A k \in DOMAIN left : left[k].type = "END" <=> k = Len(left)

NothingLost ==
    left # <<>> \/ (parsed.completed /\ ~ Says("END")) =>
        /\ Resolved(request.path) # "directory" =>
             parsed.error # "none" \/ \E line : line.type = "ERROR" /\ Has(left, line)
        /\ request.mode = "measure" =>
            /\ Len(Items(Root)) > MaxEntries => parsed.truncated \/ Has(left, CutShort)
            /\ OneLinePerName => parsed.files = LineCount(Files) \/ Has(left, FileLine)
            /\ OneLinePerName => parsed.dirs = 1 + LineCount(Dirs) \/ Has(left, DirLine)

SizesKept ==
    (left # <<>> \/ parsed.completed) /\ request.mode = "measure" =>
        /\ ~ Says("BASE") => parsed.base = {request.path} \/ Has(left, BaseLine)
        /\ whole => parsed.sizes[request.path] = Blocks(Volume) \/ Has(left, BaseSize)

Visited == {c \in Child : \A k \in DOMAIN walk.left : walk.left[k] # c}
InFull == ~ walk.cut /\ Len(Items(Root)) <= MaxEntries

\* The walk has counted every inode of the children behind it once, or some
\* of them if it was cut short.
WalkOK ==
    /\ walk.left \in Seq(Child)
    /\ \A k \in DOMAIN walk.left : tree[walk.left[k]].kind # "none"
    /\ \A j, k \in DOMAIN walk.left : walk.left[j] = walk.left[k] => j = k
    /\ \E seen \in SUBSET InodesOf(Visited) :
        /\ walk.bytes = Blocks(seen) /\ walk.counted = seen \cap {Shared}
        /\ InFull => seen = InodesOf(Visited)
    /\ InFull => /\ walk.files = Cardinality(FilesOf(Visited))
                 /\ walk.dirs = Cardinality(DirsOf(Visited))

\* What is to be shown of an answer, and that there is none before the end.
Answers ==
    /\ stage # "done" => answer = Nowhere
    /\ ListsOnlyInside /\ ReadsItsOwnMachine /\ WholeUnlessFlagged
    /\ answer.verdict \in {"none", "ok", "PATH_TRAVERSAL", "PATH_NOT_FOUND", "SCAN_FAILED"}

ProbeIInv ==
    /\ ProbeTypes /\ Answers
    /\ stage = "new" => walk = NoWalk /\ parsed = NoLines /\ whole
    /\ stage = "probing" => ReadOK /\ LastIsLast /\ NothingLost /\ SizesKept
    /\ stage = "walking" => WalkUsable /\ Resolved(request.path) = "directory"
    /\ stage = "walking" /\ request.mode = "measure" => WalkOK

-----------------------------------------------------------------------------

\* Nor do the lines change that were to be printed.
LEMMA SameQuestion ==
  ASSUME world' = world, Places
  PROVE  /\ BaseLine' = BaseLine /\ BaseSize' = BaseSize /\ CutShort' = CutShort
         /\ FileLine' = FileLine /\ DirLine' = DirLine /\ Planned' = Planned
         /\ Blocks(Volume)' = Blocks(Volume)
         /\ Cardinality(Files)' = Cardinality(Files) /\ Cardinality(Dirs)' = Cardinality(Dirs)
<1>1. /\ \A c \in Child : InodesUnder(c)' = InodesUnder(c)
      /\ Volume' = Volume /\ Files' = Files /\ Dirs' = Dirs
      /\ LineCount(Files)' = LineCount(Files) /\ LineCount(Dirs)' = LineCount(Dirs)
      /\ Items(request.path)' = Items(request.path) /\ Resolved(request.path)' = Resolved(request.path)
  BY SameWorld
<1>2. tree' = tree /\ cutTo' = cutTo /\ second' = second /\ request' = request
  BY DEF world
<1>3. PICK path \in Child \cup {Root} : path = request.path
  BY Asked
<1>4. Under(request.path)' = Under(request.path)
  BY <1>1, <1>2, <1>3 DEF Under
<1>5. /\ Blocks(Volume)' = Blocks(Volume)
      /\ Cardinality(Files)' = Cardinality(Files) /\ Cardinality(Dirs)' = Cardinality(Dirs)
  BY <1>1
<1>6. BaseSize' = BaseSize
  BY <1>2, <1>4 DEF BaseSize
<1>7. BaseLine' = BaseLine /\ CutShort' = CutShort /\ FileLine' = FileLine /\ DirLine' = DirLine
  BY <1>1, <1>2 DEF BaseLine, CutShort, FileLine, DirLine
<1>8. Planned' = Planned
  BY <1>1, <1>2 DEF Planned, Script, DuLines, StatLines, CountLines, FirstMet,
             Inodes, InodesUnder, Kind, CutName, Under, AfterSize, AfterName, TwoLines
<1> QED BY <1>5, <1>6, <1>7, <1>8

LEMMA ProbeBegins == ProbeInit => ProbeIInv
<1> SUFFICES ASSUME ProbeInit PROVE ProbeIInv
  OBVIOUS
<1>1. Places
  BY DEF ProbeInit, Places
<1>2. parsed = NoLines /\ walk = NoWalk /\ stage = "new" /\ left = <<>> /\ whole = TRUE /\ answer = Nowhere
  BY DEF ProbeInit
<1>3. /\ parsed = [base |-> parsed.base, sizes |-> parsed.sizes, stats |-> parsed.stats,
                 files |-> parsed.files, dirs |-> parsed.dirs, truncated |-> parsed.truncated,
                 error |-> parsed.error, completed |-> parsed.completed]
      /\ parsed.completed = FALSE /\ parsed.truncated = FALSE
      /\ parsed.sizes = [path \in Child \cup {Root, Elsewhere} |-> 0]
  BY <1>2 DEF NoLines
<1>4. Parsed(parsed)
  BY <1>3 DEF Parsed
<1>5. /\ walk = [left |-> walk.left, counted |-> walk.counted, entries |-> walk.entries,
                 bytes |-> walk.bytes, files |-> walk.files, dirs |-> walk.dirs,
                 late |-> walk.late, cut |-> walk.cut]
      /\ walk.late = FALSE /\ walk.cut = FALSE
  BY <1>2 DEF NoWalk
<1>6. left \in Seq(Range(Planned))
  BY <1>2
<1>7. ProbeTypes
  BY <1>1, <1>2, <1>3, <1>4, <1>5, <1>6 DEF ProbeTypes
<1>8. Answers
  BY <1>2 DEF Answers, Nowhere, ListsOnlyInside, ReadsItsOwnMachine, WholeUnlessFlagged, Answered
<1> QED BY <1>2, <1>7, <1>8 DEF ProbeIInv

\* What one line adds to what the parser has.
Added(q, line, p) ==
    /\ Parsed(p)
    /\ p.base = IF line.type = "BASE" THEN {line.path} ELSE q.base
    /\ \A path \in Child \cup {Root} :
           p.sizes[path] = IF line.type = "DU" /\ line.path = path THEN line.n ELSE q.sizes[path]
    /\ p.files = IF line.type = "FILE_COUNT" THEN line.n ELSE q.files
    /\ p.dirs = IF line.type = "DIR_COUNT" THEN line.n ELSE q.dirs
    /\ p.truncated <=> line.type = "TRUNCATED" \/ q.truncated
    /\ p.error = IF line.type = "ERROR" THEN line.token ELSE q.error
    /\ p.completed <=> line.type = "END" \/ q.completed

LEMMA OneLineMore ==
  ASSUME NEW q, Parsed(q), NEW line, NEW p, p = Parse(q, line),
         line.type \in {"NONE", "TEXT", "BASE", "DU", "STAT", "FILE_COUNT", "DIR_COUNT",
                       "TRUNCATED", "ERROR", "END"}
  PROVE  Added(q, line, p)
<1>1. /\ q = [base |-> q.base, sizes |-> q.sizes, stats |-> q.stats,
             files |-> q.files, dirs |-> q.dirs, truncated |-> q.truncated,
             error |-> q.error, completed |-> q.completed]
      /\ q.sizes = [path \in Child \cup {Root, Elsewhere} |-> q.sizes[path]]
      /\ q.completed \in BOOLEAN /\ q.truncated \in BOOLEAN
  BY DEF Parsed
<1>2. CASE line.type \in {"NONE", "TEXT"}
  <2>1. p = q
    BY <1>2 DEF Parse
  <2> QED BY <1>2, <2>1 DEF Added
<1>3. CASE line.type = "BASE"
  <2>1. p = [q EXCEPT !.base = {line.path}]
    BY <1>3 DEF Parse
  <2> QED BY <1>1, <1>3, <2>1 DEF Added, Parsed
<1>4. CASE line.type = "DU"
  <2>1. PICK sizes : sizes = [q.sizes EXCEPT ![line.path] = line.n]
    OBVIOUS
  <2>2. p = [q EXCEPT !.sizes = sizes]
    BY <1>4, <2>1 DEF Parse
  <2>3. \A path \in Child \cup {Root} :
          sizes[path] = IF line.path = path THEN line.n ELSE q.sizes[path]
    BY <1>1, <2>1
  <2>4. sizes = [path \in Child \cup {Root, Elsewhere} |-> sizes[path]]
    BY <1>1, <2>1
  <2>5. p.sizes = sizes
    BY <1>1, <2>2
  <2> QED BY <1>1, <1>4, <2>2, <2>3, <2>4, <2>5 DEF Added, Parsed
<1>5. CASE line.type = "STAT"
  <2>1. p = [q EXCEPT !.stats = Append(@, line)]
    BY <1>5 DEF Parse
  <2> QED BY <1>1, <1>5, <2>1 DEF Added, Parsed
<1>6. CASE line.type = "FILE_COUNT"
  <2>1. p = [q EXCEPT !.files = line.n]
    BY <1>6 DEF Parse
  <2> QED BY <1>1, <1>6, <2>1 DEF Added, Parsed
<1>7. CASE line.type = "DIR_COUNT"
  <2>1. p = [q EXCEPT !.dirs = line.n]
    BY <1>7 DEF Parse
  <2> QED BY <1>1, <1>7, <2>1 DEF Added, Parsed
<1>8. CASE line.type = "TRUNCATED"
  <2>1. p = [q EXCEPT !.truncated = TRUE]
    BY <1>8 DEF Parse
  <2> QED BY <1>1, <1>8, <2>1 DEF Added, Parsed
<1>9. CASE line.type = "ERROR"
  <2>1. p = [q EXCEPT !.error = line.token]
    BY <1>9 DEF Parse
  <2> QED BY <1>1, <1>9, <2>1 DEF Added, Parsed
<1>10. CASE line.type = "END"
  <2>1. p = [q EXCEPT !.completed = TRUE]
    BY <1>10 DEF Parse
  <2> QED BY <1>1, <1>10, <2>1 DEF Added, Parsed
<1> QED BY <1>2, <1>3, <1>4, <1>5, <1>6, <1>7, <1>8, <1>9, <1>10

\* What a record adds, with what follows the name in it.
RecordAdded(line, p) ==
    /\ Parsed(p)
    /\ ~ Says("BASE") => p.base = IF line.type = "BASE" THEN {request.path} ELSE parsed.base
    /\ \A path \in Child \cup {Root} :
           p.sizes[path] = IF line.type = "DU" /\ line.path = path THEN line.n ELSE parsed.sizes[path]
    /\ OneLinePerName => p.files = IF line.type = "FILE_COUNT" THEN line.n ELSE parsed.files
    /\ OneLinePerName => p.dirs = IF line.type = "DIR_COUNT" THEN line.n ELSE parsed.dirs
    /\ line.type = "TRUNCATED" \/ parsed.truncated => p.truncated
    /\ Says("ERROR") \/ p.error = IF line.type = "ERROR" THEN line.token ELSE parsed.error
    /\ p.completed => line.type = "END" \/ parsed.completed \/ (Says("END") /\ line.type = "STAT")
    /\ line.type = "END" \/ parsed.completed => p.completed

LEMMA OneRecordMore ==
  ASSUME ProbeTypes, NEW line, LineOK(line), NEW p, p = Parse(Parse(parsed, line), line.more)
  PROVE  RecordAdded(line, p)
<1>1. PICK q : q = Parse(parsed, line)
  OBVIOUS
<1>2. PICK more : more = line.more
  OBVIOUS
<1>3. Parsed(parsed) /\ MoreOK(line)
  BY DEF ProbeTypes, LineOK
<1>4. line.type \in {"NONE", "TEXT", "BASE", "DU", "STAT", "FILE_COUNT", "DIR_COUNT",
                    "TRUNCATED", "ERROR", "END"}
  BY DEF LineOK
<1>5. Added(parsed, line, q)
  BY <1>1, <1>3, <1>4, OneLineMore
<1>6. /\ more.type \in {"NONE", "TEXT", "BASE", "DU", "STAT", "FILE_COUNT", "DIR_COUNT",
                       "TRUNCATED", "ERROR", "END"}
      /\ more.type \notin {"NONE", "TEXT", "DU"} => Says(more.type) /\ line.type = "STAT"
      /\ more.type \in {"BASE", "DU"} => more.path = Elsewhere
  BY <1>2, <1>3 DEF MoreOK
<1>7. Added(q, more, p)
  <2>1. Parsed(q)
    BY <1>5 DEF Added
  <2> QED BY <1>1, <1>2, <1>6, <2>1, OneLineMore
<1>8. Elsewhere \notin Child \cup {Root}
  BY ChildrenAre
<1>9. OneLinePerName => \A type : ~ Says(type)
  BY DEF OneLinePerName, Says
<1>10. /\ more.type = "BASE" => Says("BASE")
       /\ more.type = "ERROR" => Says("ERROR")
       /\ more.type = "END" => Says("END") /\ line.type = "STAT"
       /\ more.type = "FILE_COUNT" => ~ OneLinePerName
       /\ more.type = "DIR_COUNT" => ~ OneLinePerName
  BY <1>6, <1>9
<1>11. line.type = "BASE" => line.path = request.path
  BY DEF LineOK
<1>12. \A path \in Child \cup {Root} : p.sizes[path] = q.sizes[path]
  BY <1>6, <1>7, <1>8 DEF Added
<1>13. /\ ~ Says("BASE") => p.base = q.base
       /\ OneLinePerName => p.files = q.files /\ p.dirs = q.dirs
       /\ q.truncated => p.truncated
       /\ Says("ERROR") \/ p.error = q.error
       /\ p.completed => q.completed \/ (Says("END") /\ line.type = "STAT")
       /\ q.completed => p.completed
       /\ Parsed(p)
  BY <1>7, <1>10 DEF Added
<1> QED BY <1>5, <1>11, <1>12, <1>13 DEF Added, RecordAdded

LEMMA LinesLeft ==
  ASSUME ProbeTypes
  PROVE  /\ Len(left) \in Nat /\ DOMAIN left = 1 .. Len(left) /\ (left # <<>> => Len(left) > 0)
         /\ \A k \in DOMAIN left : LineOK(left[k])
<1>1. PICK plan : plan = Range(Planned)
  OBVIOUS
<1>2. left \in Seq(plan)
  BY <1>1 DEF ProbeTypes
<1>3. Len(left) \in Nat /\ DOMAIN left = 1 .. Len(left) /\ \A k \in 1 .. Len(left) : left[k] \in plan
  BY <1>2, LenProperties, ElementOfSeq
<1>4. \A line \in plan : LineOK(line)
  BY <1>1, ScriptSays DEF Range, ProbeTypes
<1>5. left # <<>> => Len(left) > 0
  BY <1>2, <1>3, EmptySeq
<1> QED BY <1>3, <1>4, <1>5

\* A step of the probe keeps the types.
LEMMA ProbeStepTypes ==
  ASSUME ProbeTypes, world' = world, walk' = walk, whole' \in BOOLEAN,
         stage' \in {"new", "probing", "walking", "done"},
         left' \in Seq(Range(Planned)), parsed' = parsed
  PROVE  ProbeTypes'
<1>1. Planned' = Planned /\ (Places <=> Places')
  BY SameQuestion, SameWorld DEF ProbeTypes
<1>2. tree' = tree
  BY DEF world
<1> QED BY <1>1 DEF ProbeTypes

\* Before the end there is nothing to show of the answer.
LEMMA NoAnswerYet ==
  ASSUME ProbeIInv, world' = world, stage # "done", answer' = answer
  PROVE  Answers'
<1>1. answer' = Nowhere
  BY DEF ProbeIInv, Answers
<1> QED BY <1>1 DEF Answers, Nowhere, ListsOnlyInside, ReadsItsOwnMachine, WholeUnlessFlagged, Answered

\* A refusal that is justified.
LEMMA Rejected ==
  ASSUME NEW verdict \in {"PATH_TRAVERSAL", "PATH_NOT_FOUND", "SCAN_FAILED"},
         ProbeIInv, world' = world, Reject(verdict),
         verdict = "PATH_TRAVERSAL" => Resolved(request.path) = "outside" \/ Says("ERROR"),
         verdict = "PATH_NOT_FOUND" => Resolved(request.path) = "no directory" \/ Says("ERROR")
  PROVE  Answers' /\ stage' = "done"
<1>1. Resolved(request.path)' = Resolved(request.path) /\ (Says("ERROR") <=> Says("ERROR")')
  BY SameWorld
<1>2. answer' = [verdict |-> verdict] /\ stage' = "done" /\ answer'.verdict = verdict
  BY DEF Reject
<1> QED BY <1>1, <1>2 DEF Answers, ListsOnlyInside, ReadsItsOwnMachine, WholeUnlessFlagged, Answered

-----------------------------------------------------------------------------

LEMMA ChoiceKeepsIt == ASSUME ProbeIInv, ResolveStrategy PROVE ProbeIInv'
<1>1. /\ ProbeTypes /\ stage = "new" /\ walk = NoWalk /\ parsed = NoLines /\ whole
      /\ world' = world /\ parsed' = parsed /\ whole' = whole /\ Places
  BY DEF ProbeIInv, ResolveStrategy, ProbeTypes
<1>2. /\ Planned' = Planned /\ BaseLine' = BaseLine /\ BaseSize' = BaseSize /\ CutShort' = CutShort
      /\ FileLine' = FileLine /\ DirLine' = DirLine /\ Blocks(Volume)' = Blocks(Volume)
      /\ Items(Root)' = Items(Root) /\ Resolved(request.path)' = Resolved(request.path)
      /\ LineCount(Files)' = LineCount(Files) /\ LineCount(Dirs)' = LineCount(Dirs)
      /\ (WalkUsable <=> WalkUsable') /\ (Places <=> Places') /\ request' = request /\ tree' = tree
  BY <1>1, SameQuestion, SameWorld DEF world
<1>3. CASE ~ WalkUsable
  <2>1. stage' = "probing" /\ left' = Planned /\ walk' = walk /\ answer' = answer
    BY <1>3 DEF ResolveStrategy, Planned
  <2>2. /\ Planned \in Seq(Range(Planned)) /\ Planned # <<>>
        /\ \A k \in DOMAIN Planned : LineOK(Planned[k]) /\ (Planned[k].type = "END" <=> k = Len(Planned))
        /\ SizesFirst(Planned)
        /\ Resolved(request.path) # "directory" => \E line : line.type = "ERROR" /\ Has(Planned, line)
        /\ request.mode = "measure" =>
                /\ Has(Planned, BaseLine) /\ Has(Planned, BaseSize)
                /\ Has(Planned, FileLine) /\ Has(Planned, DirLine)
                /\ Len(Items(Root)) > MaxEntries => Has(Planned, CutShort)
    BY <1>1, ScriptSays
  <2>3. ProbeTypes'
    BY <1>1, <2>1, <2>2, ProbeStepTypes
  <2>4. Answers'
    BY <1>1, <2>1, NoAnswerYet
  <2>5. parsed' = NoLines
    BY <1>1
  <2>6. ReadOK'
    <3>1. parsed'.error = "none" /\ parsed'.sizes[Root] = 0
      BY <2>5 DEF NoLines
    <3> QED BY <3>1 DEF ReadOK
  <2>7. LastIsLast'
    <3>1. parsed'.completed = FALSE
      BY <2>5 DEF NoLines
    <3>2. SizesFirst(left')
      BY <2>1, <2>2
    <3> QED BY <2>1, <2>2, <3>1, <3>2 DEF LastIsLast, SizesFirst
  <2>8. NothingLost' /\ SizesKept'
    <3>1. /\ Has(left', BaseLine) <=> Has(Planned, BaseLine)
          /\ Has(left', BaseSize) <=> Has(Planned, BaseSize)
          /\ Has(left', CutShort) <=> Has(Planned, CutShort)
          /\ Has(left', FileLine) <=> Has(Planned, FileLine)
          /\ Has(left', DirLine) <=> Has(Planned, DirLine)
          /\ \A line : Has(left', line) <=> Has(Planned, line)
      BY <2>1
    <3> QED BY <1>2, <2>2, <3>1 DEF NothingLost, SizesKept
  <2> QED BY <2>1, <2>3, <2>4, <2>6, <2>7, <2>8 DEF ProbeIInv
<1>4. CASE WalkUsable
  <2>1. left' = left /\ StartWalk
    BY <1>4 DEF ResolveStrategy
  <2>2. left \in Seq(Range(Planned))
    BY <1>1 DEF ProbeTypes
  <2>3. PICK path \in Child \cup {Root} : path = request.path
    BY <1>1, Asked
  <2>4. Resolved(path) \in {"directory", "outside", "no directory"}
    BY DEF Resolved
  <2>5. request.mode \in {"measure", "list"} /\ (request.mode = "measure" => path = Root)
    BY <1>1, <2>3, Asked
  <2>6. path = Root => Resolved(path) = "directory"
    BY DEF Resolved
  <2>7. \/ Reject("PATH_TRAVERSAL") /\ Resolved(path) = "outside" /\ walk' = walk
        \/ Reject("PATH_NOT_FOUND") /\ Resolved(path) = "no directory" /\ walk' = walk
        \/ Reject("SCAN_FAILED") /\ walk' = walk
        \/ /\ Resolved(path) = "directory" /\ stage' = "walking" /\ answer' = answer
           /\ walk' = [NoWalk EXCEPT !.left = Capped(Items(path))]
    <3>1. PICK readable \in BOOLEAN : readable <=> path = Root \/ tree[path].open
      OBVIOUS
    <3>2. CASE request.mode = "list" /\ Resolved(path) = "outside"
      BY <2>1, <2>3, <3>2 DEF StartWalk
    <3>3. CASE request.mode = "list" /\ Resolved(path) = "no directory"
      BY <2>1, <2>3, <3>3 DEF StartWalk
    <3>4. CASE Resolved(path) = "directory" /\ ~ readable
      BY <2>1, <2>3, <3>1, <3>4 DEF StartWalk
    <3>5. CASE Resolved(path) = "directory" /\ readable
      BY <2>1, <2>3, <3>1, <3>5 DEF StartWalk
    <3> QED BY <2>4, <2>5, <2>6, <3>1, <3>2, <3>3, <3>4, <3>5
  <2>8. ASSUME NEW verdict \in {"PATH_TRAVERSAL", "PATH_NOT_FOUND", "SCAN_FAILED"},
               Reject(verdict), walk' = walk,
               verdict = "PATH_TRAVERSAL" => Resolved(path) = "outside",
               verdict = "PATH_NOT_FOUND" => Resolved(path) = "no directory"
        PROVE  ProbeIInv'
    <3>1. Answers' /\ stage' = "done"
      BY <1>1, <2>3, <2>8, Rejected
    <3>2. ProbeTypes'
      BY <1>1, <2>1, <2>2, <2>8, <3>1, ProbeStepTypes
    <3> QED BY <3>1, <3>2 DEF ProbeIInv
  <2>9. ASSUME Resolved(path) = "directory", stage' = "walking", answer' = answer,
               walk' = [NoWalk EXCEPT !.left = Capped(Items(path))]
        PROVE  ProbeIInv'
    <3>1. Answers'
      BY <1>1, <2>9, NoAnswerYet
    <3>2. PICK start : start = Capped(Items(path))
      OBVIOUS
    <3>3. /\ walk' = [left |-> walk'.left, counted |-> walk'.counted, entries |-> walk'.entries,
                      bytes |-> walk'.bytes, files |-> walk'.files, dirs |-> walk'.dirs,
                      late |-> walk'.late, cut |-> walk'.cut]
          /\ walk'.left = start /\ walk'.counted = {} /\ walk'.bytes = 0 /\ walk'.files = 0 /\ walk'.dirs = 0
          /\ walk'.late = FALSE /\ walk'.cut = FALSE
      BY <2>9, <3>2 DEF NoWalk
    <3>4. ProbeTypes'
      BY <1>1, <1>2, <2>1, <2>2, <2>9, <3>3 DEF ProbeTypes
    <3>5. ASSUME request.mode = "measure" PROVE WalkOK'
      <4>1. start = Capped(Items(Root))
        BY <2>5, <3>2, <3>5
      <4>2. /\ Items(Root) \in Seq(Child) /\ Len(Items(Root)) \in Nat
            /\ \A k \in 1 .. Len(Items(Root)) : tree[Items(Root)[k]].kind # "none"
            /\ \A j, k \in 1 .. Len(Items(Root)) : Items(Root)[j] = Items(Root)[k] => j = k
            /\ \A c \in Child : tree[c].kind # "none" => \E k \in 1 .. Len(Items(Root)) : Items(Root)[k] = c
        BY <1>1, ItemsOfRoot
      <4>3. PICK C : C = Child
        OBVIOUS
      <4>4. PICK items : items = Items(Root)
        OBVIOUS
      <4>5. /\ start \in Seq(C) /\ Len(start) \in 0 .. Len(items)
            /\ \A k \in 1 .. Len(start) : start[k] = items[k]
            /\ Len(items) <= MaxEntries => Len(start) = Len(items)
        BY <4>1, <4>2, <4>3, <4>4, CapIs
      <4>6. DOMAIN start = 1 .. Len(start)
        BY <4>5, LenProperties
      <4>7. /\ \A k \in DOMAIN start : tree[start[k]].kind # "none"
            /\ \A j, k \in DOMAIN start : start[j] = start[k] => j = k
        BY <4>2, <4>4, <4>5, <4>6
      <4>8. PICK V : V = {c \in Child : \A k \in DOMAIN start : start[k] # c}
        OBVIOUS
      <4>9. Visited' = V
        BY <3>3, <4>8 DEF Visited
      <4>10. Len(items) <= MaxEntries => \A c \in V : tree[c].kind = "none"
        BY <4>2, <4>4, <4>5, <4>6, <4>8
      <4>11. /\ \A c \in Child : InodesUnder(c)' = InodesUnder(c)
             /\ \A c \in Child : FilesIn(c)' = FilesIn(c) /\ DirsIn(c)' = DirsIn(c)
        BY <1>1, SameWorld
      <4>12. /\ InodesOf(Visited)' = InodesOf(V) /\ FilesOf(Visited)' = FilesOf(V)
             /\ DirsOf(Visited)' = DirsOf(V)
        BY <4>8, <4>9, <4>11 DEF InodesOf, FilesOf, DirsOf
      <4>13. Len(items) <= MaxEntries => InodesOf(V) = {} /\ FilesOf(V) = {} /\ DirsOf(V) = {}
        BY <1>1, <4>8, <4>10, BelowChild DEF InodesOf, FilesOf, DirsOf
      <4>14. InFull' => InodesOf(V) = {} /\ FilesOf(V) = {} /\ DirsOf(V) = {}
        BY <1>2, <4>4, <4>13 DEF InFull
      <4>15. Blocks({}) = 0 /\ Cardinality({}) = 0
        BY FS_EmptySet DEF Blocks
      <4>16. \E seen \in SUBSET InodesOf(V) :
                /\ walk'.bytes = Blocks(seen) /\ walk'.counted = seen \cap {Shared}
                /\ InFull' => seen = InodesOf(V)
        <5>1. {} \in SUBSET InodesOf(V) /\ {} \cap {Shared} = {}
          OBVIOUS
        <5> QED BY <3>3, <4>14, <4>15, <5>1
      <4>17. InFull' => walk'.files = Cardinality(FilesOf(V)) /\ walk'.dirs = Cardinality(DirsOf(V))
        BY <3>3, <4>14, <4>15
      <4> QED BY <1>2, <3>3, <4>3, <4>5, <4>7, <4>12, <4>16, <4>17 DEF WalkOK
    <3> QED BY <1>2, <1>4, <2>3, <2>9, <3>1, <3>4, <3>5 DEF ProbeIInv
  <2> QED BY <2>7, <2>8, <2>9
<1> QED BY <1>3, <1>4

\* A line moves from what is left to what was read.
LEMMA Arrives == ASSUME ProbeIInv, PrintLine PROVE ProbeIInv'
<1>1. /\ ProbeTypes /\ stage = "probing" /\ stage' = stage /\ left # <<>>
      /\ world' = world /\ walk' = walk /\ whole' = whole /\ answer' = answer /\ Places
      /\ left' = Tail(left) /\ ReadOK /\ LastIsLast /\ NothingLost /\ SizesKept
  BY DEF ProbeIInv, PrintLine, ProbeTypes
<1>2. /\ Planned' = Planned /\ BaseLine' = BaseLine /\ BaseSize' = BaseSize /\ CutShort' = CutShort
      /\ FileLine' = FileLine /\ DirLine' = DirLine /\ Blocks(Volume)' = Blocks(Volume)
      /\ Items(Root)' = Items(Root) /\ Resolved(request.path)' = Resolved(request.path)
      /\ LineCount(Files)' = LineCount(Files) /\ LineCount(Dirs)' = LineCount(Dirs)
      /\ (Places <=> Places') /\ request' = request
      /\ (OneLinePerName <=> OneLinePerName') /\ \A type : Says(type) <=> Says(type)'
  BY <1>1, SameQuestion, SameWorld DEF world
<1>3. /\ Len(left) \in Nat /\ DOMAIN left = 1 .. Len(left) /\ Len(left) > 0
      /\ \A k \in DOMAIN left : LineOK(left[k])
  BY <1>1, LinesLeft
<1>4. PICK rest : rest = Tail(left)
  OBVIOUS
<1>5. PICK line : line = Head(left)
  OBVIOUS
<1>6. /\ line = left[1] /\ rest \in Seq(Range(Planned)) /\ Len(rest) = Len(left) - 1
      /\ \A i \in 1 .. Len(rest) : rest[i] = left[i + 1]
  <2>1. PICK plan : plan = Range(Planned)
    OBVIOUS
  <2>2. left \in Seq(plan)
    BY <1>1, <2>1 DEF ProbeTypes
  <2>3. /\ Tail(left) \in Seq(plan) /\ Len(Tail(left)) = Len(left) - 1
        /\ \A i \in 1 .. Len(Tail(left)) : Tail(left)[i] = left[i + 1]
    BY <1>1, <2>2, HeadTailProperties
  <2>4. Head(left) = left[1]
    BY <1>1, <2>2
  <2> QED BY <1>4, <1>5, <2>1, <2>3, <2>4
<1>7. PICK n \in Nat : n = Len(rest) /\ Len(left) = n + 1
  <2>1. PICK m : m = Len(left)
    OBVIOUS
  <2>2. m \in Nat /\ m > 0 /\ Len(rest) = m - 1
    BY <1>3, <1>6, <2>1
  <2>3. m - 1 \in Nat /\ m = (m - 1) + 1
    BY <2>2
  <2> QED BY <2>1, <2>2, <2>3
<1>8. DOMAIN rest = 1 .. n /\ DOMAIN left = 1 .. n + 1
  BY <1>3, <1>6, <1>7, LenProperties
<1>9. LineOK(line)
  BY <1>3, <1>6, <1>8
<1>10. PICK p : p = Parse(Parse(parsed, line), line.more)
  OBVIOUS
<1>11. parsed' = p /\ left' = rest
  BY <1>1, <1>4, <1>5, <1>10 DEF PrintLine
<1>12. /\ Parsed(p)
       /\ ~ Says("BASE") => p.base = IF line.type = "BASE" THEN {request.path} ELSE parsed.base
       /\ \A path \in Child \cup {Root} :
              p.sizes[path] = IF line.type = "DU" /\ line.path = path THEN line.n ELSE parsed.sizes[path]
       /\ OneLinePerName => p.files = IF line.type = "FILE_COUNT" THEN line.n ELSE parsed.files
       /\ OneLinePerName => p.dirs = IF line.type = "DIR_COUNT" THEN line.n ELSE parsed.dirs
       /\ line.type = "TRUNCATED" \/ parsed.truncated => p.truncated
       /\ Says("ERROR") \/ p.error = IF line.type = "ERROR" THEN line.token ELSE parsed.error
       /\ p.completed => line.type = "END" \/ parsed.completed \/ (Says("END") /\ line.type = "STAT")
       /\ line.type = "END" \/ parsed.completed => p.completed
  <2>1. ProbeTypes
    BY <1>1
  <2>2. RecordAdded(line, p)
    BY <1>9, <1>10, <2>1, OneRecordMore
  <2> QED BY <2>2 DEF RecordAdded
<1>13. ProbeTypes'
  <2>1. Parsed(p)' <=> Parsed(p)
    BY DEF Parsed
  <2>2. Parsed(parsed)'
    BY <1>11, <1>12, <2>1 DEF Parsed
  <2> QED BY <1>1, <1>2, <1>6, <1>11, <2>2 DEF ProbeTypes
<1>14. Answers'
  BY <1>1, NoAnswerYet
<1>15. request.mode = "measure" => request.path = Root /\ Under(Root) = Volume
  BY <1>1, Asked DEF Under
<1>16. ReadOK'
  <2>1. ASSUME request.mode = "measure" PROVE p.sizes[Root] \in {0, Blocks(Volume)}
    <3>1. line.type = "DU" /\ line.path = Root => line.n = Blocks(Volume)
      BY <1>9, <2>1 DEF LineOK
    <3>2. parsed.sizes[Root] \in {0, Blocks(Volume)}
      BY <1>1, <2>1 DEF ReadOK
    <3> QED BY <1>12, <3>1, <3>2
  <2>2. \/ p.error = "none"
        \/ p.error = "OUTSIDE_ROOT" /\ Resolved(request.path) = "outside"
        \/ p.error = "NOT_A_DIRECTORY" /\ Resolved(request.path) = "no directory"
        \/ Says("ERROR")
    <3>1. CASE Says("ERROR")
      BY <3>1
    <3>2. CASE ~ Says("ERROR") /\ line.type = "ERROR"
      BY <1>9, <1>12, <3>2 DEF LineOK
    <3>3. CASE ~ Says("ERROR") /\ line.type # "ERROR"
      BY <1>1, <1>12, <3>3 DEF ReadOK
    <3> QED BY <3>1, <3>2, <3>3
  <2> QED BY <1>2, <1>11, <2>1, <2>2 DEF ReadOK
<1>17. line.type = "END" <=> n = 0
  BY <1>1, <1>6, <1>7, <1>8 DEF LastIsLast
<1>18. rest # <<>> => n # 0
  BY <1>6, <1>7, EmptySeq
<1>19. LastIsLast'
  <2>1. SUFFICES ASSUME rest # <<>>
                 PROVE  /\ p.completed => Says("END") /\ NoneSizing(rest)
                        /\ SizesFirst(rest)
                        /\ \A k \in DOMAIN rest : rest[k].type = "END" <=> k = Len(rest)
    BY <1>2, <1>11 DEF LastIsLast, NoneSizing, SizesFirst
  <2>2. SizesFirst(left) /\ (parsed.completed => Says("END") /\ NoneSizing(left))
    BY <1>1 DEF LastIsLast
  <2>3. ASSUME NEW k \in 1 .. n PROVE k + 1 \in 1 .. n + 1 /\ rest[k] = left[k + 1] /\ 1 < k + 1
    BY <1>6, <1>7
  <2>4. SizesFirst(rest)
    <3>1. SUFFICES ASSUME NEW j \in 1 .. n, NEW k \in 1 .. n, j < k, Sizing(rest[k]) PROVE Sizing(rest[j])
      BY <1>8 DEF SizesFirst
    <3>2. j + 1 < k + 1 /\ Sizing(left[k + 1])
      BY <2>3, <3>1
    <3>3. Sizing(left[j + 1])
      BY <1>8, <2>2, <2>3, <3>2 DEF SizesFirst
    <3> QED BY <2>3, <3>3
  <2>5. ASSUME p.completed PROVE Says("END") /\ NoneSizing(rest)
    <3>1. CASE parsed.completed
      BY <1>8, <2>2, <2>3, <3>1 DEF NoneSizing
    <3>2. CASE Says("END") /\ line.type = "STAT"
      <4>1. ~ Sizing(left[1]) /\ 1 \in 1 .. n + 1
        BY <1>6, <3>2 DEF Sizing
      <4>2. \A k \in 1 .. n : ~ Sizing(left[k + 1])
        BY <1>8, <2>2, <2>3, <4>1 DEF SizesFirst
      <4> QED BY <1>8, <2>3, <3>2, <4>2 DEF NoneSizing
    <3> QED BY <1>12, <1>17, <1>18, <2>1, <2>5, <3>1, <3>2
  <2>6. ASSUME NEW k \in 1 .. n PROVE rest[k].type = "END" <=> k = n
    <3>1. k + 1 \in 1 .. n + 1 /\ rest[k] = left[k + 1] /\ (k + 1 = n + 1 <=> k = n)
      BY <1>6, <1>7
    <3>2. left[k + 1].type = "END" <=> k + 1 = n + 1
      BY <1>1, <1>7, <1>8, <3>1 DEF LastIsLast
    <3> QED BY <3>1, <3>2
  <2> QED BY <1>7, <1>8, <2>4, <2>5, <2>6
<1>20. ASSUME NEW l, Has(left, l) PROVE l = line \/ Has(rest, l)
  <2>1. PICK k \in 1 .. n + 1 : left[k] = l
    BY <1>8, <1>20 DEF Has
  <2>2. CASE k = 1
    BY <1>6, <2>1, <2>2
  <2>3. CASE k # 1
    <3>1. k - 1 \in 1 .. n /\ (k - 1) + 1 = k
      BY <2>3
    <3>2. rest[k - 1] = l
      BY <1>6, <1>7, <2>1, <3>1
    <3> QED BY <1>8, <3>1, <3>2 DEF Has
  <2> QED BY <2>2, <2>3
<1>21. /\ Resolved(request.path) # "directory" =>
             parsed.error # "none" \/ \E l : l.type = "ERROR" /\ Has(left, l)
       /\ request.mode = "measure" =>
            /\ Len(Items(Root)) > MaxEntries => parsed.truncated \/ Has(left, CutShort)
            /\ OneLinePerName => parsed.files = LineCount(Files) \/ Has(left, FileLine)
            /\ OneLinePerName => parsed.dirs = 1 + LineCount(Dirs) \/ Has(left, DirLine)
  BY <1>1 DEF NothingLost
<1>22. ASSUME Resolved(request.path) # "directory"
       PROVE  p.error # "none" \/ \E l : l.type = "ERROR" /\ Has(rest, l)
  <2>1. ~ Says("ERROR")
    BY <1>22 DEF Says, Resolved
  <2>2. CASE line.type = "ERROR"
    BY <1>9, <1>12, <2>1, <2>2 DEF LineOK
  <2>3. CASE line.type # "ERROR"
    BY <1>12, <1>20, <1>21, <1>22, <2>1, <2>3
  <2> QED BY <2>2, <2>3
<1>23. ASSUME request.mode = "measure"
       PROVE  /\ ~ Says("BASE") => p.base = {request.path} \/ Has(rest, BaseLine)
              /\ whole => p.sizes[request.path] = Blocks(Volume) \/ Has(rest, BaseSize)
              /\ Len(Items(Root)) > MaxEntries => p.truncated \/ Has(rest, CutShort)
              /\ OneLinePerName => p.files = LineCount(Files) \/ Has(rest, FileLine)
              /\ OneLinePerName => p.dirs = 1 + LineCount(Dirs) \/ Has(rest, DirLine)
  <2>1. ~ Says("BASE") => p.base = {request.path} \/ Has(rest, BaseLine)
    <3>1. BaseLine.type = "BASE"
      BY DEF BaseLine
    <3>2. ~ Says("BASE") => parsed.base = {request.path} \/ line = BaseLine \/ Has(rest, BaseLine)
      BY <1>1, <1>20, <1>23 DEF SizesKept
    <3> QED BY <1>12, <3>1, <3>2
  <2>2. whole => p.sizes[request.path] = Blocks(Volume) \/ Has(rest, BaseSize)
    <3>1. BaseSize.type = "DU" /\ BaseSize.path = request.path /\ BaseSize.n = Blocks(Volume)
      BY <1>15, <1>23 DEF BaseSize
    <3>2. line.type = "DU" /\ line.path = request.path => line.n = Blocks(Volume)
      BY <1>9, <1>15, <1>23 DEF LineOK
    <3>3. p.sizes[request.path] =
            IF line.type = "DU" /\ line.path = request.path THEN line.n ELSE parsed.sizes[request.path]
      BY <1>12, <1>15, <1>23
    <3>4. whole => parsed.sizes[request.path] = Blocks(Volume) \/ line = BaseSize \/ Has(rest, BaseSize)
      BY <1>1, <1>20, <1>23 DEF SizesKept
    <3> QED BY <3>1, <3>2, <3>3, <3>4
  <2>3. Len(Items(Root)) > MaxEntries => p.truncated \/ Has(rest, CutShort)
    <3>1. CutShort.type = "TRUNCATED"
      BY DEF CutShort
    <3> QED BY <1>12, <1>20, <1>21, <1>23, <3>1
  <2>4. OneLinePerName => p.files = LineCount(Files) \/ Has(rest, FileLine)
    <3>1. FileLine.type = "FILE_COUNT"
      BY DEF FileLine
    <3>2. line.type = "FILE_COUNT" => line.n = LineCount(Files)
      BY <1>9 DEF LineOK
    <3> QED BY <1>12, <1>20, <1>21, <1>23, <3>1, <3>2
  <2>5. OneLinePerName => p.dirs = 1 + LineCount(Dirs) \/ Has(rest, DirLine)
    <3>1. DirLine.type = "DIR_COUNT"
      BY DEF DirLine
    <3>2. line.type = "DIR_COUNT" => line.n = 1 + LineCount(Dirs)
      BY <1>9 DEF LineOK
    <3> QED BY <1>12, <1>20, <1>21, <1>23, <3>1, <3>2
  <2> QED BY <2>1, <2>2, <2>3, <2>4, <2>5
<1>24. /\ Has(left', BaseLine) <=> Has(rest, BaseLine)
       /\ Has(left', BaseSize) <=> Has(rest, BaseSize)
       /\ Has(left', CutShort) <=> Has(rest, CutShort)
       /\ Has(left', FileLine) <=> Has(rest, FileLine)
       /\ Has(left', DirLine) <=> Has(rest, DirLine)
       /\ \A l : Has(left', l) <=> Has(rest, l)
  BY <1>11
<1>25. NothingLost'
  BY <1>1, <1>2, <1>11, <1>22, <1>23, <1>24 DEF NothingLost
<1>26. SizesKept'
  BY <1>1, <1>2, <1>11, <1>23, <1>24 DEF SizesKept
<1> QED BY <1>1, <1>13, <1>14, <1>16, <1>19, <1>25, <1>26 DEF ProbeIInv

\* What is dropped are lines of du alone.
LEMMA DuFails == ASSUME ProbeIInv, DuDies PROVE ProbeIInv'
<1>1. /\ ProbeTypes /\ stage = "probing" /\ stage' = stage /\ left # <<>>
      /\ world' = world /\ walk' = walk /\ whole' = FALSE /\ answer' = answer /\ Places
      /\ parsed' = parsed /\ ReadOK /\ LastIsLast /\ NothingLost /\ SizesKept
  BY DEF ProbeIInv, DuDies, ProbeTypes
<1>2. /\ Planned' = Planned /\ BaseLine' = BaseLine /\ BaseSize' = BaseSize /\ CutShort' = CutShort
      /\ FileLine' = FileLine /\ DirLine' = DirLine /\ Blocks(Volume)' = Blocks(Volume)
      /\ Items(Root)' = Items(Root) /\ Resolved(request.path)' = Resolved(request.path)
      /\ LineCount(Files)' = LineCount(Files) /\ LineCount(Dirs)' = LineCount(Dirs)
      /\ (Places <=> Places') /\ request' = request
      /\ (OneLinePerName <=> OneLinePerName') /\ \A type : Says(type) <=> Says(type)'
  BY <1>1, SameQuestion, SameWorld DEF world
<1>3. /\ Len(left) \in Nat /\ DOMAIN left = 1 .. Len(left) /\ Len(left) > 0
  BY <1>1, LinesLeft
<1>4. PICK k \in 1 .. Len(left) :
        /\ left[k].type # "DU" /\ \A i \in 1 .. k - 1 : left[i].type = "DU"
        /\ left' = SubSeq(left, k, Len(left))
  BY <1>3 DEF DuDies
<1>5. PICK n \in Nat : n = Len(left)
  BY <1>3
<1>6. PICK rest : rest = SubSeq(left, k, n)
  OBVIOUS
<1>7. left' = rest /\ k \in 1 .. n
  BY <1>4, <1>5, <1>6
<1>8. /\ rest \in Seq(Range(Planned)) /\ Len(rest) = n - k + 1
      /\ \A i \in 1 .. n - k + 1 : rest[i] = left[k + i - 1]
  <2>1. PICK plan : plan = Range(Planned)
    OBVIOUS
  <2>2. left \in Seq(plan)
    BY <1>1, <2>1 DEF ProbeTypes
  <2>3. \A i \in k .. n : left[i] \in plan
    BY <1>5, <1>7, <2>2, ElementOfSeq
  <2>4. k \in Int /\ n \in Int /\ k <= n
    BY <1>7
  <2>5. /\ SubSeq(left, k, n) \in Seq(plan)
        /\ Len(SubSeq(left, k, n)) = IF k <= n THEN n - k + 1 ELSE 0
        /\ \A i \in 1 .. n - k + 1 : SubSeq(left, k, n)[i] = left[k + i - 1]
    BY <2>3, <2>4, SubSeqProperties
  <2> QED BY <1>6, <2>1, <2>4, <2>5
<1>9. DOMAIN rest = 1 .. n - k + 1 /\ DOMAIN left = 1 .. n
  BY <1>3, <1>5, <1>8, LenProperties
<1>10. ProbeTypes'
  BY <1>1, <1>7, <1>8, ProbeStepTypes
<1>11. Answers'
  BY <1>1, NoAnswerYet
<1>12. ReadOK'
  BY <1>1, <1>2 DEF ReadOK
<1>13. LastIsLast'
  <2>1. ASSUME NEW i \in 1 .. n - k + 1
        PROVE  /\ k + i - 1 \in 1 .. n /\ rest[i] = left[k + i - 1]
               /\ k + i - 1 = n <=> i = n - k + 1
    <3>1. k + i - 1 \in 1 .. n /\ (k + i - 1 = n <=> i = n - k + 1)
      BY <1>7
    <3> QED BY <1>8, <3>1
  <2>2. ASSUME NEW i \in 1 .. n - k + 1
        PROVE  rest[i].type = "END" <=> i = n - k + 1
    <3>1. left[k + i - 1].type = "END" <=> k + i - 1 = n
      BY <1>1, <1>5, <1>9, <2>1 DEF LastIsLast
    <3> QED BY <2>1, <3>1
  <2>3. SizesFirst(left) /\ (parsed.completed => Says("END") /\ NoneSizing(left))
    BY <1>1 DEF LastIsLast
  <2>4. SizesFirst(rest)
    <3>1. SUFFICES ASSUME NEW i \in 1 .. n - k + 1, NEW j \in 1 .. n - k + 1, i < j, Sizing(rest[j])
                   PROVE  Sizing(rest[i])
      BY <1>9 DEF SizesFirst
    <3>2. k + i - 1 < k + j - 1
      BY <1>7, <3>1
    <3>3. Sizing(left[k + j - 1])
      BY <2>1, <3>1
    <3>4. Sizing(left[k + i - 1])
      BY <1>9, <2>1, <2>3, <3>2, <3>3 DEF SizesFirst
    <3> QED BY <2>1, <3>4
  <2>5. parsed.completed => Says("END") /\ NoneSizing(rest)
    BY <1>9, <2>1, <2>3 DEF NoneSizing
  <2>6. Len(rest) = n - k + 1
    BY <1>8
  <2> QED BY <1>1, <1>2, <1>7, <1>9, <2>2, <2>4, <2>5, <2>6 DEF LastIsLast, NoneSizing, SizesFirst
<1>14. ASSUME NEW l, Has(left, l), l.type # "DU" PROVE Has(rest, l)
  <2>1. PICK i \in 1 .. n : left[i] = l
    BY <1>9, <1>14 DEF Has
  <2>2. ~ i \in 1 .. k - 1
    BY <1>4, <1>14, <2>1
  <2>3. i - k + 1 \in 1 .. n - k + 1 /\ k + (i - k + 1) - 1 = i
    BY <1>7, <2>2
  <2>4. rest[i - k + 1] = l
    BY <1>8, <2>1, <2>3
  <2> QED BY <1>9, <2>3, <2>4 DEF Has
<1>15. /\ Resolved(request.path) # "directory" =>
             parsed.error # "none" \/ \E l : l.type = "ERROR" /\ Has(left, l)
       /\ request.mode = "measure" =>
            /\ ~ Says("BASE") => parsed.base = {request.path} \/ Has(left, BaseLine)
            /\ Len(Items(Root)) > MaxEntries => parsed.truncated \/ Has(left, CutShort)
            /\ OneLinePerName => parsed.files = LineCount(Files) \/ Has(left, FileLine)
            /\ OneLinePerName => parsed.dirs = 1 + LineCount(Dirs) \/ Has(left, DirLine)
  BY <1>1 DEF NothingLost, SizesKept
<1>16. BaseLine.type # "DU" /\ CutShort.type # "DU" /\ FileLine.type # "DU" /\ DirLine.type # "DU"
  BY DEF BaseLine, CutShort, FileLine, DirLine
<1>17. NothingLost' /\ SizesKept'
  <2>1. /\ Has(left', BaseLine) <=> Has(rest, BaseLine)
        /\ Has(left', CutShort) <=> Has(rest, CutShort)
        /\ Has(left', FileLine) <=> Has(rest, FileLine)
        /\ Has(left', DirLine) <=> Has(rest, DirLine)
        /\ \A l : Has(left', l) <=> Has(rest, l)
    BY <1>7
  <2>2. Resolved(request.path) # "directory" =>
             parsed.error # "none" \/ \E l : l.type = "ERROR" /\ Has(rest, l)
    BY <1>14, <1>15
  <2>3. request.mode = "measure" =>
            /\ ~ Says("BASE") => parsed.base = {request.path} \/ Has(rest, BaseLine)
            /\ Len(Items(Root)) > MaxEntries => parsed.truncated \/ Has(rest, CutShort)
            /\ OneLinePerName => parsed.files = LineCount(Files) \/ Has(rest, FileLine)
            /\ OneLinePerName => parsed.dirs = 1 + LineCount(Dirs) \/ Has(rest, DirLine)
    BY <1>14, <1>15, <1>16
  <2> QED BY <1>1, <1>2, <2>1, <2>2, <2>3 DEF NothingLost, SizesKept
<1> QED BY <1>1, <1>10, <1>11, <1>12, <1>13, <1>17 DEF ProbeIInv

\* The log ends before its last line.
LEMMA ProbeFails == ASSUME ProbeIInv, ProbeDies PROVE ProbeIInv'
<1>1. /\ ProbeTypes /\ stage = "probing" /\ stage' = stage /\ left # <<>> /\ left' = <<>>
      /\ world' = world /\ walk' = walk /\ whole' = whole /\ whole \in BOOLEAN /\ answer' = answer /\ Places
      /\ parsed' = parsed /\ ReadOK /\ LastIsLast /\ SizesKept
  BY DEF ProbeIInv, ProbeDies, ProbeTypes
<1>2. /\ Blocks(Volume)' = Blocks(Volume) /\ Resolved(request.path)' = Resolved(request.path)
      /\ request' = request /\ \A type : Says(type) <=> Says(type)'
  BY <1>1, SameQuestion, SameWorld DEF world
<1>3. left' \in Seq(Range(Planned))
  BY <1>1
<1>4. ProbeTypes'
  BY <1>1, <1>3, ProbeStepTypes
<1>5. Answers'
  BY <1>1, NoAnswerYet
<1>6. ReadOK'
  BY <1>1, <1>2 DEF ReadOK
<1>7. LastIsLast' /\ NothingLost'
  BY <1>1, <1>2 DEF LastIsLast, NothingLost
<1>8. SizesKept'
  <2>1. SUFFICES ASSUME parsed.completed, request.mode = "measure"
                 PROVE  /\ ~ Says("BASE") => parsed.base = {request.path}
                        /\ whole => parsed.sizes[request.path] = Blocks(Volume)
    BY <1>1, <1>2 DEF SizesKept
  <2>2. NoneSizing(left)
    BY <1>1, <2>1 DEF LastIsLast
  <2>3. Sizing(BaseLine) /\ Sizing(BaseSize)
    BY DEF Sizing, BaseLine, BaseSize
  <2>4. ~ Has(left, BaseLine) /\ ~ Has(left, BaseSize)
    BY <2>2, <2>3 DEF NoneSizing, Has
  <2> QED BY <1>1, <2>1, <2>4 DEF SizesKept
<1> QED BY <1>1, <1>4, <1>5, <1>6, <1>7, <1>8 DEF ProbeIInv

\* The last line has come: so have the others.
LEMMA Concludes == ASSUME ProbeIInv, ProbeVerdict PROVE ProbeIInv'
<1>1. /\ ProbeTypes /\ stage = "probing" /\ left = <<>> /\ left' = left
      /\ world' = world /\ walk' = walk /\ whole' = whole /\ whole \in BOOLEAN /\ Places
      /\ parsed' = parsed /\ ReadOK /\ NothingLost /\ SizesKept
  BY DEF ProbeIInv, ProbeVerdict, ProbeTypes
<1>2. /\ Blocks(Volume)' = Blocks(Volume) /\ Items(Root)' = Items(Root)
      /\ Resolved(request.path)' = Resolved(request.path)
      /\ Cardinality(Files)' = Cardinality(Files) /\ Cardinality(Dirs)' = Cardinality(Dirs)
      /\ (OneLinePerName <=> OneLinePerName') /\ request' = request /\ target' = target
      /\ \A type : Says(type) <=> Says(type)'
  BY <1>1, SameQuestion, SameWorld DEF world
<1>3. left' \in Seq(Range(Planned))
  BY <1>1 DEF ProbeTypes
<1>4. /\ \/ parsed.error = "none"
         \/ parsed.error = "OUTSIDE_ROOT" /\ Resolved(request.path) = "outside"
         \/ parsed.error = "NOT_A_DIRECTORY" /\ Resolved(request.path) = "no directory"
         \/ Says("ERROR")
      /\ request.mode = "measure" => parsed.sizes[Root] \in {0, Blocks(Volume)}
  BY <1>1 DEF ReadOK
<1>5. ASSUME Answers', stage' = "done" PROVE ProbeIInv'
  <2>1. ProbeTypes'
    BY <1>1, <1>3, <1>5, ProbeStepTypes
  <2> QED BY <1>5, <2>1 DEF ProbeIInv
<1>6. CASE parsed.error \in {"OUTSIDE_ROOT", "NOT_A_DIRECTORY"}
  <2>1. PICK verdict \in {"PATH_TRAVERSAL", "PATH_NOT_FOUND"} :
          verdict = IF parsed.error = "OUTSIDE_ROOT" THEN "PATH_TRAVERSAL" ELSE "PATH_NOT_FOUND"
    OBVIOUS
  <2>2. Reject(verdict)
    BY <1>6, <2>1 DEF ProbeVerdict
  <2>3. /\ verdict = "PATH_TRAVERSAL" => Resolved(request.path) = "outside" \/ Says("ERROR")
        /\ verdict = "PATH_NOT_FOUND" => Resolved(request.path) = "no directory" \/ Says("ERROR")
    BY <1>4, <1>6, <2>1
  <2>4. Answers' /\ stage' = "done"
    BY <1>1, <2>2, <2>3, Rejected
  <2> QED BY <1>5, <2>4
<1>7. CASE parsed.error \notin {"OUTSIDE_ROOT", "NOT_A_DIRECTORY"} /\ ~ parsed.completed
  <2>1. Reject("SCAN_FAILED")
    BY <1>7 DEF ProbeVerdict
  <2>2. Answers' /\ stage' = "done"
    BY <1>1, <2>1, Rejected
  <2> QED BY <1>5, <2>2
<1>8. CASE parsed.error \notin {"OUTSIDE_ROOT", "NOT_A_DIRECTORY"} /\ parsed.completed
  <2>1. stage' = "done" /\ answer' = Outcome
    BY <1>8 DEF ProbeVerdict
  <2>2. \A line : ~ Has(left, line)
    BY <1>1 DEF Has
  <2>3. request.mode = "measure" =>
            /\ ~ Says("BASE") => parsed.base = {request.path}
            /\ whole => parsed.sizes[request.path] = Blocks(Volume)
            /\ ~ Says("END") =>
                /\ Len(Items(Root)) > MaxEntries => parsed.truncated
                /\ OneLinePerName => parsed.files = LineCount(Files) /\ parsed.dirs = 1 + LineCount(Dirs)
    BY <1>1, <1>8, <2>2 DEF NothingLost, SizesKept
  <2>31. Resolved(request.path) = "directory"
    <3>1. SUFFICES ASSUME Resolved(request.path) # "directory" PROVE FALSE
      OBVIOUS
    <3>2. ~ Says("ERROR") /\ ~ Says("END")
      BY <3>1 DEF Says, Resolved
    <3>3. parsed.error = "none"
      BY <1>4, <1>8, <3>2
    <3> QED BY <1>1, <1>8, <2>2, <3>1, <3>2, <3>3 DEF NothingLost
  <2>4. PICK total : total = IF parsed.base = {} THEN 0 ELSE parsed.sizes[CHOOSE base \in parsed.base : TRUE]
    OBVIOUS
  <2>5. PICK dirs : dirs = IF parsed.dirs = 0 THEN 0 ELSE parsed.dirs - 1
    OBVIOUS
  <2>6. /\ answer'.verdict = "ok" /\ answer'.by = "sidecar" /\ answer'.total = total
        /\ answer'.files = parsed.files /\ answer'.dirs = dirs /\ answer'.truncated = parsed.truncated
    BY <2>1, <2>4, <2>5 DEF Outcome
  <2>7. ASSUME request.mode = "measure"
        PROVE  /\ ~ Says("BASE") => total <= Blocks(Volume) /\ (whole => total = Blocks(Volume))
               /\ ~ Says("END") => (Len(Items(Root)) > MaxEntries => parsed.truncated)
               /\ OneLinePerName => parsed.files = Cardinality(Files) /\ dirs = Cardinality(Dirs)
    <3>1. request.path = Root
      BY <1>1, <2>7, Asked
    <3>2. ASSUME ~ Says("BASE") PROVE total <= Blocks(Volume) /\ (whole => total = Blocks(Volume))
      <4>1. parsed.base = {Root} /\ Root \in {Root}
        BY <2>3, <2>7, <3>1, <3>2
      <4>2. (CHOOSE base \in parsed.base : TRUE) = Root
        BY <4>1
      <4>3. total = parsed.sizes[Root]
        BY <2>4, <4>1, <4>2
      <4>4. Blocks(Volume) \in Nat
        BY <1>1, WholeVolume
      <4>5. total \in {0, Blocks(Volume)}
        BY <1>4, <2>7, <4>3
      <4>6. total <= Blocks(Volume)
        BY <4>4, <4>5
      <4>7. whole => total = Blocks(Volume)
        BY <2>3, <2>7, <3>1, <4>3
      <4> QED BY <4>6, <4>7
    <3>3. ASSUME OneLinePerName PROVE parsed.files = Cardinality(Files) /\ dirs = Cardinality(Dirs)
      <4>1. ~ Says("END")
        BY <3>3 DEF OneLinePerName, Says
      <4>2. parsed.files = LineCount(Files) /\ parsed.dirs = 1 + LineCount(Dirs)
        BY <2>3, <2>7, <3>3, <4>1
      <4>3. LineCount(Dirs) \in Nat /\ dirs = LineCount(Dirs)
        BY <1>1, <2>5, <4>2, LineCounts
      <4> QED BY <1>1, <3>3, <4>2, <4>3, LineCounts
    <3> QED BY <2>3, <2>7, <3>2, <3>3
  <2>8. ListsOnlyInside' /\ ReadsItsOwnMachine'
    BY <1>2, <2>31, <2>6 DEF ListsOnlyInside, ReadsItsOwnMachine, Answered
  <2>9. WholeUnlessFlagged'
    BY <1>1, <1>2, <2>6, <2>7 DEF WholeUnlessFlagged, Answered
  <2>10. Answers'
    BY <2>1, <2>6, <2>8, <2>9 DEF Answers
  <2> QED BY <1>5, <2>1, <2>10
<1> QED BY <1>6, <1>7, <1>8

-----------------------------------------------------------------------------

\* A step of the walk keeps the types.
LEMMA WalkStepTypes ==
  ASSUME ProbeTypes, world' = world, left' = left, parsed' = parsed, whole' = whole,
         stage' \in {"new", "probing", "walking", "done"},
         walk' = [left |-> walk'.left, counted |-> walk'.counted, entries |-> walk'.entries,
                  bytes |-> walk'.bytes, files |-> walk'.files, dirs |-> walk'.dirs,
                  late |-> walk'.late, cut |-> walk'.cut],
         walk'.late \in BOOLEAN, walk'.cut \in BOOLEAN
  PROVE  ProbeTypes'
<1>1. Planned' = Planned /\ (Places <=> Places')
  BY SameQuestion, SameWorld DEF ProbeTypes
<1> QED BY <1>1 DEF ProbeTypes

\* Visit, field by field.
LEMMA VisitIs ==
  ASSUME ProbeTypes, NEW x, NEW size, NEW inodes, NEW files, NEW dirs, NEW cut \in BOOLEAN,
         Visit(x, size, inodes, files, dirs, cut)
  PROVE  /\ walk' = [left |-> walk'.left, counted |-> walk'.counted, entries |-> walk'.entries,
                     bytes |-> walk'.bytes, files |-> walk'.files, dirs |-> walk'.dirs,
                     late |-> walk'.late, cut |-> walk'.cut]
         /\ walk'.late \in BOOLEAN /\ walk'.cut \in BOOLEAN
         /\ walk'.left = Tail(walk.left) /\ walk'.bytes = walk.bytes + size
         /\ walk'.counted = walk.counted \cup (inodes \cap {Shared})
         /\ walk'.files = walk.files + files /\ walk'.dirs = walk.dirs + dirs
         /\ (walk'.cut <=> walk.cut \/ cut)
BY DEF ProbeTypes, Visit

\* One child more is behind the walk.
LEMMA OneMoreVisited ==
  ASSUME ProbeIInv, request.mode = "measure", stage = "walking", walk.left # <<>>,
         walk'.left = Tail(walk.left)
  PROVE  /\ Head(walk.left) \in Child /\ tree[Head(walk.left)].kind # "none"
         /\ Head(walk.left) \notin Visited /\ Visited' = Visited \cup {Head(walk.left)}
         /\ walk'.left \in Seq(Child)
         /\ \A k \in DOMAIN walk'.left : tree[walk'.left[k]].kind # "none"
         /\ \A j, k \in DOMAIN walk'.left : walk'.left[j] = walk'.left[k] => j = k
<1>1. PICK C : C = Child
  OBVIOUS
<1>2. PICK s : s = walk.left
  OBVIOUS
<1>3. /\ s \in Seq(C) /\ s # <<>> /\ \A k \in DOMAIN s : tree[s[k]].kind # "none"
      /\ \A j, k \in DOMAIN s : s[j] = s[k] => j = k
  BY <1>1, <1>2 DEF ProbeIInv, WalkOK
<1>4. PICK r : r = Tail(s)
  OBVIOUS
<1>5. /\ r \in Seq(C) /\ Len(r) = Len(s) - 1 /\ \A i \in 1 .. Len(r) : r[i] = s[i + 1]
  BY <1>3, <1>4, HeadTailProperties
<1>6. Len(s) \in Nat /\ Len(s) > 0 /\ DOMAIN s = 1 .. Len(s) /\ DOMAIN r = 1 .. Len(r)
  BY <1>3, <1>5, LenProperties, EmptySeq
<1>7. PICK n \in Nat : n = Len(r) /\ Len(s) = n + 1
  <2>1. PICK m : m = Len(s)
    OBVIOUS
  <2>2. m \in Nat /\ m > 0 /\ Len(r) = m - 1
    BY <1>5, <1>6, <2>1
  <2>3. m - 1 \in Nat /\ m = (m - 1) + 1
    BY <2>2
  <2> QED BY <2>1, <2>2, <2>3
<1>8. PICK x : x = Head(s)
  OBVIOUS
<1>9. x = s[1] /\ x \in C /\ 1 \in 1 .. n + 1
  BY <1>3, <1>7, <1>8, HeadTailProperties
<1>10. /\ DOMAIN s = 1 .. n + 1 /\ DOMAIN r = 1 .. n
       /\ \A i \in 1 .. n : r[i] = s[i + 1] /\ i + 1 \in 1 .. n + 1 /\ i + 1 # 1
  BY <1>5, <1>6, <1>7
<1>11. \A k \in DOMAIN r : tree[r[k]].kind # "none"
  BY <1>3, <1>10
<1>12. ASSUME NEW j \in 1 .. n, NEW k \in 1 .. n, r[j] = r[k] PROVE j = k
  <2>1. s[j + 1] = s[k + 1] /\ j + 1 \in 1 .. n + 1 /\ k + 1 \in 1 .. n + 1
    BY <1>10, <1>12
  <2>2. j + 1 = k + 1
    BY <1>3, <1>10, <2>1
  <2> QED BY <2>2
<1>13. \A k \in DOMAIN r : r[k] # x
  BY <1>3, <1>9, <1>10
<1>14. ASSUME NEW c PROVE (\A k \in DOMAIN s : s[k] # c) <=> (c # x /\ \A k \in DOMAIN r : r[k] # c)
  <2>1. ASSUME \A k \in DOMAIN s : s[k] # c PROVE c # x /\ \A k \in DOMAIN r : r[k] # c
    BY <1>9, <1>10, <2>1
  <2>2. ASSUME c # x, \A k \in DOMAIN r : r[k] # c, NEW k \in 1 .. n + 1 PROVE s[k] # c
    <3>1. CASE k = 1
      BY <1>9, <2>2, <3>1
    <3>2. CASE k # 1
      <4>1. k - 1 \in 1 .. n /\ (k - 1) + 1 = k
        BY <3>2
      <4> QED BY <1>10, <2>2, <4>1
    <3> QED BY <3>1, <3>2
  <2> QED BY <1>10, <2>1, <2>2
<1>15. PICK V : V = {c \in Child : \A k \in DOMAIN s : s[k] # c}
  OBVIOUS
<1>16. PICK W : W = {c \in Child : \A k \in DOMAIN r : r[k] # c}
  OBVIOUS
<1>17. x \notin V /\ W = V \cup {x}
  <2>1. x \notin V
    BY <1>14, <1>15
  <2>2. x \in W
    BY <1>1, <1>9, <1>13, <1>16
  <2>3. ASSUME NEW c \in Child, c # x PROVE c \in W <=> c \in V
    BY <1>14, <1>15, <1>16, <2>3
  <2>4. W \subseteq Child /\ V \subseteq Child
    BY <1>15, <1>16
  <2> QED BY <2>1, <2>2, <2>3, <2>4
<1>18. Visited = V
  BY <1>2, <1>15 DEF Visited
<1>19. walk'.left = r
  BY <1>2, <1>4
<1>20. Visited' = W
  BY <1>16, <1>19 DEF Visited
<1> QED BY <1>1, <1>2, <1>3, <1>5, <1>8, <1>9, <1>10, <1>11, <1>12, <1>17, <1>18, <1>19, <1>20

\* A child counted in full, or one passed over and the walk flagged for it.
LEMMA Passed ==
  ASSUME ProbeIInv, request.mode = "measure", stage = "walking", walk.left # <<>>, world' = world,
         NEW x, x = Head(walk.left), NEW size, NEW inodes, NEW files, NEW dirs, NEW cut \in BOOLEAN,
         Visit(x, size, inodes, files, dirs, cut),
         \/ cut /\ size = 0 /\ inodes = {}
         \/ /\ ~ cut /\ size = Blocks(NewInodes(x)) /\ inodes = InodesUnder(x)
            /\ files = Cardinality(FilesIn(x)) /\ dirs = Cardinality(DirsIn(x))
  PROVE  WalkOK'
<1>1. ProbeTypes /\ Places /\ WalkOK
  BY DEF ProbeIInv, ProbeTypes
<1>2. /\ walk'.left = Tail(walk.left) /\ walk'.bytes = walk.bytes + size
      /\ walk'.counted = walk.counted \cup (inodes \cap {Shared})
      /\ walk'.files = walk.files + files /\ walk'.dirs = walk.dirs + dirs
      /\ (walk'.cut <=> walk.cut \/ cut)
  BY <1>1, VisitIs
<1>3. PICK V : V = Visited
  OBVIOUS
<1>4. PICK W : W = V \cup {x}
  OBVIOUS
<1>5. /\ x \in Child /\ x \notin V /\ Visited' = W
      /\ walk'.left \in Seq(Child)
      /\ \A k \in DOMAIN walk'.left : tree[walk'.left[k]].kind # "none"
      /\ \A j, k \in DOMAIN walk'.left : walk'.left[j] = walk'.left[k] => j = k
  BY <1>2, <1>3, <1>4, OneMoreVisited
<1>6. V \in SUBSET Child /\ W \in SUBSET Child
  BY <1>3, <1>4, <1>5 DEF Visited
<1>7. /\ Items(Root)' = Items(Root) /\ tree' = tree
      /\ \A c \in Child :
              /\ InodesUnder(c)' = InodesUnder(c)
              /\ FilesIn(c)' = FilesIn(c) /\ DirsIn(c)' = DirsIn(c)
  BY SameWorld DEF world
<1>8. /\ InodesOf(Visited)' = InodesOf(W) /\ FilesOf(Visited)' = FilesOf(W) /\ DirsOf(Visited)' = DirsOf(W)
  BY <1>5, <1>6, <1>7 DEF InodesOf, FilesOf, DirsOf
<1>9. PICK seen \in SUBSET InodesOf(V) :
        /\ walk.bytes = Blocks(seen) /\ walk.counted = seen \cap {Shared}
        /\ InFull => seen = InodesOf(V)
  BY <1>1, <1>3 DEF WalkOK
<1>10. InFull' <=> InFull /\ ~ cut
  BY <1>2, <1>7 DEF InFull
<1>11. /\ InodesOf(W) = InodesOf(V) \cup InodesUnder(x)
       /\ Cardinality(FilesOf(W)) = Cardinality(FilesOf(V)) + Cardinality(FilesIn(x))
       /\ Cardinality(DirsOf(W)) = Cardinality(DirsOf(V)) + Cardinality(DirsIn(x))
       /\ Blocks(seen \cup InodesUnder(x)) = Blocks(seen) + Blocks(InodesUnder(x) \ (seen \cap {Shared}))
  BY <1>1, <1>4, <1>5, <1>6, OneMore
<1>12. Blocks(seen) \in Nat
  <2>1. IsFiniteSet(seen)
    BY <1>1, <1>6, ChildrenTogether, FS_Subset
  <2> QED BY <2>1, BlocksAdd
<1>13. \E met \in SUBSET InodesOf(W) :
         /\ walk'.bytes = Blocks(met) /\ walk'.counted = met \cap {Shared}
         /\ InFull' => met = InodesOf(W)
  <2>1. CASE cut /\ size = 0 /\ inodes = {}
    <3>1. seen \in SUBSET InodesOf(W) /\ walk'.bytes = Blocks(seen) /\ walk'.counted = seen \cap {Shared}
      BY <1>2, <1>9, <1>11, <1>12, <2>1
    <3> QED BY <1>10, <2>1, <3>1
  <2>2. CASE ~ cut /\ size = Blocks(NewInodes(x)) /\ inodes = InodesUnder(x)
    <3>1. request.path = Root
      BY <1>1, Asked
    <3>2. NewInodes(x) = InodesUnder(x) \ (seen \cap {Shared})
      BY <1>9, <3>1 DEF NewInodes, Inodes
    <3>3. PICK met : met = seen \cup InodesUnder(x)
      OBVIOUS
    <3>4. met \in SUBSET InodesOf(W) /\ walk'.bytes = Blocks(met)
      BY <1>2, <1>9, <1>11, <2>2, <3>2, <3>3
    <3>5. walk'.counted = met \cap {Shared}
      BY <1>2, <1>9, <2>2, <3>3
    <3>6. InFull' => met = InodesOf(W)
      BY <1>9, <1>10, <1>11, <3>3
    <3> QED BY <3>4, <3>5, <3>6
  <2> QED BY <2>1, <2>2
<1>14. InFull' => walk'.files = Cardinality(FilesOf(W)) /\ walk'.dirs = Cardinality(DirsOf(W))
  <2>1. SUFFICES ASSUME InFull, ~ cut
                 PROVE  walk'.files = Cardinality(FilesOf(W)) /\ walk'.dirs = Cardinality(DirsOf(W))
    BY <1>10
  <2>2. walk.files = Cardinality(FilesOf(V)) /\ walk.dirs = Cardinality(DirsOf(V))
    BY <1>1, <1>3, <2>1 DEF WalkOK
  <2>3. files = Cardinality(FilesIn(x)) /\ dirs = Cardinality(DirsIn(x))
    BY <2>1
  <2> QED BY <1>2, <1>11, <2>2, <2>3
<1> QED BY <1>5, <1>7, <1>8, <1>13, <1>14 DEF WalkOK

\* Until the walk ends there is only the walk to look at.
LEMMA WalkGoesOn ==
  ASSUME ProbeIInv, stage = "walking", stage' = stage, world' = world, left' = left,
         parsed' = parsed, whole' = whole, answer' = answer, ProbeTypes',
         request.mode = "measure" => WalkOK'
  PROVE  ProbeIInv'
<1>1. Answers'
  BY NoAnswerYet
<1>2. WalkUsable' /\ Resolved(request.path)' = "directory" /\ request' = request
  BY SameWorld DEF ProbeIInv, world
<1> QED BY <1>1, <1>2 DEF ProbeIInv

LEMMA VisitsDirectory == ASSUME ProbeIInv, WalkDirectory PROVE ProbeIInv'
<1>1. PICK x : x = Head(walk.left)
  OBVIOUS
<1>2. /\ ProbeTypes /\ Places /\ stage = "walking" /\ stage' = stage /\ walk.left # <<>>
      /\ world' = world /\ left' = left /\ parsed' = parsed /\ whole' = whole /\ answer' = answer
      /\ Kind(request.path, x) = "dir"
  BY <1>1 DEF ProbeIInv, ProbeTypes, WalkDirectory
<1>3. PICK cut \in BOOLEAN : \E size, inodes, files :
        /\ Visit(x, size, inodes, files, 1, cut)
        /\ \/ cut /\ size = 0 /\ inodes = {}
           \/ /\ ~ cut /\ size = Blocks(NewInodes(x)) /\ inodes = Inodes(request.path, x)
              /\ files = Cardinality(FilesIn(x))
  <2>1. CASE walk.late \/ ~ tree[x].open
    <3>1. Visit(x, 0, {}, 0, 1, TRUE)
      BY <1>1, <2>1 DEF WalkDirectory
    <3>2. TRUE \in BOOLEAN
      OBVIOUS
    <3> QED BY <3>1, <3>2
  <2>2. CASE ~ (walk.late \/ ~ tree[x].open)
    <3>1. PICK size : size = Blocks(NewInodes(x))
      OBVIOUS
    <3>2. PICK inodes : inodes = Inodes(request.path, x)
      OBVIOUS
    <3>3. PICK files : files = Cardinality(FilesIn(x))
      OBVIOUS
    <3>4. Visit(x, size, inodes, files, 1, FALSE)
      BY <1>1, <2>2, <3>1, <3>2, <3>3 DEF WalkDirectory
    <3>5. FALSE \in BOOLEAN /\ ~ FALSE
      OBVIOUS
    <3> QED BY <3>1, <3>2, <3>3, <3>4, <3>5
  <2> QED BY <2>1, <2>2
<1>4. PICK size, inodes, files :
        /\ Visit(x, size, inodes, files, 1, cut)
        /\ \/ cut /\ size = 0 /\ inodes = {}
           \/ /\ ~ cut /\ size = Blocks(NewInodes(x)) /\ inodes = Inodes(request.path, x)
              /\ files = Cardinality(FilesIn(x))
  BY <1>3
<1>5. ProbeTypes'
  BY <1>2, <1>4, VisitIs, WalkStepTypes
<1>6. ASSUME request.mode = "measure" PROVE WalkOK'
  <2>1. request.path = Root
    BY <1>2, <1>6, Asked
  <2>2. Inodes(request.path, x) = InodesUnder(x) /\ tree[x].kind = "dir"
    BY <1>2, <2>1 DEF Inodes, Kind
  <2>3. walk'.left = Tail(walk.left)
    BY <1>2, <1>4, VisitIs
  <2>4. x \in Child
    BY <1>1, <1>2, <1>6, <2>3, OneMoreVisited
  <2>5. Cardinality(DirsIn(x)) = 1
    BY <1>2, <2>2, <2>4, BelowChild
  <2> QED BY <1>1, <1>2, <1>4, <1>6, <2>2, <2>5, Passed
<1> QED BY <1>2, <1>5, <1>6, WalkGoesOn

LEMMA VisitsOther == ASSUME ProbeIInv, WalkOther PROVE ProbeIInv'
<1>1. PICK x : x = Head(walk.left)
  OBVIOUS
<1>2. /\ ProbeTypes /\ Places /\ stage = "walking" /\ stage' = stage /\ walk.left # <<>>
      /\ world' = world /\ left' = left /\ parsed' = parsed /\ whole' = whole /\ answer' = answer
      /\ Kind(request.path, x) # "dir"
  BY <1>1 DEF ProbeIInv, ProbeTypes, WalkOther
<1>3. PICK files : files = IF Kind(request.path, x) = "symlink" THEN 0 ELSE 1
  OBVIOUS
<1>4. Visit(x, Blocks(NewInodes(x)), Inodes(request.path, x), files, 0, FALSE)
  BY <1>1, <1>3 DEF WalkOther
<1>5. ProbeTypes'
  BY <1>2, <1>4, VisitIs, WalkStepTypes
<1>6. ASSUME request.mode = "measure" PROVE WalkOK'
  <2>1. request.path = Root
    BY <1>2, <1>6, Asked
  <2>2. Inodes(request.path, x) = InodesUnder(x) /\ Kind(request.path, x) = tree[x].kind
    BY <1>2, <2>1 DEF Inodes, Kind
  <2>3. walk'.left = Tail(walk.left)
    BY <1>2, <1>4, VisitIs
  <2>4. x \in Child /\ tree[x].kind # "none"
    BY <1>1, <1>2, <1>6, <2>3, OneMoreVisited
  <2>5. tree[x].kind \in {"none", "file", "linked", "symlink", "dir"}
    BY <1>2, <2>4, EntryIs
  <2>6. Cardinality(DirsIn(x)) = 0 /\ files = Cardinality(FilesIn(x))
    BY <1>2, <1>3, <2>2, <2>4, <2>5, BelowChild
  <2> QED BY <1>1, <1>2, <1>4, <1>6, <2>2, <2>6, Passed
<1> QED BY <1>2, <1>5, <1>6, WalkGoesOn

LEMMA VanishesOne == ASSUME ProbeIInv, Vanished PROVE ProbeIInv'
<1>1. PICK x : x = Head(walk.left)
  OBVIOUS
<1>2. /\ ProbeTypes /\ stage = "walking" /\ stage' = stage /\ walk.left # <<>>
      /\ world' = world /\ left' = left /\ parsed' = parsed /\ whole' = whole /\ answer' = answer
      /\ Visit(x, 0, {}, 0, 0, TRUE)
  BY <1>1 DEF ProbeIInv, Vanished
<1>3. ProbeTypes'
  BY <1>2, VisitIs, WalkStepTypes
<1>4. request.mode = "measure" => WalkOK'
  BY <1>1, <1>2, Passed
<1> QED BY <1>2, <1>3, <1>4, WalkGoesOn

LEMMA Expires == ASSUME ProbeIInv, DeadlinePasses PROVE ProbeIInv'
<1>1. /\ ProbeTypes /\ stage = "walking" /\ stage' = stage
      /\ world' = world /\ left' = left /\ parsed' = parsed /\ whole' = whole /\ answer' = answer
      /\ walk' = [walk EXCEPT !.late = TRUE]
  BY DEF ProbeIInv, DeadlinePasses
<1>2. /\ walk' = [left |-> walk'.left, counted |-> walk'.counted, entries |-> walk'.entries,
                  bytes |-> walk'.bytes, files |-> walk'.files, dirs |-> walk'.dirs,
                  late |-> walk'.late, cut |-> walk'.cut]
      /\ walk'.left = walk.left /\ walk'.counted = walk.counted /\ walk'.bytes = walk.bytes
      /\ walk'.files = walk.files /\ walk'.dirs = walk.dirs /\ walk'.cut = walk.cut
      /\ walk'.late = TRUE /\ walk'.cut \in BOOLEAN
  BY <1>1 DEF ProbeTypes
<1>3. ProbeTypes'
  BY <1>1, <1>2, WalkStepTypes
<1>4. ASSUME request.mode = "measure" PROVE WalkOK'
  <2>1. WalkOK
    BY <1>1, <1>4 DEF ProbeIInv
  <2>2. /\ Items(Root)' = Items(Root) /\ tree' = tree
        /\ \A c \in Child :
                /\ InodesUnder(c)' = InodesUnder(c)
                /\ FilesIn(c)' = FilesIn(c) /\ DirsIn(c)' = DirsIn(c)
    BY <1>1, SameWorld DEF world
  <2>3. PICK V : V = Visited
    OBVIOUS
  <2>4. V \in SUBSET Child /\ Visited' = V
    BY <1>2, <2>3 DEF Visited
  <2>5. InodesOf(Visited)' = InodesOf(V) /\ FilesOf(Visited)' = FilesOf(V) /\ DirsOf(Visited)' = DirsOf(V)
    BY <2>2, <2>4 DEF InodesOf, FilesOf, DirsOf
  <2>6. InFull' <=> InFull
    BY <1>2, <2>2 DEF InFull
  <2> QED BY <1>2, <2>1, <2>2, <2>3, <2>5, <2>6 DEF WalkOK
<1> QED BY <1>1, <1>3, <1>4, WalkGoesOn

\* Nothing is left to visit: what was visited is the volume.
LEMMA Returns == ASSUME ProbeIInv, FinishWalk PROVE ProbeIInv'
<1>1. /\ ProbeTypes /\ Places /\ stage = "walking" /\ stage' = "done" /\ walk.left = <<>>
      /\ world' = world /\ left' = left /\ parsed' = parsed /\ whole' = whole /\ walk' = walk
      /\ WalkUsable /\ Resolved(request.path) = "directory"
      /\ request.mode = "measure" => WalkOK
  BY DEF ProbeIInv, ProbeTypes, FinishWalk
<1>2. /\ Blocks(Volume)' = Blocks(Volume) /\ Items(Root)' = Items(Root)
      /\ Resolved(request.path)' = Resolved(request.path)
      /\ Cardinality(Files)' = Cardinality(Files) /\ Cardinality(Dirs)' = Cardinality(Dirs)
      /\ (OneLinePerName <=> OneLinePerName') /\ request' = request /\ target' = target
      /\ \A type : Says(type) <=> Says(type)'
  BY <1>1, SameQuestion, SameWorld DEF world
<1>3. ProbeTypes'
  <2>1. left \in Seq(Range(Planned)) /\ whole \in BOOLEAN
    BY <1>1 DEF ProbeTypes
  <2> QED BY <1>1, <2>1, ProbeStepTypes
<1>4. PICK cut \in BOOLEAN : cut <=> walk.cut \/ Len(Items(request.path)) > MaxEntries
  OBVIOUS
<1>5. /\ answer'.verdict = "ok" /\ answer'.by = "walk" /\ answer'.total = 1 + walk.bytes
      /\ answer'.files = walk.files /\ answer'.dirs = walk.dirs /\ (answer'.truncated <=> cut)
  BY <1>4 DEF FinishWalk
<1>6. ASSUME request.mode = "measure"
      PROVE  /\ 1 + walk.bytes <= Blocks(Volume)
             /\ Len(Items(Root)) > MaxEntries => cut
             /\ ~ cut => /\ 1 + walk.bytes = Blocks(Volume)
                         /\ walk.files = Cardinality(Files) /\ walk.dirs = Cardinality(Dirs)
  <2>1. request.path = Root
    BY <1>1, <1>6, Asked
  <2>2. Visited = Child
    BY <1>1 DEF Visited
  <2>3. PICK seen \in SUBSET InodesOf(Child) :
          walk.bytes = Blocks(seen) /\ (InFull => seen = InodesOf(Child))
    BY <1>1, <1>6, <2>2 DEF WalkOK
  <2>4. InFull => walk.files = Cardinality(FilesOf(Child)) /\ walk.dirs = Cardinality(DirsOf(Child))
    BY <1>1, <1>6, <2>2 DEF WalkOK
  <2>5. /\ Blocks(Volume) = 1 + Blocks(InodesOf(Child)) /\ Files = FilesOf(Child) /\ Dirs = DirsOf(Child)
        /\ IsFiniteSet(InodesOf(Child)) /\ Blocks(seen) <= Blocks(InodesOf(Child))
    BY <1>1, WholeVolume
  <2>6. Blocks(seen) \in Nat /\ Blocks(InodesOf(Child)) \in Nat
    <3>1. IsFiniteSet(seen)
      BY <2>5, FS_Subset
    <3> QED BY <2>5, <3>1, BlocksAdd
  <2>7. Len(Items(Root)) \in Nat
    BY <1>1, ItemsOfRoot
  <2>8. MaxEntries \in Nat
    BY ProbeOptions
  <2>9. ~ cut => InFull
    BY <1>4, <2>1, <2>7, <2>8 DEF InFull
  <2>10. 1 + walk.bytes <= Blocks(Volume)
    BY <2>3, <2>5, <2>6
  <2>11. ~ cut => 1 + walk.bytes = Blocks(Volume)
    BY <2>3, <2>5, <2>9
  <2> QED BY <1>4, <2>1, <2>4, <2>5, <2>9, <2>10, <2>11
<1>7. ListsOnlyInside' /\ ReadsItsOwnMachine'
  BY <1>1, <1>2, <1>5 DEF ListsOnlyInside, ReadsItsOwnMachine, Answered, WalkUsable
<1>8. WholeUnlessFlagged'
  BY <1>2, <1>5, <1>6 DEF WholeUnlessFlagged, Answered
<1>9. Answers'
  BY <1>1, <1>5, <1>7, <1>8 DEF Answers
<1> QED BY <1>1, <1>3, <1>9 DEF ProbeIInv

LEMMA NothingHappens == ASSUME ProbeIInv, UNCHANGED probeVars PROVE ProbeIInv'
<1>1. /\ ProbeTypes /\ Places /\ stage' = stage /\ left' = left /\ parsed' = parsed /\ whole' = whole
      /\ walk' = walk /\ answer' = answer /\ world' = world
  BY DEF ProbeIInv, ProbeTypes, probeVars
<1>2. tree' = tree /\ cutTo' = cutTo /\ second' = second /\ target' = target /\ request' = request
  BY <1>1 DEF world
<1>3. /\ BaseLine' = BaseLine /\ BaseSize' = BaseSize /\ CutShort' = CutShort
      /\ FileLine' = FileLine /\ DirLine' = DirLine /\ Blocks(Volume)' = Blocks(Volume)
      /\ Cardinality(Files)' = Cardinality(Files) /\ Cardinality(Dirs)' = Cardinality(Dirs)
      /\ Items(Root)' = Items(Root) /\ Resolved(request.path)' = Resolved(request.path)
      /\ LineCount(Files)' = LineCount(Files) /\ LineCount(Dirs)' = LineCount(Dirs)
      /\ (OneLinePerName <=> OneLinePerName') /\ (WalkUsable <=> WalkUsable')
      /\ \A type : Says(type) <=> Says(type)'
      /\ \A c \in Child :
              /\ InodesUnder(c)' = InodesUnder(c)
              /\ FilesIn(c)' = FilesIn(c) /\ DirsIn(c)' = DirsIn(c)
  BY <1>1, SameQuestion, SameWorld
<1>4. ProbeTypes'
  <2>1. left \in Seq(Range(Planned)) /\ whole \in BOOLEAN /\ stage \in {"new", "probing", "walking", "done"}
    BY <1>1 DEF ProbeTypes
  <2> QED BY <1>1, <2>1, ProbeStepTypes
<1>5. Answers'
  <2>1. Answers
    BY DEF ProbeIInv
  <2>2. ListsOnlyInside' /\ ReadsItsOwnMachine'
    BY <1>1, <1>2, <1>3, <2>1 DEF Answers, ListsOnlyInside, ReadsItsOwnMachine, Answered
  <2>3. WholeUnlessFlagged'
    BY <1>1, <1>2, <1>3, <2>1 DEF Answers, WholeUnlessFlagged, Answered
  <2> QED BY <1>1, <2>1, <2>2, <2>3 DEF Answers, Nowhere
<1>6. ASSUME stage = "probing" PROVE ReadOK' /\ LastIsLast' /\ NothingLost' /\ SizesKept'
  <2>1. ReadOK /\ LastIsLast /\ NothingLost /\ SizesKept
    BY <1>6 DEF ProbeIInv
  <2>2. ReadOK' /\ LastIsLast'
    BY <1>1, <1>2, <1>3, <2>1 DEF ReadOK, LastIsLast, NoneSizing, SizesFirst
  <2>3. \A line : Has(left', line) <=> Has(left, line)
    BY <1>1
  <2>4. NothingLost' /\ SizesKept'
    BY <1>1, <1>2, <1>3, <2>1, <2>3 DEF NothingLost, SizesKept
  <2> QED BY <2>2, <2>4
<1>7. ASSUME WalkOK PROVE WalkOK'
  <2>1. PICK V : V = Visited
    OBVIOUS
  <2>2. V \in SUBSET Child /\ Visited' = V
    BY <1>1, <2>1 DEF Visited
  <2>3. InodesOf(Visited)' = InodesOf(V) /\ FilesOf(Visited)' = FilesOf(V) /\ DirsOf(Visited)' = DirsOf(V)
    BY <1>3, <2>2 DEF InodesOf, FilesOf, DirsOf
  <2>4. InFull' <=> InFull
    BY <1>1, <1>3 DEF InFull
  <2> QED BY <1>1, <1>2, <1>7, <2>1, <2>3, <2>4 DEF WalkOK
<1> QED BY <1>1, <1>2, <1>3, <1>4, <1>5, <1>6, <1>7 DEF ProbeIInv

LEMMA ProbeGoesOn == ProbeIInv /\ [ProbeNext]_probeVars => ProbeIInv'
BY ChoiceKeepsIt, Arrives, DuFails, ProbeFails, Concludes, VisitsDirectory, VisitsOther,
   VanishesOne, Expires, Returns, NothingHappens DEF ProbeNext

LEMMA ProbeStays == ProbeSpec => []ProbeIInv
BY ProbeBegins, ProbeGoesOn, PTL DEF ProbeSpec

-----------------------------------------------------------------------------
(* What follows, for volumes with any number of children, any cap, any     *)
(* number of lost lines and vanished entries, and any names of two lines.  *)

\* Nothing outside the volume, and nothing of another machine's disk, is ever
\* reported as content of it, and a refusal for a path that leads out of it,
\* or nowhere, is right unless a name spells an error (scan.script.ts,
\* sidecar.strategy.ts, host-fs.strategy.ts).
THEOREM ProbeHolds == ProbeSpec => []ProbeInv
<1>1. ProbeIInv => ProbeInv
  BY DEF ProbeIInv, ProbeTypes, Places, Answers, ProbeInv, ProbeTypeOK
<1> QED BY <1>1, ProbeStays, PTL

\* A measurement never exceeds what is there, and is exact unless it is
\* flagged, du was killed, or a name spells another base; its flag is lost
\* only with a name that spells the end (scan.parser.ts, sidecar.strategy.ts,
\* host-fs.strategy.ts).
THEOREM MeasurementsAreWholeOrFlagged == ProbeSpec => []WholeUnlessFlagged
<1>1. ProbeIInv => WholeUnlessFlagged
  BY DEF ProbeIInv, Answers
<1> QED BY <1>1, ProbeStays, PTL
=============================================================================
