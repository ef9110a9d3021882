------------------------------ MODULE Sidecar -------------------------------
(***************************************************************************)
(* backend/src/docker/sidecar.runner.ts on one host: the shared check that *)
(* the scanner image is there, the life of the throwaway container of each *)
(* run, and the sweep that removes sidecars a dead process left behind     *)
(* (server.ts starts it at boot and does not wait for it).  What a run's   *)
(* output is worth is decided in sidecar.strategy.ts (_probe).             *)
(*                                                                         *)
(* Every Engine call may fail, also after the daemon has carried it out.   *)
(***************************************************************************)
EXTENDS Naturals, Sequences, FiniteSets

CONSTANTS
    Run,          \* scans, each of them run once
    AutoPull,     \* Config.scan.autoPull
    SocketTimeout,  \* the client's timeout takes effect: not on a channel of an
                    \* SSH host, where setTimeout does nothing (ssh-agent.ts)
    MaxChecks, MaxForgets, MaxBoots   \* bounds of the model

ASSUME SidecarOptions ==
    /\ AutoPull \in BOOLEAN /\ SocketTimeout \in BOOLEAN
    /\ MaxChecks \in Nat /\ MaxForgets \in Nat /\ MaxBoots \in Nat \ {0}

VARIABLES
    up,           \* the process runs
    boots,        \* how often it was started
    image,        \* the daemon has the scanner image
    imageReady,   \* the host's entry of imageReadyByHost, or NoCheck
    check,        \* the image checks ever begun
    forgets,      \* how often forgetImage() was called
    run,          \* run[r]
    container,    \* container[r]: the sidecar of run r at the daemon
    reaper        \* the sweep: its stage, and what it has yet to remove

checks == <<image, imageReady, check, forgets>>
process == <<up, boots>>
vars == <<process, checks, run, container, reaper>>

NoCheck == 0
InTheAir == {k \in DOMAIN check : check[k] \in {"inspecting", "pulling"}}

\* "ended": the probe wrote its last line.  "died": it was killed before.
Exists(r) == container[r] \in {"created", "running", "ended", "died"}

Init ==
    /\ up = TRUE /\ boots = 1
    /\ image \in BOOLEAN /\ imageReady = NoCheck /\ check = <<>> /\ forgets = 0
    /\ run = [r \in Run |-> [pc |-> "idle", boot |-> 0, check |-> NoCheck,
                             result |-> "none", excused |-> FALSE]]
    /\ container = [r \in Run |-> "none"]
    /\ reaper = [pc |-> "listing", strays |-> {}, refused |-> {}]

-----------------------------------------------------------------------------
(* ensureImage().                                                          *)

\* Mutant: a check of its own for every run.
BeginOwnCheck(r) ==
    /\ up /\ run[r].pc = "idle" /\ Len(check) < MaxChecks
    /\ check' = Append(check, "inspecting")
    /\ imageReady' = Len(check')
    /\ run' = [run EXCEPT ![r].pc = "checking", ![r].boot = boots, ![r].check = imageReady']
    /\ UNCHANGED <<process, image, forgets, container, reaper>>

Begin(r) ==
    /\ up
    /\ run[r].pc = "idle"
    /\ IF imageReady # NoCheck
       THEN UNCHANGED <<check, imageReady>>
       ELSE /\ Len(check) < MaxChecks
            /\ check' = Append(check, "inspecting")
            /\ imageReady' = Len(check')
    /\ run' = [run EXCEPT ![r].pc = "checking", ![r].boot = boots, ![r].check = imageReady']
    /\ UNCHANGED <<process, image, forgets, container, reaper>>

\* The catch-callback deletes the host's entry, whichever check it holds.
FailCheck(k) ==
    /\ check' = [check EXCEPT ![k] = "failed"]
    /\ imageReady' = NoCheck

InspectImage(k) ==
    /\ up
    /\ check[k] = "inspecting"
    /\ \/ image /\ check' = [check EXCEPT ![k] = "ok"] /\ UNCHANGED imageReady
       \/ ~ image /\ AutoPull /\ check' = [check EXCEPT ![k] = "pulling"] /\ UNCHANGED imageReady
       \/ FailCheck(k)
    /\ UNCHANGED <<process, image, forgets, run, container, reaper>>

PullImage(k) ==
    /\ up
    /\ check[k] = "pulling"
    /\ \/ image' = TRUE /\ check' = [check EXCEPT ![k] = "ok"] /\ UNCHANGED imageReady
       \/ FailCheck(k) /\ UNCHANGED image
    /\ UNCHANGED <<process, forgets, run, container, reaper>>

\* The host's record was changed (host.service.ts update, remove).
ForgetImage ==
    /\ up
    /\ forgets < MaxForgets
    /\ forgets' = forgets + 1
    /\ imageReady' = NoCheck
    /\ UNCHANGED <<process, image, check, run, container, reaper>>

\* Somebody prunes images on the host.
PruneImage ==
    /\ image
    /\ image' = FALSE
    /\ UNCHANGED <<process, imageReady, check, forgets, run, container, reaper>>

-----------------------------------------------------------------------------
(* run().                                                                  *)

Step(r, from, to) == up /\ run[r].pc = from /\ run' = [run EXCEPT ![r].pc = to]

\* run r ends without having to remove anything more.
Over(r, result, excused) ==
    run' = [run EXCEPT ![r].pc = "done", ![r].result = result, ![r].excused = excused]

Others == <<process, checks, reaper>>

AwaitImage(r) ==
    /\ up
    /\ run[r].pc = "checking"
    /\ \/ check[run[r].check] = "ok" /\ Step(r, "checking", "creating")
       \/ check[run[r].check] = "failed" /\ Over(r, "failed", FALSE)
    /\ UNCHANGED <<container, Others>>

\* createContainer fails without the image.  When only the reply is lost the
\* container exists, but the variable that finally looks at is still null.
Create(r) ==
    /\ up
    /\ run[r].pc = "creating"
    /\ \/ Over(r, "failed", FALSE) /\ UNCHANGED container
       \/ /\ image
          /\ container' = [container EXCEPT ![r] = "created"]
          /\ Step(r, "creating", "starting") \/ Over(r, "failed", TRUE)
    /\ UNCHANGED Others

\* Mutant: the handle is assigned when the container has been started.
StartForgets(r) ==
    /\ \/ /\ Step(r, "starting", "waiting")
          /\ container[r] = "created" /\ container' = [container EXCEPT ![r] = "running"]
       \/ up /\ run[r].pc = "starting" /\ Over(r, "failed", FALSE) /\ UNCHANGED container
    /\ UNCHANGED Others

Start(r) ==
    /\ \/ Step(r, "starting", "waiting") /\ container[r] = "created"
          /\ container' = [container EXCEPT ![r] = "running"]
       \/ Step(r, "starting", "removing") /\ UNCHANGED container
       \/ Step(r, "starting", "removing") /\ container[r] = "created"
          /\ container' = [container EXCEPT ![r] = "running"]
    /\ UNCHANGED Others

\* The probe writes its last line, or is killed (memory limit, another client).
Exit(r) ==
    /\ container[r] = "running"
    /\ \E state \in {"ended", "died"} : container' = [container EXCEPT ![r] = state]
    /\ UNCHANGED <<process, checks, run, reaper>>

\* _waitWithBudget: wait() answers or fails (the socket timeout is an answer of
\* its own), or the timer fires.
Waited(r) ==
    /\ \/ container[r] # "running" /\ Step(r, "waiting", "logging")
       \/ Step(r, "waiting", "removing")
    /\ UNCHANGED <<container, Others>>

Expire(r) == Step(r, "waiting", "killing") /\ UNCHANGED <<container, Others>>

\* kill(); its failure is ignored.
Kill(r) ==
    /\ Step(r, "killing", "settling")
    /\ container' \in {container, [container EXCEPT ![r] = IF @ = "running" THEN "died" ELSE @]}
    /\ UNCHANGED Others

\* Mutant: the Engine client has no socket timeout.
AwaitExitForever(r) ==
    /\ container[r] # "running"
    /\ Step(r, "settling", "loggingLate")
    /\ UNCHANGED <<container, Others>>

\* The same wait() settles: the probe is over, or the call has failed.
AwaitExit(r) ==
    /\ Step(r, "settling", "loggingLate")
    /\ UNCHANGED <<container, Others>>

\* What _probe makes of the output: a timeout is reported as such, and output
\* without the completion sentinel is a failed scan.
Verdict(r) ==
    CASE run[r].pc = "loggingLate" -> "timedOut"
      [] run[r].pc = "logging" /\ container[r] = "ended" -> "measured"
      [] OTHER -> "failed"

\* logs(); with a failed call there is nothing to judge.
Logs(r) ==
    /\ up
    /\ run[r].pc \in {"logging", "loggingLate"}
    /\ \/ run' = [run EXCEPT ![r].pc = "removing"]
       \/ /\ Exists(r)
          /\ run' = [run EXCEPT ![r].pc = "removing", ![r].result = Verdict(r)]
    /\ UNCHANGED <<container, Others>>

\* The finally-block; the caller sees the outcome after it.
Remove(r) ==
    /\ up
    /\ run[r].pc = "removing"
    /\ LET outcome == IF run[r].result = "none" THEN "failed" ELSE run[r].result
       IN  \/ container' = [container EXCEPT ![r] = "none"] /\ Over(r, outcome, FALSE)
           \/ UNCHANGED container /\ Over(r, outcome, Exists(r))
    /\ UNCHANGED Others

-----------------------------------------------------------------------------
(* The process stops at any moment, and starts again.                      *)

InProgress(r) == run[r].pc \notin {"idle", "done", "dead"}

\* A request that has been sent may still be carried out.
Crash ==
    /\ up
    /\ boots < MaxBoots
    /\ up' = FALSE
    /\ imageReady' = NoCheck
    /\ check' = [k \in DOMAIN check |-> IF k \in InTheAir THEN "lost" ELSE check[k]]
    /\ run' = [r \in Run |-> IF InProgress(r) THEN [run[r] EXCEPT !.pc = "dead"] ELSE run[r]]
    /\ \E late \in SUBSET {r \in Run : image /\ run[r].pc = "creating"} :
           container' = [r \in Run |-> IF r \in late THEN "created" ELSE container[r]]
    /\ reaper' = [pc |-> "down", strays |-> {}, refused |-> {}]
    /\ UNCHANGED <<boots, image, forgets>>

\* bootstrap() starts the sweep and goes on to listen without waiting for it.
Boot ==
    /\ ~ up
    /\ up' = TRUE /\ boots' = boots + 1
    /\ reaper' = [reaper EXCEPT !.pc = "listing"]
    /\ UNCHANGED <<checks, run, container>>

\* Mutant: listContainers without all: true.
ListedIfRunning == {r \in Run : container[r] = "running"}

\* Every container with the owner label, whoever runs it.
Listed == {r \in Run : Exists(r)}

ReapList ==
    /\ up
    /\ reaper.pc = "listing"
    /\ \/ reaper' = [reaper EXCEPT !.pc = "reaping", !.strays = Listed]
       \/ reaper' = [reaper EXCEPT !.pc = "skipped"]
    /\ UNCHANGED <<process, checks, run, container>>

ReapOne(r) ==
    /\ up
    /\ r \in reaper.strays
    /\ \/ /\ container' = [container EXCEPT ![r] = "none"]
          /\ reaper' = [reaper EXCEPT !.strays = @ \ {r}]
       \/ /\ UNCHANGED container
          /\ reaper' = [reaper EXCEPT !.strays = @ \ {r}, !.refused = @ \cup {r}]
    /\ UNCHANGED <<process, checks, run>>

CheckImage(k) == InspectImage(k) \/ PullImage(k)

Advance(r) ==
    \/ AwaitImage(r) \/ Create(r) \/ Start(r) \/ Waited(r) \/ Expire(r) \/ Kill(r)
    \/ AwaitExit(r) \/ Logs(r) \/ Remove(r)

Next ==
    \/ \E r \in Run : Begin(r) \/ Advance(r) \/ Exit(r) \/ ReapOne(r)
    \/ \E k \in DOMAIN check : CheckImage(k)
    \/ ForgetImage \/ PruneImage \/ Crash \/ Boot \/ ReapList

\* A call that lasts as long as its container's process.
Hangs(r) == run[r].pc = "settling" /\ container[r] = "running" /\ ~ SocketTimeout

\* Engine calls are answered, if only by the client's socket timeout; without it
\* wait() is answered when the probe is over.  Nothing is assumed of the probe,
\* which may run for ever, nor of kill(), which may fail each time.
Fairness ==
    /\ \A r \in Run : WF_vars(~ Hangs(r) /\ Advance(r))
    /\ \A k \in 1..MaxChecks : WF_vars(k \in DOMAIN check /\ CheckImage(k))

Spec == Init /\ [][Next]_vars /\ Fairness

-----------------------------------------------------------------------------
TypeOK ==
    /\ up \in BOOLEAN /\ boots \in 1..MaxBoots
    /\ image \in BOOLEAN
    /\ check \in Seq({"inspecting", "pulling", "ok", "failed", "lost"})
    /\ imageReady \in 0..Len(check)
    /\ forgets \in 0..MaxForgets
    /\ run \in [Run -> [pc : {"idle", "checking", "creating", "starting", "waiting", "killing",
                              "settling", "logging", "loggingLate", "removing", "done", "dead"},
                        boot : 0..MaxBoots, check : 0..MaxChecks,
                        result : {"none", "measured", "timedOut", "failed"},
                        excused : BOOLEAN]]
    /\ container \in [Run -> {"none", "created", "running", "ended", "died"}]
    /\ reaper \in [pc : {"down", "listing", "reaping", "skipped"},
                   strays : SUBSET Run, refused : SUBSET Run]

\* "Concurrent callers share a single check so a burst of scans cannot trigger
\* parallel pulls" (ensureImage).  Each forgetImage() may orphan one check in the
\* air; a check that fails late deletes the entry of a newer one, but then it is
\* itself no longer in the air.
ChecksShared == Cardinality(InTheAir) <= 1 + forgets

\* Types, and the sharing of checks.
SidecarInv == TypeOK /\ ChecksShared

\* "The container is always removed, including on timeout": a run that is over has
\* left a sidecar behind only when the daemon made it and the reply was lost, or
\* when the removal was refused; its process did not just leave it.
SidecarRemoved ==
    \A r \in Run : run[r].pc = "done" /\ Exists(r) => run[r].excused

\* What the sweep is for: when it is through, a sidecar of a dead process is there
\* only if its removal was refused.
ReaperClearsTheDead ==
    up /\ reaper.pc = "reaping" /\ reaper.strays = {}
        => \A r \in Run : Exists(r) /\ run[r].pc = "dead" /\ run[r].boot < boots
                              => r \in reaper.refused

\* A scan that has begun comes to an end, with a hanging probe and a kill that
\* fails as well: otherwise it would hold its queue slot for ever.
RunEnds == \A r \in Run : (run[r].pc = "checking") ~> (run[r].pc \in {"done", "dead"})

\* The comment on run(): "The container is always removed, including on timeout, so a
\* failed scan leaves nothing behind."  Not so on an SSH host: when the kill is lost,
\* or the probe hangs in the kernel, the second wait() has no limit of its own, and
\* with the finally-block the queue slot is never reached either.
TimedOutRunIsRemoved ==
    \A r \in Run : (run[r].pc = "killing") ~> (run[r].pc \in {"removing", "done", "dead"})
==============================================================================
