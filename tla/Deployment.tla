----------------------------- MODULE Deployment -----------------------------
(***************************************************************************)
(* The three programs as processes: how main() configures and wires each   *)
(* of them, what runs before and after leader election, how a process      *)
(* ends and what its successor finds.                                      *)
(*                                                                         *)
(* A pod runs one program in one environment.  The kubelet restarts it     *)
(* when its process ends; a rolling update replaces it by one with another *)
(* environment.  The lease is the API server's; a process that cannot      *)
(* renew it exits within the renew deadline, before the lease expires.     *)
(***************************************************************************)
EXTENDS Integers, Sequences

CONSTANTS
    Pods,
    Seconds,       \* the numbers BATCH_INTERVAL_SECONDS may be set to
    Second,        \* time.Second, in units of a time.Duration
    Half,          \* a time.Duration is in -Half..Half - 1; 2^63 in Go
    MaxTroubles    \* bound on failures, crashes, lost leases and updates together

defaultBatchIntervalSec == 10

\* The holder of a free lease.
Nobody == "nobody"

ASSUME PodsAssumption == Nobody \notin Pods

ASSUME DurationAssumption ==
    /\ Second \in Nat \ {0} /\ Half \in Nat
    /\ defaultBatchIntervalSec * Second < Half
    /\ Seconds \subseteq Int

ASSUME TroublesAssumption == MaxTroubles \in Nat

VARIABLES
    program,   \* the program of a pod
    env,       \* its environment variables and flags
    phase,     \* where its process is
    step,      \* the step of main() that comes next
    lease,     \* the holder of every leader election ID
    troubles   \* troubles so far

vars == <<program, env, phase, step, lease, troubles>>

Programs == {"inventory-controller", "sync-operator", "mirror-upgrader"}

\* BATCH_INTERVAL_SECONDS: not set, not a number, or a number.
NotSet == [set |-> FALSE]
NotANumber == [set |-> TRUE, number |-> FALSE]
Number(n) == [set |-> TRUE, number |-> TRUE, value |-> n]

\* What a program reads: the environment variables of its own, with the others
\* left out, and the flag --leader-elect.
Environments(prog) ==
    [interval: IF prog = "inventory-controller"
               THEN {NotSet, NotANumber} \cup {Number(n) : n \in Seconds} ELSE {NotSet},
     secret: IF prog = "sync-operator" THEN {"", " ", "s"} ELSE {""},   \* unset, blank, a secret
     leaderElect: BOOLEAN]

\* "waiting": mgr.Start has started all that needs no leader election.
Phases == {"starting", "waiting", "leading", "exited", "panicked"}

-----------------------------------------------------------------------------
(* Configuration.                                                          *)

\* Conversion to int64.
Wrap(n) == ((n + Half) % (2 * Half)) - Half

\* Faulty variant: zero is let through.
IntervalAcceptedFromZero(e) ==
    e.interval.set => e.interval.number /\ e.interval.value >= 0

\* LoadInventoryControllerConfig returns no error.
IntervalAccepted(e) ==
    e.interval.set => e.interval.number /\ e.interval.value >= 1

\* InventoryControllerConfig.BatchInterval
BatchInterval(e) ==
    Wrap((IF e.interval.set THEN e.interval.value ELSE defaultBatchIntervalSec) * Second)

\* LoadSyncOperatorConfig returns no error.
SecretAccepted(e) == e.secret \notin {"", " "}

-----------------------------------------------------------------------------
(* main().                                                                 *)

\* The steps of the three main functions that can end the process.
InventoryMain == <<"config", "manager", "worker", "Application", "ApplicationSet", "healthz", "readyz", "start">>
SyncMain == <<"config", "manager", "webhook", "healthz", "readyz", "start">>
MirrorMain == <<"manager", "MirrorUpgradeRequest", "healthz", "readyz", "start">>

Main(p) ==
    CASE program[p] = "inventory-controller" -> InventoryMain
      [] program[p] = "sync-operator"        -> SyncMain
      [] program[p] = "mirror-upgrader"      -> MirrorMain

\* Faulty variant: every program has the ID the scaffold gave the first.
OneLeaderElectionID(prog) == "b858da39"

\* ManagerInputs.LeaderElectionID
LeaderElectionID(prog) ==
    CASE prog = "inventory-controller" -> "accord-inventory"
      [] prog = "sync-operator"        -> "accord-sync-operator"
      [] prog = "mirror-upgrader"      -> "b858da39"

LeaseOf(p) == LeaderElectionID(program[p])
Leases == {LeaderElectionID(prog) : prog \in Programs}

\* Faulty variant: the worker does not wait to be elected.
WorkerNeedsNoElection == FALSE

\* BatchWorker.NeedLeaderElection
NeedLeaderElection == TRUE

\* BatchWorker.Start is running, in a process in the phase ph.
WorkerRuns(p, ph) ==
    /\ program[p] = "inventory-controller"
    /\ ph = "leading" \/ (ph = "waiting" /\ ~NeedLeaderElection)

Exporting(p) == WorkerRuns(p, phase[p])

\* The webhook server needs no leader election.
Serving(p) == program[p] = "sync-operator" /\ phase[p] \in {"waiting", "leading"}

\* The process exits and its memory with it.  The lease is not released.
Exit(p) == phase' = [phase EXCEPT ![p] = "exited"] /\ step' = [step EXCEPT ![p] = 1]

\* The runnables of the phase ph start.  time.NewTicker panics unless the
\* interval is positive.
Enter(p, ph) ==
    IF WorkerRuns(p, ph) /\ BatchInterval(env[p]) <= 0
    THEN phase' = [phase EXCEPT ![p] = "panicked"] /\ step' = [step EXCEPT ![p] = 1]
    ELSE phase' = [phase EXCEPT ![p] = ph] /\ UNCHANGED step

At(p, s) == phase[p] = "starting" /\ Main(p)[step[p]] = s

Proceed(p) == step' = [step EXCEPT ![p] = @ + 1] /\ UNCHANGED phase

\* The configuration loader returns no error.
Accepted(p) ==
    IF program[p] = "sync-operator" THEN SecretAccepted(env[p]) ELSE IntervalAccepted(env[p])

LoadConfig(p) ==
    /\ At(p, "config")
    /\ IF Accepted(p) THEN Proceed(p) ELSE Exit(p)
    /\ UNCHANGED <<program, env, lease, troubles>>

\* NewManager and the wiring of the manager: nothing runs yet.
Wire(p) ==
    /\ phase[p] = "starting"
    /\ Main(p)[step[p]] \notin {"config", "start"}
    /\ Proceed(p)
    /\ UNCHANGED <<program, env, lease, troubles>>

\* mgr.Start: with leader election the controllers and the worker wait.
Start(p) ==
    /\ At(p, "start")
    /\ Enter(p, IF env[p].leaderElect THEN "waiting" ELSE "leading")
    /\ UNCHANGED <<program, env, lease, troubles>>

\* A waiting process obtains the lease.
Elected(p) ==
    /\ phase[p] = "waiting"
    /\ lease[LeaseOf(p)] = Nobody
    /\ lease' = [lease EXCEPT ![LeaseOf(p)] = p]
    /\ Enter(p, "leading")
    /\ UNCHANGED <<program, env, troubles>>

\* The lease runs out when its holder no longer renews it.  A successor in the
\* same pod has another identity.
LeaseExpires(id) ==
    /\ lease[id] # Nobody
    /\ phase[lease[id]] = "leading" => ~env[lease[id]].leaderElect
    /\ lease' = [lease EXCEPT ![id] = Nobody]
    /\ UNCHANGED <<program, env, phase, step, troubles>>

-----------------------------------------------------------------------------
(* Troubles.                                                               *)

Trouble == troubles < MaxTroubles /\ troubles' = troubles + 1

\* A step of main() or a running process ends in os.Exit(1): an error return, a
\* crash, or a leader that could not renew its lease; SIGTERM ends it as well.
Fail(p) ==
    /\ Trouble
    /\ phase[p] \in {"starting", "waiting", "leading"}
    /\ Exit(p)
    /\ UNCHANGED <<program, env, lease>>

\* A rolling update: the pod is replaced by one in another environment.
Replace(p, e) ==
    /\ Trouble
    /\ env' = [env EXCEPT ![p] = e]
    /\ Exit(p)
    /\ UNCHANGED <<program, lease>>

\* The kubelet restarts the container.
Restart(p) ==
    /\ phase[p] \in {"exited", "panicked"}
    /\ phase' = [phase EXCEPT ![p] = "starting"]
    /\ UNCHANGED <<program, env, step, lease, troubles>>

Init ==
    /\ program \in [Pods -> Programs]
    /\ env \in [Pods -> UNION {Environments(prog) : prog \in Programs}]
    /\ \A p \in Pods : env[p] \in Environments(program[p])
    /\ phase = [p \in Pods |-> "starting"]
    /\ step = [p \in Pods |-> 1]
    /\ lease = [id \in Leases |-> Nobody]
    /\ troubles = 0

Progress(p) == LoadConfig(p) \/ Wire(p) \/ Start(p) \/ Elected(p) \/ Restart(p)

Next ==
    \/ \E p \in Pods : Progress(p) \/ Fail(p) \/ \E e \in Environments(program[p]) : Replace(p, e)
    \/ \E id \in Leases : LeaseExpires(id)

\* Processes run, the kubelet restarts them and leases run out.
Spec ==
    /\ Init
    /\ [][Next]_vars
    /\ \A p \in Pods : WF_vars(Progress(p))
    /\ \A id \in Leases : WF_vars(LeaseExpires(id))

-----------------------------------------------------------------------------
(* Properties.                                                             *)

\* Of the replicas that take part in leader election at most one exports,
\* through crashes, lost leases and rolling updates: "only the elected
\* inventory-controller replica pushes to Git" (NeedLeaderElection).
OneExporter ==
    \A p, q \in Pods :
        Exporting(p) /\ Exporting(q) /\ env[p].leaderElect /\ env[q].leaderElect => p = q

\* What runs, runs on a configuration that makes sense, however often a pod is
\* restarted or replaced.  The webhook is never served without a secret to check
\* requests with (ADR-0013); the ticker of a worker has the interval that was
\* asked for, and an accepted interval never makes it panic, as long as its
\* nanoseconds fit a time.Duration, which the loader does not check.
RunsAsConfigured ==
    \A p \in Pods : LET asked == env[p].interval IN
        /\ Serving(p) => env[p].secret = "s"
        /\ asked \notin {NotSet, NotANumber} /\ asked.value * Second < Half =>
              /\ phase[p] # "panicked"
              /\ Exporting(p) => asked.value >= 1 /\ BatchInterval(env[p]) = asked.value * Second

\* An environment the program can run in.
Runnable(p) ==
    CASE program[p] = "inventory-controller" -> IntervalAccepted(env[p]) /\ BatchInterval(env[p]) > 0
      [] program[p] = "sync-operator"        -> SecretAccepted(env[p])
      [] program[p] = "mirror-upgrader"      -> TRUE

\* Every program whose pods are all configured to run comes to have a leader for
\* good once the troubles are over, although a leader that ends never releases
\* its lease and all three programs elect leaders in one namespace.
EventuallyLed ==
    \A prog \in Programs :
        LET own == {p \in Pods : program[p] = prog}
        IN  <>[]((\A p \in own : Runnable(p)) /\ own # {} => \E p \in own : phase[p] = "leading")
=============================================================================
