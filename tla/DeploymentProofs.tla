-------------------------- MODULE DeploymentProofs --------------------------
(***************************************************************************)
(* Proofs about the processes, for any number of pods, any configuration   *)
(* and any number of crashes, lost leases and rolling updates.             *)
(***************************************************************************)
EXTENDS Deployment, TLAPS

-----------------------------------------------------------------------------
(* Types.                                                                  *)

\* Programs, environments, phases, steps and leases have their types.
TypeInv ==
    /\ program \in [Pods -> Programs]
    /\ DOMAIN env = Pods
    /\ \A p \in Pods : env[p] \in Environments(program[p])
    /\ phase \in [Pods -> Phases]
    /\ step \in [Pods -> Nat]
    /\ lease \in [Leases -> Pods \cup {Nobody}]

\* The processes start with their types.
LEMMA TypeInit == Init => TypeInv
  BY DEF Init, TypeInv, Phases

\* A process competes for one of the leases.
LEMMA LeaseTypes ==
  ASSUME TypeInv, NEW p \in Pods
  PROVE  LeaseOf(p) \in Leases
  BY DEF TypeInv, LeaseOf, Leases

\* What a step of one process does to the phases and steps of main().
LEMMA EnterStep ==
  ASSUME NEW p \in Pods, NEW ph, Enter(p, ph)
  PROVE  \/ /\ WorkerRuns(p, ph) /\ BatchInterval(env[p]) <= 0
            /\ phase' = [phase EXCEPT ![p] = "panicked"]
            /\ step' = [step EXCEPT ![p] = 1]
         \/ /\ phase' = [phase EXCEPT ![p] = ph]
            /\ UNCHANGED step
  BY DEF Enter

\* Every step of a process or of its surroundings keeps the types.
LEMMA TypeNext == TypeInv /\ [Next]_vars => TypeInv'
<1> SUFFICES ASSUME TypeInv, [Next]_vars PROVE TypeInv'
  OBVIOUS
<1> USE DEF TypeInv, Phases
<1>1. ASSUME NEW p \in Pods, LoadConfig(p) \/ Wire(p) PROVE TypeInv'
  <2>1. UNCHANGED <<program, env, lease>>
    BY <1>1 DEF LoadConfig, Wire
  <2>2. phase' \in [Pods -> Phases] /\ step' \in [Pods -> Nat]
    BY <1>1 DEF LoadConfig, Wire, Proceed, Exit
  <2> QED BY <2>1, <2>2
<1>2. ASSUME NEW p \in Pods, Start(p) PROVE TypeInv'
  <2>1. UNCHANGED <<program, env, lease>>
    BY <1>2 DEF Start
  <2>2. phase' \in [Pods -> Phases] /\ step' \in [Pods -> Nat]
    BY <1>2, EnterStep DEF Start
  <2> QED BY <2>1, <2>2
<1>3. ASSUME NEW p \in Pods, Elected(p) PROVE TypeInv'
  <2>1. UNCHANGED <<program, env>>
    BY <1>3 DEF Elected
  <2>2. phase' \in [Pods -> Phases] /\ step' \in [Pods -> Nat]
    BY <1>3, EnterStep DEF Elected
  <2>3. lease' \in [Leases -> Pods \cup {Nobody}]
    BY <1>3, LeaseTypes DEF Elected
  <2> QED BY <2>1, <2>2, <2>3
<1>4. ASSUME NEW p \in Pods, Restart(p) \/ Fail(p) PROVE TypeInv'
  <2>1. UNCHANGED <<program, env, lease>>
    BY <1>4 DEF Restart, Fail
  <2>2. phase' \in [Pods -> Phases] /\ step' \in [Pods -> Nat]
    BY <1>4 DEF Restart, Fail, Exit
  <2> QED BY <2>1, <2>2
<1>5. ASSUME NEW p \in Pods, NEW e \in Environments(program[p]), Replace(p, e) PROVE TypeInv'
  <2>1. UNCHANGED <<program, lease>>
    BY <1>5 DEF Replace
  <2>2. phase' \in [Pods -> Phases] /\ step' \in [Pods -> Nat]
    BY <1>5 DEF Replace, Exit
  <2>3. env' = [env EXCEPT ![p] = e]
    BY <1>5 DEF Replace
  <2>4. DOMAIN env' = Pods /\ \A q \in Pods : env'[q] = IF q = p THEN e ELSE env[q]
    BY <2>3
  <2>5. \A q \in Pods : env'[q] \in Environments(program'[q])
    BY <2>1, <2>4
  <2> QED BY <2>1, <2>2, <2>4, <2>5
<1>6. ASSUME NEW id \in Leases, LeaseExpires(id) PROVE TypeInv'
  BY <1>6 DEF LeaseExpires
<1>7. CASE UNCHANGED vars
  BY <1>7 DEF vars
<1> QED BY <1>1, <1>2, <1>3, <1>4, <1>5, <1>6, <1>7 DEF Next, Progress

-----------------------------------------------------------------------------
(* Leader election.                                                        *)

\* A process that leads by election holds the lease of its program.
LeaderHoldsLease ==
    \A p \in Pods : phase[p] = "leading" /\ env[p].leaderElect => lease[LeaseOf(p)] = p

\* Nobody leads at the start.
LEMMA LeaderInit == Init => LeaderHoldsLease
  BY DEF Init, LeaderHoldsLease

\* Every step keeps the lease with whoever leads.
LEMMA LeaderNext == TypeInv /\ LeaderHoldsLease /\ [Next]_vars => LeaderHoldsLease'
<1> SUFFICES ASSUME TypeInv, LeaderHoldsLease, [Next]_vars,
                    NEW q \in Pods, phase'[q] = "leading", env'[q].leaderElect
             PROVE  lease'[LeaseOf(q)'] = q
  BY DEF LeaderHoldsLease
<1> USE DEF TypeInv
<1>0. phase[q] = "leading" /\ env[q].leaderElect => lease[LeaseOf(q)] = q
  BY DEF LeaderHoldsLease
<1>p. UNCHANGED program => LeaseOf(q)' = LeaseOf(q)
  BY DEF LeaseOf
<1>1. ASSUME NEW p \in Pods, LoadConfig(p) \/ Wire(p) \/ Restart(p) \/ Fail(p)
      PROVE  lease'[LeaseOf(q)'] = q
  <2>1. UNCHANGED <<program, env, lease>>
    BY <1>1 DEF LoadConfig, Wire, Restart, Fail
  <2>2. phase[q] = "leading"
    BY <1>1 DEF LoadConfig, Wire, Restart, Fail, Proceed, Exit
  <2> QED BY <1>0, <1>p, <2>1, <2>2
<1>2. ASSUME NEW p \in Pods, Start(p) PROVE lease'[LeaseOf(q)'] = q
  <2>1. UNCHANGED <<program, env, lease>>
    BY <1>2 DEF Start
  <2>2. \A ph \in {"waiting", "leading"} :
           Enter(p, ph) => phase'[q] = phase[q] \/ (q = p /\ phase'[q] \in {ph, "panicked"})
    BY EnterStep
  <2>3. phase[q] = "leading"
    BY <1>2, <2>1, <2>2 DEF Start
  <2> QED BY <1>0, <1>p, <2>1, <2>3
<1>3. ASSUME NEW p \in Pods, Elected(p) PROVE lease'[LeaseOf(q)'] = q
  <2>1. UNCHANGED <<program, env>> /\ LeaseOf(p) \in Leases
    BY <1>3, LeaseTypes DEF Elected
  <2>2. lease[LeaseOf(p)] = Nobody /\ lease' = [lease EXCEPT ![LeaseOf(p)] = p]
    BY <1>3 DEF Elected
  <2>3. CASE q = p
    BY <1>p, <2>1, <2>2, <2>3
  <2>4. CASE q # p
    <3>1. phase[q] = "leading"
      BY <1>3, <2>4, EnterStep DEF Elected
    <3>2. lease[LeaseOf(q)] = q
      BY <1>0, <2>1, <3>1
    <3>3. LeaseOf(q) # LeaseOf(p)
      BY <2>2, <3>2, PodsAssumption
    <3> QED BY <1>p, <2>1, <2>2, <3>2, <3>3, LeaseTypes
  <2> QED BY <2>3, <2>4
<1>4. ASSUME NEW p \in Pods, NEW e \in Environments(program[p]), Replace(p, e)
      PROVE  lease'[LeaseOf(q)'] = q
  <2>1. UNCHANGED <<program, lease>> /\ env' = [env EXCEPT ![p] = e]
    BY <1>4 DEF Replace
  <2>2. q # p /\ phase[q] = "leading"
    BY <1>4 DEF Replace, Exit
  <2>3. env'[q] = env[q]
    BY <2>1, <2>2
  <2> QED BY <1>0, <1>p, <2>1, <2>2, <2>3
<1>5. ASSUME NEW id \in Leases, LeaseExpires(id) PROVE lease'[LeaseOf(q)'] = q
  <2>1. UNCHANGED <<program, env, phase>> /\ lease' = [lease EXCEPT ![id] = Nobody]
    BY <1>5 DEF LeaseExpires
  <2>2. lease[LeaseOf(q)] = q
    BY <1>0, <2>1
  <2>3. LeaseOf(q) # id
    BY <1>5, <2>1, <2>2 DEF LeaseExpires
  <2> QED BY <1>p, <2>1, <2>2, <2>3, LeaseTypes
<1>6. CASE UNCHANGED vars
  BY <1>0, <1>p, <1>6 DEF vars
<1> QED BY <1>1, <1>2, <1>3, <1>4, <1>5, <1>6 DEF Next, Progress

\* At most one replica of the inventory-controller that takes part in leader
\* election exports, for any number of pods, crashes, lost leases and updates.
THEOREM OneExporterAtATime == Spec => []OneExporter
<1>1. Init => TypeInv /\ LeaderHoldsLease
  BY TypeInit, LeaderInit
<1>2. (TypeInv /\ LeaderHoldsLease) /\ [Next]_vars => (TypeInv /\ LeaderHoldsLease)'
  BY TypeNext, LeaderNext
<1>3. LeaderHoldsLease => OneExporter
  <2> SUFFICES ASSUME LeaderHoldsLease, NEW p \in Pods, NEW q \in Pods, Exporting(p), Exporting(q),
                      env[p].leaderElect, env[q].leaderElect
               PROVE  p = q
    BY DEF OneExporter
  <2>1. phase[p] = "leading" /\ phase[q] = "leading" /\ program[p] = program[q]
    BY DEF Exporting, WorkerRuns, NeedLeaderElection
  <2>2. lease[LeaseOf(p)] = p /\ lease[LeaseOf(q)] = q
    BY <2>1 DEF LeaderHoldsLease
  <2>3. LeaseOf(p) = LeaseOf(q)
    BY <2>1 DEF LeaseOf
  <2> QED BY <2>2, <2>3
<1> QED BY <1>1, <1>2, <1>3, PTL DEF Spec

-----------------------------------------------------------------------------
(* Configuration.                                                          *)

\* A process past its first step has an accepted configuration, and one that
\* panicked did so on an accepted interval that is no positive time.Duration.
ConfigInv ==
    \A p \in Pods :
        /\ step[p] # 1 \/ phase[p] \in {"waiting", "leading"} => Accepted(p)
        /\ phase[p] \in {"exited", "panicked"} => step[p] = 1
        /\ phase[p] = "panicked" => WorkerRuns(p, "leading") /\ Accepted(p) /\ BatchInterval(env[p]) <= 0

\* The first step of main() loads the configuration, where there is any to load.
LEMMA FirstStep ==
  ASSUME TypeInv, NEW p \in Pods, Main(p)[1] # "config"
  PROVE  Accepted(p)
<1>1. program[p] \in Programs /\ env[p] \in Environments(program[p])
  BY DEF TypeInv
<1>2. program[p] = "mirror-upgrader"
  BY <1>1 DEF Programs, Main, InventoryMain, SyncMain
<1>3. env[p].interval = NotSet
  BY <1>1, <1>2 DEF Environments
<1> QED BY <1>2, <1>3 DEF Accepted, IntervalAccepted, NotSet

\* No main function begins with Start: something is loaded or wired before.
LEMMA LastStep ==
  ASSUME TypeInv, NEW p \in Pods
  PROVE  Main(p)[1] # "start"
<1>1. program[p] \in Programs
  BY DEF TypeInv
<1> QED BY <1>1 DEF Programs, Main, InventoryMain, SyncMain, MirrorMain

\* No process has loaded anything at the start.
LEMMA ConfigInit == Init => ConfigInv
  BY DEF Init, ConfigInv

\* Every step keeps ConfigInv: nothing goes on past a refused configuration.
LEMMA ConfigNext == TypeInv /\ ConfigInv /\ [Next]_vars => ConfigInv'
<1> DEFINE Inv(q) ==
       /\ step[q] # 1 \/ phase[q] \in {"waiting", "leading"} => Accepted(q)
       /\ phase[q] \in {"exited", "panicked"} => step[q] = 1
       /\ phase[q] = "panicked" => WorkerRuns(q, "leading") /\ Accepted(q) /\ BatchInterval(env[q]) <= 0
<1> SUFFICES ASSUME TypeInv, ConfigInv, [Next]_vars, NEW q \in Pods
             PROVE  Inv(q)'
  BY DEF ConfigInv
<1> USE DEF TypeInv
<1>0. Inv(q)
  BY DEF ConfigInv
<1>k. ASSUME program'[q] = program[q], env'[q] = env[q]
      PROVE  /\ Accepted(q)' = Accepted(q)
             /\ WorkerRuns(q, "leading")' = WorkerRuns(q, "leading")
             /\ BatchInterval(env[q])' = BatchInterval(env[q])
  <2>1. Accepted(q)' = Accepted(q)
    BY <1>k DEF Accepted, SecretAccepted, IntervalAccepted
  <2>2. WorkerRuns(q, "leading")' = WorkerRuns(q, "leading")
    BY <1>k DEF WorkerRuns
  <2>3. BatchInterval(env[q])' = BatchInterval(env[q])
    BY <1>k DEF BatchInterval, Wrap
  <2> QED BY <2>1, <2>2, <2>3
<1>s. ASSUME UNCHANGED <<program, env>>, phase'[q] = phase[q], step'[q] = step[q]
      PROVE  Inv(q)'
  BY <1>0, <1>k, <1>s
<1>1. ASSUME NEW p \in Pods, LoadConfig(p) \/ Wire(p) PROVE Inv(q)'
  <2>1. UNCHANGED <<program, env>> /\ phase[p] = "starting"
    BY <1>1 DEF LoadConfig, Wire, At
  <2>2. CASE q # p
    <3>1. phase'[q] = phase[q] /\ step'[q] = step[q]
      BY <1>1, <2>2 DEF LoadConfig, Wire, Proceed, Exit
    <3> QED BY <1>s, <2>1, <3>1
  <2>3. CASE q = p
    <3>1. CASE Exit(p)
      <4>1. phase'[q] = "exited" /\ step'[q] = 1
        BY <2>3, <3>1 DEF Exit
      <4> QED BY <4>1
    <3>2. CASE Proceed(p)
      <4>1. phase'[q] = "starting"
        BY <2>1, <2>3, <3>2 DEF Proceed
      <4>2. LoadConfig(p) => Accepted(p) \/ Exit(p)
        BY DEF LoadConfig
      <4>3. Wire(p) => Accepted(p)
        BY <1>0, <2>3, FirstStep DEF Wire
      <4>4. Accepted(q)
        BY <1>1, <2>1, <2>3, <3>2, <4>1, <4>2, <4>3 DEF Exit
      <4> QED BY <1>k, <2>1, <4>1, <4>4
    <3> QED BY <1>1, <3>1, <3>2 DEF LoadConfig, Wire
  <2> QED BY <2>2, <2>3
<1>2. ASSUME NEW p \in Pods, Start(p) \/ Elected(p) PROVE Inv(q)'
  <2>1. UNCHANGED <<program, env>>
    BY <1>2 DEF Start, Elected
  <2>2. PICK ph \in {"waiting", "leading"} : Enter(p, ph)
    BY <1>2 DEF Start, Elected
  <2>3. CASE q # p
    <3>1. phase'[q] = phase[q] /\ step'[q] = step[q]
      BY <2>2, <2>3, EnterStep
    <3> QED BY <1>s, <2>1, <3>1
  <2>4. CASE q = p
    <3>1. Accepted(q)
      <4>1. Start(p) => step[p] # 1
        BY LastStep DEF Start, At
      <4>2. Elected(p) => phase[p] = "waiting"
        BY DEF Elected
      <4> QED BY <1>0, <1>2, <2>4, <4>1, <4>2
    <3>2. CASE WorkerRuns(p, ph) /\ BatchInterval(env[p]) <= 0 /\ phase' = [phase EXCEPT ![p] = "panicked"]
                 /\ step' = [step EXCEPT ![p] = 1]
      <4>1. WorkerRuns(q, "leading")
        BY <2>4, <3>2 DEF WorkerRuns
      <4>2. phase'[q] = "panicked" /\ step'[q] = 1
        BY <2>4, <3>2
      <4> QED BY <1>k, <2>1, <2>4, <3>1, <3>2, <4>1, <4>2
    <3>3. CASE phase' = [phase EXCEPT ![p] = ph] /\ UNCHANGED step
      <4>1. phase'[q] = ph
        BY <2>4, <3>3
      <4> QED BY <1>k, <2>1, <3>1, <4>1
    <3> QED BY <2>2, <3>2, <3>3, EnterStep
  <2> QED BY <2>3, <2>4
<1>3. ASSUME NEW p \in Pods, Restart(p) PROVE Inv(q)'
  <2>1. UNCHANGED <<program, env, step>>
    BY <1>3 DEF Restart
  <2>2. phase'[q] = phase[q] \/ (q = p /\ phase'[q] = "starting" /\ phase[q] \in {"exited", "panicked"})
    BY <1>3 DEF Restart
  <2> QED BY <1>0, <1>k, <2>1, <2>2
<1>4. ASSUME NEW p \in Pods, Exit(p), UNCHANGED program, q # p => env'[q] = env[q] PROVE Inv(q)'
  <2>1. q = p => phase'[q] = "exited" /\ step'[q] = 1
    BY <1>4 DEF Exit
  <2>2. q # p => phase'[q] = phase[q] /\ step'[q] = step[q]
    BY <1>4 DEF Exit
  <2> QED BY <1>0, <1>4, <1>k, <2>1, <2>2
<1>5. ASSUME NEW p \in Pods, Fail(p) PROVE Inv(q)'
  BY <1>4, <1>5 DEF Fail
<1>6. ASSUME NEW p \in Pods, NEW e \in Environments(program[p]), Replace(p, e) PROVE Inv(q)'
  BY <1>4, <1>6 DEF Replace
<1>7. ASSUME NEW id \in Leases, LeaseExpires(id) PROVE Inv(q)'
  BY <1>7, <1>s DEF LeaseExpires
<1>8. CASE UNCHANGED vars
  BY <1>8, <1>s DEF vars
<1> QED BY <1>1, <1>2, <1>3, <1>5, <1>6, <1>7, <1>8 DEF Next, Progress

\* A number of nanoseconds that fits a time.Duration is converted to itself.
LEMMA WrapFits ==
  ASSUME NEW n \in Nat, n < Half
  PROVE  Wrap(n) = n
<1>1. Half \in Nat /\ n + Half \in 0..(2 * Half - 1)
  BY DurationAssumption
<1>2. (n + Half) % (2 * Half) = n + Half
  BY <1>1
<1> QED BY <1>1, <1>2 DEF Wrap

\* An accepted configuration is what the program then runs with.
LEMMA ConfigMakesSense == TypeInv /\ ConfigInv => RunsAsConfigured
<1> SUFFICES ASSUME TypeInv, ConfigInv, NEW p \in Pods
             PROVE  /\ Serving(p) => env[p].secret = "s"
                    /\ env[p].interval \notin {NotSet, NotANumber} /\ env[p].interval.value * Second < Half =>
                          /\ phase[p] # "panicked"
                          /\ Exporting(p) => /\ env[p].interval.value >= 1
                                             /\ BatchInterval(env[p]) = env[p].interval.value * Second
  BY DEF RunsAsConfigured
<1>1. program[p] \in Programs /\ env[p] \in Environments(program[p])
  BY DEF TypeInv
<1>2. ASSUME Serving(p) PROVE env[p].secret = "s"
  <2>1. program[p] = "sync-operator" /\ Accepted(p)
    BY <1>2 DEF Serving, ConfigInv
  <2>2. env[p].secret \in {"", " ", "s"}
    BY <1>1, <2>1 DEF Environments
  <2> QED BY <2>1, <2>2 DEF Accepted, SecretAccepted
<1>3. ASSUME env[p].interval \notin {NotSet, NotANumber}, env[p].interval.value * Second < Half
      PROVE  /\ phase[p] # "panicked"
             /\ Exporting(p) => /\ env[p].interval.value >= 1
                                /\ BatchInterval(env[p]) = env[p].interval.value * Second
  <2>1. PICK n \in Seconds : env[p].interval = Number(n)
    BY <1>1, <1>3 DEF Environments
  <2>2. n \in Int /\ env[p].interval.set /\ env[p].interval.value = n
    BY <2>1, DurationAssumption DEF Number
  <2>3. program[p] = "inventory-controller"
    BY <1>1, <1>3 DEF Environments
  <2>4. ASSUME Accepted(p) PROVE n >= 1 /\ BatchInterval(env[p]) = n * Second /\ BatchInterval(env[p]) > 0
    <3>1. n >= 1
      BY <2>2, <2>3, <2>4 DEF Accepted, IntervalAccepted
    <3>2. n * Second \in Nat \ {0}
      BY <2>2, <3>1, DurationAssumption
    <3>3. BatchInterval(env[p]) = Wrap(n * Second)
      BY <2>2 DEF BatchInterval
    <3> QED BY <1>3, <2>2, <3>1, <3>2, <3>3, WrapFits
  <2>5. phase[p] = "panicked" => Accepted(p) /\ BatchInterval(env[p]) <= 0
    BY DEF ConfigInv
  <2>6. Exporting(p) => Accepted(p)
    BY DEF ConfigInv, Exporting, WorkerRuns
  <2>7. phase[p] # "panicked"
    <3> SUFFICES ASSUME phase[p] = "panicked" PROVE FALSE
      OBVIOUS
    <3>1. BatchInterval(env[p]) = n * Second /\ n * Second > 0 /\ BatchInterval(env[p]) <= 0
      BY <2>4, <2>5
    <3> QED BY <2>2, <3>1, DurationAssumption
  <2> QED BY <2>2, <2>4, <2>6, <2>7
<1> QED BY <1>2, <1>3

\* No process serves the webhook without a secret, and the ticker of a worker
\* runs at the interval that was asked for and does not panic, however often the
\* pods are restarted and replaced and whatever numbers BATCH_INTERVAL_SECONDS
\* takes.
THEOREM ConfigurationHolds == Spec => []RunsAsConfigured
<1>1. Init => TypeInv /\ ConfigInv
  BY TypeInit, ConfigInit
<1>2. (TypeInv /\ ConfigInv) /\ [Next]_vars => (TypeInv /\ ConfigInv)'
  BY TypeNext, ConfigNext
<1> QED BY <1>1, <1>2, ConfigMakesSense, PTL DEF Spec
=============================================================================
