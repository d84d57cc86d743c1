-------------------------- MODULE SyncOrderProofs --------------------------
(***************************************************************************)
(* Proof that the cluster follows main when deliveries arrive in order and *)
(* one at a time, for any number of pushes, commits, files and objects,    *)
(* with failed calls, cancelled requests and forged requests between them. *)
(***************************************************************************)
EXTENDS SyncOperatorProofs

-----------------------------------------------------------------------------
(* The lists of a push.                                                    *)

\* What the lists of the commits c say of a file that is t[p] before the push
\* and u[p] after it: it is to be applied, or to be deleted and gone, or has
\* not changed.
Accounts(c, t, u, p) ==
    \/ p \in AddedModified(c)
    \/ p \in Removed(c) /\ u[p] = None
    \/ p \notin Removed(c) /\ u[p] = t[p]

\* ParseGitHubPushPaths lists as removed what no commit of the push adds or modifies.
LEMMA InRemoved ==
  ASSUME NEW c, NEW p
  PROVE  p \in Removed(c) <=> (p \notin AddedModified(c) /\ \E i \in DOMAIN c : p \in c[i].removed)
<1>1. p \in UNION {c[i].removed : i \in DOMAIN c} <=> \E i \in DOMAIN c : p \in c[i].removed
  OBVIOUS
<1> QED BY <1>1 DEF Removed

\* ParseGitHubPushPaths misses no change, however the commits of a push add,
\* change, remove and restore a file.
LEMMA ListsAccount ==
  ASSUME NEW branch, NEW t, NEW s \in Chains(t), NEW p \in Paths
  PROVE  Accounts(PushOf(branch, t, s).commits, t, PushOf(branch, t, s).tree, p)
<1> DEFINE n == Len(s)
           c == [i \in 1..n |-> CommitOf(Parent(t, s, i), s[i])]
           was(i) == Parent(t, s, i)[p]
<1>1. n \in Nat \ {0} /\ DOMAIN c = 1..n
  BY ChainTypes
<1>2. PushOf(branch, t, s).commits = c /\ PushOf(branch, t, s).tree = s[n]
  BY DEF PushOf
<1>3. \A i \in 1..n : /\ c[i].added = {q \in Paths : Parent(t, s, i)[q] = None /\ s[i][q] # None}
                      /\ c[i].modified = {q \in Paths : /\ Parent(t, s, i)[q] # None
                                                        /\ s[i][q] # None
                                                        /\ Parent(t, s, i)[q] # s[i][q]}
                      /\ c[i].removed = {q \in Paths : Parent(t, s, i)[q] # None /\ s[i][q] = None}
  BY DEF CommitOf
<1>4. was(1) = t[p] /\ \A i \in 2..n : was(i) = s[i - 1][p]
  BY <1>1 DEF Parent
<1> SUFFICES ASSUME p \notin AddedModified(c)
             PROVE  \/ p \in Removed(c) /\ s[n][p] = None
                    \/ p \notin Removed(c) /\ s[n][p] = t[p]
  BY <1>2 DEF Accounts
<1>5. \A i \in 1..n : s[i][p] = None \/ s[i][p] = was(i)
  BY <1>1, <1>3 DEF AddedModified
<1>6. p \in Removed(c) <=> \E i \in 1..n : was(i) # None /\ s[i][p] = None
  <2>1. \A i \in 1..n : p \in c[i].removed <=> (was(i) # None /\ s[i][p] = None)
    BY <1>3
  <2> HIDE DEF n, c, was
  <2>2. p \in Removed(c) <=> \E i \in 1..n : p \in c[i].removed
    BY <1>1, InRemoved
  <2> QED BY <2>1, <2>2
<1> HIDE DEF n, c, was
<1>7. CASE p \in Removed(c)
  <2>1. PICK j \in 1..n : s[j][p] = None
    BY <1>6, <1>7
  <2> DEFINE S == {i \in j..n : s[i][p] # None}
  <2>2. S = {}
    <3> SUFFICES ASSUME S # {} PROVE FALSE
      OBVIOUS
    <3>1. S \in SUBSET Nat
      BY <1>1, <2>1
    <3>2. PICK x \in S : \A y \in S : x <= y
      BY <3>1, LeastNumber
    <3>3. x \in j..n /\ s[x][p] # None /\ x # j
      BY <2>1, <3>2
    <3>4. x - 1 \in j..n /\ x \in 2..n /\ x - 1 \notin S
      BY <1>1, <2>1, <3>2, <3>3
    <3>5. s[x - 1][p] = None
      BY <3>4
    <3> QED BY <1>4, <1>5, <3>3, <3>4, <3>5
  <2>3. n \in j..n
    BY <1>1, <2>1
  <2>4. s[n][p] = None
    BY <2>2, <2>3
  <2> QED BY <1>7, <2>4
<1>8. CASE p \notin Removed(c)
  <2>1. \A i \in 1..n : s[i][p] = was(i)
    BY <1>5, <1>6, <1>8
  <2> DEFINE S == {i \in 1..n : s[i][p] # t[p]}
  <2>2. S = {}
    <3> SUFFICES ASSUME S # {} PROVE FALSE
      OBVIOUS
    <3>1. S \in SUBSET Nat
      BY <1>1
    <3>2. PICK x \in S : \A y \in S : x <= y
      BY <3>1, LeastNumber
    <3>3. x \in 1..n /\ s[x][p] # t[p] /\ x # 1
      BY <1>4, <2>1, <3>2
    <3>4. x - 1 \in 1..n /\ x \in 2..n /\ x - 1 \notin S
      BY <1>1, <3>2, <3>3
    <3>5. s[x - 1][p] = t[p]
      BY <3>4
    <3> QED BY <1>4, <2>1, <3>3, <3>4, <3>5
  <2>3. s[n][p] = t[p]
    BY <1>1, <2>2
  <2> QED BY <1>8, <2>3
<1> QED BY <1>7, <1>8

-----------------------------------------------------------------------------
(* The pushes.                                                             *)

\* The revision the push i was made on top of.
Before(i) == IF i = 1 THEN NoFiles ELSE pushes[i - 1].tree

\* main is where the last push has left it, and the lists of every push account
\* for what it changed.
HistoryInv ==
    /\ main = Before(Len(pushes) + 1)
    /\ \A i \in DOMAIN pushes, p \in Paths : Accounts(pushes[i].commits, Before(i), pushes[i].tree, p)

\* Without a push the repository is empty.
LEMMA HistoryInit == Init => HistoryInv
  BY DEF Init, HistoryInv, Before

\* Every step keeps HistoryInv.
LEMMA HistoryNext ==
  ASSUME Orderly, TypeOK, RequestInv, HistoryInv, [Next]_vars
  PROVE  HistoryInv'
<1>1. ASSUME UNCHANGED <<main, pushes>> PROVE HistoryInv'
  BY <1>1 DEF HistoryInv, Before
<1>2. ASSUME NEW branch \in Branches, Push(branch) PROVE HistoryInv'
  <2>1. PICK s \in Chains(main) : /\ pushes' = Append(pushes, PushOf(branch, main, s))
                                  /\ main' = IF branch = "main" THEN s[Len(s)] ELSE main
    BY <1>2 DEF Push, Announce
  <2> DEFINE n == Len(pushes)
             e == PushOf(branch, main, s)
  <2>2. branch = "main" /\ main' = e.tree
    BY <1>2, <2>1 DEF Orderly, PushOf
  <2>3. e \in PushEvents /\ pushes \in Seq(PushEvents)
    BY PushTypes DEF TypeOK
  <2>4. \A p \in Paths : Accounts(e.commits, main, e.tree, p)
    BY ListsAccount
  <2> HIDE DEF e
  <2>5. n \in Nat /\ Len(pushes') = n + 1 /\ pushes'[n + 1] = e /\ \A i \in 1..n : pushes'[i] = pushes[i]
    BY <2>1, <2>3 DEF e
  <2>6. DOMAIN pushes' = 1..(n + 1) /\ DOMAIN pushes = 1..n
    BY <2>1, <2>3, <2>5 DEF e
  <2>7. \A i \in 1..(n + 1) : Before(i)' = Before(i)
    BY <2>5 DEF Before
  <2>8. Len(pushes') + 1 # 1 /\ pushes'[(Len(pushes') + 1) - 1] = e
    BY <2>5
  <2>9. main' = Before(Len(pushes) + 1)'
    BY <2>2, <2>8 DEF Before
  <2>10. ASSUME NEW i \in DOMAIN pushes', NEW p \in Paths
         PROVE  Accounts(pushes'[i].commits, Before(i)', pushes'[i].tree, p)
    <3>1. CASE i = n + 1
      BY <2>4, <2>5, <2>6, <2>7, <3>1 DEF HistoryInv
    <3>2. CASE i \in 1..n
      BY <2>5, <2>6, <2>7, <3>2 DEF HistoryInv
    <3> QED BY <2>5, <2>6, <3>1, <3>2
  <2>11. \A i \in DOMAIN pushes', p \in Paths : Accounts(pushes[i].commits, Before(i), pushes[i].tree, p)'
    BY <2>10 DEF Accounts, AddedModified, Removed
  <2> QED BY <2>9, <2>11 DEF HistoryInv
<1>3. ASSUME NEW h \in Handlers, Serve(h) \/ Fault(h) \/ Cancel(h) \/ BodyArrives(h) PROVE HistoryInv'
  BY <1>1, <1>3, RequestSteps DEF RequestStep
<1> QED BY <1>1, <1>2, <1>3 DEF Next, Deliver, Forge, Redeliver, Lose, Restart, BodyCut, vars

-----------------------------------------------------------------------------
(* The push that is being handled.                                         *)

\* A request with nothing wrong, and the paths it has still to process.
Genuine(h) == handlers[h].stage # "free" /\ handlers[h].defects = {}

Pending(h) ==
    IF handlers[h].stage \in Bodies
    THEN AddedModified(handlers[h].commits) \cup Removed(handlers[h].commits)
    ELSE handlers[h].apply \cup handlers[h].delete

\* The cluster has for k what t says, or the error was reported.
Settled(t, k) == k \in reported \/ Reflects(t, k)

\* The request h handles the push n.
Handling(h, n) ==
    /\ n # 0
    /\ handlers[h].tree = pushes[n].tree
    /\ handlers[h].stage \in Bodies => handlers[h].commits = pushes[n].commits
    /\ handlers[h].stage \in {"loop", "fetched"} =>
          \A p \in handlers[h].delete : handlers[h].tree[p] = None

Awaited(k) == \E h \in Handlers : Genuine(h) /\ \E p \in Pending(h) : Parsed[p] = k

\* The first n pushes have been delivered, and all but the last of them have
\* been handled.  An object whose path is not still to be processed is settled.
After(n) ==
    /\ inbox = (n + 1)..Len(pushes)
    /\ \A h \in Handlers : Genuine(h) => Handling(h, n)
    /\ \A h, q \in Handlers : Genuine(h) /\ Genuine(q) => h = q
    /\ \A k \in Keys : Awaited(k) \/ Settled(Before(n + 1), k)

OrderInv == \E n \in 0..Len(pushes) : After(n)

\* Before the first push nothing is awaited.
LEMMA OrderInit == Init => OrderInv
<1> SUFFICES ASSUME Init PROVE After(0)
  BY DEF Init, OrderInv
<1>1. \A h \in Handlers : ~Genuine(h)
  BY DEF Init, Genuine, Free
<1>2. \A k \in Keys : Settled(Before(1), k)
  BY DEF Init, Settled, Reflects, FilesOf, Before, NoFiles
<1>3. inbox = 1..Len(pushes)
  BY DEF Init
<1> QED BY <1>1, <1>2, <1>3 DEF After

\* When nothing is under way, the last push is the one the cluster reflects.
LEMMA OrderReflects == TypeOK /\ HistoryInv /\ OrderInv => MainReflected
<1> SUFFICES ASSUME TypeOK, HistoryInv, OrderInv, inbox = {}, Busy = {}, NEW k \in Keys
             PROVE  k \in reported \/ Reflects(main, k)
  BY DEF MainReflected
<1>1. PICK n \in 0..Len(pushes) : After(n)
  BY DEF OrderInv
<1>2. Len(pushes) \in Nat
  BY DEF TypeOK
<1>3. n = Len(pushes)
  BY <1>1, <1>2 DEF After
<1>4. \A h \in Handlers : ~Genuine(h)
  BY DEF Busy, Genuine, Free
<1>5. Settled(Before(n + 1), k)
  BY <1>1, <1>4 DEF After, Awaited
<1> QED BY <1>3, <1>5 DEF HistoryInv, Settled

\* What a step leaves alone.
LEMMA SettledKept ==
  ASSUME NEW t, NEW k, cluster'[k] = cluster[k], k \in reported' <=> k \in reported
  PROVE  Settled(t, k)' <=> Settled(t, k)
  BY DEF Settled, Reflects, FilesOf

\* What a handler is at depends on its request only.
LEMMA HandlingKept ==
  ASSUME NEW h, NEW n, handlers'[h] = handlers[h], n # 0 => pushes'[n] = pushes[n]
  PROVE  /\ Genuine(h)' <=> Genuine(h)
         /\ Pending(h)' = Pending(h)
         /\ Handling(h, n)' <=> Handling(h, n)
<1>1. Genuine(h)' <=> Genuine(h)
  BY DEF Genuine
<1>2. Pending(h)' = Pending(h)
  BY DEF Pending, AddedModified, Removed
<1>3. Handling(h, n)' <=> Handling(h, n)
  BY DEF Handling
<1> QED BY <1>1, <1>2, <1>3

\* A path that is done with leaves its object settled.
LEMMA TargetSettled ==
  ASSUME Orderly, TypeOK, RequestInv, NEW h \in Handlers, NEW n, Handling(h, n),
         Advanced(h), Outcome(h), Target(h) # NotParsed,
         NEW t, t = handlers[h].tree, NEW k, k = Target(h)
  PROVE  Settled(t, k)'
<1>1. Path(h) \in Paths /\ Parsed[Path(h)] = k /\ k \in Keys
  BY PathType DEF Advanced, Target
<1>2. CASE reported' = reported \cup {Target(h)}
  BY <1>2 DEF Settled
<1>3. CASE Applied(h)
  <2>1. handlers[h].raw = t[Path(h)] /\ handlers[h].raw # None /\ handlers[h].raw.id = k
    BY <1>3 DEF RequestInv, Sound, Applied
  <2>2. cluster'[k] \in AppliedFrom(t[Path(h)])
    BY <1>1, <1>3, <2>1 DEF Applied, TypeOK
  <2>3. Path(h) \in FilesOf(t, k)
    BY <1>1, <2>1 DEF FilesOf
  <2>4. PICK p \in Paths : p = Path(h)
    BY <1>1
  <2>5. p \in FilesOf(t, k)' /\ t[p].id = k /\ cluster'[k] \in AppliedFrom(t[p])
    BY <2>1, <2>2, <2>3, <2>4 DEF FilesOf
  <2> QED BY <2>5 DEF Settled, Reflects, AppliedFrom, Application, MaterialHash
<1>4. CASE Deleted(h)
  <2>1. t[Path(h)] = None
    BY <1>4, PathType DEF Deleted, Handling, Advanced
  <2>2. FilesOf(t, k) = {}
    BY <1>1, <2>1 DEF FilesOf, Orderly
  <2>3. cluster'[k] = Absent
    BY <1>1, <1>4 DEF Deleted, TypeOK
  <2> QED BY <2>2, <2>3 DEF Settled, Reflects, FilesOf, Absent
<1> QED BY <1>2, <1>3, <1>4 DEF Outcome

\* A step of a request settles one path of its push and disturbs no other.
LEMMA RequestOrder ==
  ASSUME Orderly, TypeOK, RequestInv, HistoryInv, NEW n \in 0..Len(pushes), After(n),
         NEW h \in Handlers, RequestStep(h)
  PROVE  After(n)'
<1>1. UNCHANGED <<pushes, inbox>> /\ handlers \in [Handlers -> Requests] /\ pushes \in Seq(PushEvents)
  BY DEF RequestStep, TypeOK
<1>2. PICK t : t = Before(n + 1) /\ t = Before(n + 1)'
  BY <1>1 DEF Before
<1>3. ASSUME NEW q \in Handlers, q # h
      PROVE  (Genuine(q)' <=> Genuine(q)) /\ Pending(q)' = Pending(q) /\ (Handling(q, n)' <=> Handling(q, n))
  <2>1. handlers'[q] = handlers[q]
    BY <1>1, <1>3 DEF RequestStep, Reject, Begin, Respond, Advanced, Fetched, HungUp, BodyRead
  <2> QED BY <1>1, <2>1, HandlingKept
<1> DEFINE Due(g, k) == Genuine(g) /\ \E p \in Pending(g) : Parsed[p] = k
<1>4. ASSUME Genuine(h)' => Genuine(h) /\ Handling(h, n)',
             \A k \in Keys : Due(h, k) => Due(h, k)' \/ Settled(t, k)',
             \A k \in Keys : Settled(t, k) => Settled(t, k)'
      PROVE  After(n)'
  <2>1. inbox' = (n + 1)..Len(pushes')
    BY <1>1 DEF After
  <2>2. \A q \in Handlers : Genuine(q)' => Genuine(q) /\ Handling(q, n)'
    BY <1>3, <1>4 DEF After
  <2>3. \A g, q \in Handlers : Genuine(g)' /\ Genuine(q)' => g = q
    BY <2>2 DEF After
  <2>4. ASSUME NEW k \in Keys PROVE Awaited(k)' \/ Settled(Before(n + 1), k)'
    <3>1. Settled(t, k)' => Settled(Before(n + 1), k)'
      BY <1>2 DEF Settled, Reflects, FilesOf
    <3>2. CASE Settled(Before(n + 1), k)
      BY <1>2, <1>4, <3>1, <3>2
    <3>3. CASE Awaited(k)
      <4>1. PICK g \in Handlers : Due(g, k)
        BY <3>3 DEF Awaited
      <4>2. Due(g, k)' \/ Settled(t, k)'
        <5>1. CASE g = h
          BY <1>4, <4>1, <5>1
        <5>2. CASE g # h
          BY <1>3, <4>1, <5>2
        <5> QED BY <5>1, <5>2
      <4> QED BY <3>1, <4>2 DEF Awaited
    <3> QED BY <3>2, <3>3 DEF After
  <2> QED BY <2>1, <2>2, <2>3, <2>4 DEF After
<1> HIDE DEF Due
<1>5. ASSUME UNCHANGED <<cluster, reported>>
      PROVE  \A k \in Keys : Settled(t, k) => Settled(t, k)'
  BY <1>5, SettledKept
<1>6. Genuine(h) => Handling(h, n)
  BY DEF After
<1>7. CASE Reject(h) \/ Respond(h)
  <2>1. handlers'[h] = Free
    BY <1>1, <1>7 DEF Reject, Respond
  <2>2. ~Genuine(h)'
    BY <2>1 DEF Genuine, Free
  <2>3. \A k \in Keys : ~Due(h, k)
    BY <1>7 DEF Due, Genuine, Pending, Reject, Refused, Respond, Applying, Deleting, Bodies
  <2>4. UNCHANGED <<cluster, reported>>
    BY <1>7 DEF Reject, Respond
  <2> QED BY <1>4, <1>5, <2>2, <2>3, <2>4
<1>8. CASE Begin(h)
  <2>1. UNCHANGED <<cluster, reported>> /\ handlers[h].stage = "received" /\ Genuine(h)
    BY <1>8 DEF Begin, Refused, Genuine
  <2>2. handlers[h].commits = pushes[n].commits /\ handlers[h].tree = pushes[n].tree /\ n \in DOMAIN pushes
    BY <1>1, <1>6, <2>1 DEF Handling, Bodies
  <2>3. \A p \in Removed(handlers[h].commits) : handlers[h].tree[p] = None
    <3>1. handlers[h].commits \in Seq(FileLists)
      BY <1>1 DEF Requests
    <3> QED BY <2>2, <3>1, ListTypes, InRemoved DEF HistoryInv, Accounts
  <2>4. Genuine(h)' /\ Pending(h)' = Pending(h) /\ Handling(h, n)'
    BY <1>1, <1>6, <1>8, <2>1, <2>3, BeginFields DEF Genuine, Pending, Handling, Bodies
  <2> QED BY <1>4, <1>5, <2>1, <2>4 DEF Due
<1>9. CASE (Fetched(h) \/ HungUp(h) \/ BodyRead(h)) /\ UNCHANGED <<cluster, reported>>
  <2>1. /\ handlers'[h].tree = handlers[h].tree
        /\ handlers'[h].defects = handlers[h].defects
        /\ handlers'[h].apply = handlers[h].apply
        /\ handlers'[h].delete = handlers[h].delete
        /\ handlers'[h].commits = handlers[h].commits
        /\ \/ handlers'[h].stage = handlers[h].stage
           \/ handlers[h].stage = "loop" /\ handlers'[h].stage = "fetched"
           \/ handlers[h].stage = "reading" /\ handlers'[h].stage = "received"
    <3>1. handlers[h] \in Requests
      BY <1>1
    <3>2. Fetched(h) => handlers[h].stage = "loop" /\ \E raw : handlers'[h] = [handlers[h] EXCEPT !.stage = "fetched", !.raw = raw]
      BY <1>1 DEF Fetched, InLoop
    <3>3. HungUp(h) => handlers'[h] = [handlers[h] EXCEPT !.live = FALSE]
      BY <1>1 DEF HungUp
    <3>4. BodyRead(h) => handlers[h].stage = "reading" /\ handlers'[h] = [handlers[h] EXCEPT !.stage = "received"]
      BY <1>1 DEF BodyRead
    <3> QED BY <1>9, <3>1, <3>2, <3>3, <3>4 DEF Requests
  <2>2. (Genuine(h)' <=> Genuine(h)) /\ Pending(h)' = Pending(h)
    BY <2>1 DEF Genuine, Pending, AddedModified, Removed, Bodies
  <2>3. Handling(h, n) => Handling(h, n)'
    BY <1>1, <2>1 DEF Handling, Bodies
  <2> QED BY <1>4, <1>5, <1>6, <1>9, <2>2, <2>3 DEF Due
<1>10. CASE Advanced(h) /\ Outcome(h)
  <2>1. Genuine(h) /\ handlers[h].stage \notin Bodies
    BY <1>10 DEF Advanced, Genuine, RequestInv, Sound, Bodies
  <2>2. Handling(h, n) /\ t = handlers[h].tree
    BY <1>1, <1>2, <1>6, <2>1 DEF Handling, Before
  <2>3. Genuine(h)' /\ Handling(h, n)' /\ Pending(h)' = Pending(h) \ {Path(h)}
    <3>1. /\ handlers'[h].stage = "loop"
          /\ handlers'[h].tree = handlers[h].tree
          /\ handlers'[h].defects = handlers[h].defects
          /\ handlers'[h].apply = handlers[h].apply \ {Path(h)}
          /\ handlers'[h].delete = handlers[h].delete \ {Path(h)}
      BY <1>10, AdvancedFields
    <3>2. Genuine(h)'
      BY <2>1, <3>1 DEF Genuine
    <3>3. Handling(h, n)'
      BY <1>1, <1>10, <2>2, <3>1 DEF Handling, Advanced, Bodies
    <3>4. Pending(h)' = Pending(h) \ {Path(h)}
      BY <2>1, <3>1 DEF Pending, Bodies
    <3> QED BY <3>2, <3>3, <3>4
  <2>4. ASSUME NEW k \in Keys, k = Target(h) PROVE Settled(t, k)'
    BY <1>10, <2>2, <2>4, TargetSettled, PathsAssumption
  <2>5. ASSUME NEW k \in Keys, k # Target(h) PROVE Settled(t, k)' <=> Settled(t, k)
    <3>1. cluster'[k] = cluster[k] /\ (k \in reported' <=> k \in reported)
      BY <1>10, <2>5 DEF Outcome, Applied, Deleted, TypeOK
    <3> QED BY <3>1, SettledKept
  <2>6. ASSUME NEW k \in Keys, Due(h, k), k # Target(h) PROVE Due(h, k)'
    <3>1. PICK p \in Pending(h) : Parsed[p] = k
      BY <2>6 DEF Due
    <3>2. p # Path(h)
      BY <2>6, <3>1 DEF Target
    <3> QED BY <2>3, <3>1, <3>2 DEF Due
  <2> QED BY <1>4, <2>1, <2>3, <2>4, <2>5, <2>6
<1> QED BY <1>7, <1>8, <1>9, <1>10 DEF RequestStep

\* The deliveries that are not yet made wait behind the push being handled.
LEMMA PushOrder ==
  ASSUME Orderly, TypeOK, NEW n \in 0..Len(pushes), After(n), NEW branch \in Branches, Push(branch)
  PROVE  n \in 0..Len(pushes') /\ After(n)'
<1>1. PICK s \in Chains(main) : /\ pushes' = Append(pushes, PushOf(branch, main, s))
                                /\ inbox' = inbox \cup {Len(pushes) + 1}
  BY DEF Push, Announce
<1>2. PushOf(branch, main, s) \in PushEvents /\ pushes \in Seq(PushEvents)
  BY PushTypes DEF TypeOK
<1>3. Len(pushes) \in Nat /\ Len(pushes') = Len(pushes) + 1 /\ \A i \in 1..Len(pushes) : pushes'[i] = pushes[i]
  BY <1>1, <1>2
<1>4. UNCHANGED <<handlers, cluster, reported>> /\ (n # 0 => pushes'[n] = pushes[n])
  BY <1>3 DEF Push
<1>5. \A h \in Handlers : /\ Genuine(h)' <=> Genuine(h)
                          /\ Pending(h)' = Pending(h)
                          /\ Handling(h, n)' <=> Handling(h, n)
  BY <1>4, HandlingKept
<1>6. PICK t : t = Before(n + 1) /\ t = Before(n + 1)'
  <2>1. (n + 1) - 1 = n /\ (n + 1 # 1 => n # 0)
    BY <1>3
  <2>2. Before(n + 1)' = Before(n + 1)
    BY <1>4, <2>1 DEF Before
  <2> QED BY <2>2
<1>7. inbox' = (n + 1)..Len(pushes')
  BY <1>1, <1>3 DEF After
<1>8. ASSUME NEW k \in Keys PROVE Awaited(k)' \/ Settled(Before(n + 1), k)'
  <2>1. Settled(t, k)' <=> Settled(t, k)
    BY <1>4, SettledKept
  <2>2. Settled(t, k)' => Settled(Before(n + 1), k)'
    BY <1>6 DEF Settled, Reflects, FilesOf
  <2>3. Awaited(k) => Awaited(k)'
    BY <1>5 DEF Awaited
  <2>4. Awaited(k) \/ Settled(t, k)
    BY <1>6 DEF After
  <2> QED BY <2>1, <2>2, <2>3, <2>4
<1> QED BY <1>3, <1>5, <1>7, <1>8 DEF After

\* A push is delivered when the one before it has been handled: what it does
\* not list is settled already.
LEMMA DeliverOrder ==
  ASSUME Orderly, TypeOK, HistoryInv, NEW n \in 0..Len(pushes), After(n),
         NEW h \in Handlers, NEW i \in inbox, NEW body \in Bodies, Deliver(h, i, body)
  PROVE  n + 1 \in 0..Len(pushes') /\ After(n + 1)'
<1>1. UNCHANGED <<pushes, cluster, reported>> /\ inbox' = inbox \ {i} /\ Busy = {} /\ \A j \in inbox : i <= j
  BY DEF Deliver, Orderly
<1>2. Len(pushes) \in Nat /\ DOMAIN pushes = 1..Len(pushes) /\ handlers \in [Handlers -> Requests]
  BY DEF TypeOK
<1>3. inbox = (n + 1)..Len(pushes)
  BY DEF After
<1>4. i = n + 1 /\ i \in DOMAIN pushes /\ inbox' = ((n + 1) + 1)..Len(pushes')
  BY <1>1, <1>2, <1>3
<1>5. handlers' = [handlers EXCEPT ![h] = [Free EXCEPT !.stage = body, !.tree = pushes[i].tree,
                                           !.commits = pushes[i].commits, !.defects = {}]]
  BY DEF Deliver, Receive
<1>6. /\ handlers'[h].stage = body
      /\ handlers'[h].tree = pushes[i].tree
      /\ handlers'[h].commits = pushes[i].commits
      /\ handlers'[h].defects = {}
  BY <1>2, <1>5 DEF Free
<1>7. \A q \in Handlers : handlers[q].stage = "free"
  BY <1>1 DEF Busy, Free
<1>8. \A q \in Handlers : ~Genuine(q) /\ (Genuine(q)' => q = h)
  BY <1>2, <1>5, <1>7 DEF Genuine
<1>9. Genuine(h)' /\ Handling(h, n + 1)'
  BY <1>1, <1>4, <1>6 DEF Genuine, Handling, Bodies
<1>10. Pending(h)' = AddedModified(pushes[i].commits) \cup Removed(pushes[i].commits)
  BY <1>6 DEF Pending
<1>11. PICK t, u : t = Before(i) /\ u = pushes[i].tree
  OBVIOUS
<1>12. u = Before((n + 1) + 1)'
  BY <1>1, <1>4, <1>11 DEF Before
<1>13. ASSUME NEW k \in Keys PROVE Awaited(k)' \/ Settled(Before((n + 1) + 1), k)'
  <2> SUFFICES ASSUME \A p \in Pending(h)' : Parsed[p] # k PROVE Settled(u, k)'
    BY <1>9, <1>12 DEF Awaited, Settled, Reflects, FilesOf
  <2>1. Settled(t, k)
    BY <1>4, <1>8, <1>11 DEF After, Awaited
  <2>2. \A p \in Paths : Parsed[p] = k => u[p] = t[p]
    BY <1>4, <1>10, <1>11 DEF HistoryInv, Accounts
  <2>3. Settled(u, k)
    BY <2>1, <2>2 DEF Settled, Reflects, FilesOf
  <2> QED BY <1>1, <2>3, SettledKept
<1>14. n + 1 \in 0..Len(pushes')
  BY <1>1, <1>2, <1>4
<1> QED BY <1>4, <1>8, <1>9, <1>13, <1>14 DEF After

\* A forged request is no push.
LEMMA ForgeOrder ==
  ASSUME Orderly, TypeOK, NEW n \in 0..Len(pushes), After(n), NEW h \in Handlers,
         NEW d \in Defects, NEW p \in Paths, NEW m \in Manifests, NEW body \in Bodies,
         Forge(h, d, p, m, body)
  PROVE  After(n)'
<1> DEFINE r == [NoFiles EXCEPT ![p] = m]
<1>1. UNCHANGED <<pushes, inbox, cluster, reported>> /\ handlers \in [Handlers -> Requests]
  BY DEF Forge, TypeOK
<1>2. Receive(h, body, r, <<CommitOf(NoFiles, r)>>, {d})
  BY DEF Forge
<1> HIDE DEF r
<1>3. handlers[h].stage = "free" /\ handlers'[h].defects = {d}
  BY <1>1, <1>2 DEF Receive, Free
<1>4. ~Genuine(h) /\ ~Genuine(h)'
  BY <1>3 DEF Genuine
<1>5. ASSUME NEW q \in Handlers, q # h
      PROVE  (Genuine(q)' <=> Genuine(q)) /\ Pending(q)' = Pending(q) /\ (Handling(q, n)' <=> Handling(q, n))
  <2>1. handlers'[q] = handlers[q]
    BY <1>1, <1>2, <1>5 DEF Receive
  <2> QED BY <1>1, <2>1, HandlingKept
<1>6. PICK t : t = Before(n + 1) /\ t = Before(n + 1)'
  BY <1>1 DEF Before
<1>7. ASSUME NEW k \in Keys PROVE Awaited(k)' \/ Settled(Before(n + 1), k)'
  <2>1. Settled(t, k)' <=> Settled(t, k)
    BY <1>1, SettledKept
  <2>2. Settled(t, k)' => Settled(Before(n + 1), k)'
    BY <1>6 DEF Settled, Reflects, FilesOf
  <2>3. Awaited(k) => Awaited(k)'
    BY <1>4, <1>5 DEF Awaited
  <2>4. Awaited(k) \/ Settled(t, k)
    BY <1>6 DEF After
  <2> QED BY <2>1, <2>2, <2>3, <2>4
<1> QED BY <1>1, <1>4, <1>5, <1>7 DEF After

\* Every step keeps OrderInv.
LEMMA OrderNext ==
  ASSUME Orderly, TypeOK, RequestInv, HistoryInv, OrderInv, [Next]_vars
  PROVE  OrderInv'
<1>1. PICK n \in 0..Len(pushes) : After(n)
  BY DEF OrderInv
<1>2. ASSUME NEW h \in Handlers, Serve(h) \/ Fault(h) \/ Cancel(h) \/ BodyArrives(h) PROVE OrderInv'
  <2>1. RequestStep(h) /\ After(n)'
    BY <1>1, <1>2, RequestSteps, RequestOrder
  <2> QED BY <1>1, <2>1 DEF OrderInv, RequestStep
<1>3. ASSUME NEW branch \in Branches, Push(branch) PROVE OrderInv'
  BY <1>1, <1>3, PushOrder DEF OrderInv
<1>4. ASSUME NEW h \in Handlers, NEW i \in inbox, NEW body \in Bodies, Deliver(h, i, body) PROVE OrderInv'
  <2>1. n + 1 \in 0..Len(pushes') /\ After(n + 1)'
    BY <1>1, <1>4, DeliverOrder
  <2>2. PICK j : j = n + 1
    OBVIOUS
  <2> QED BY <2>1, <2>2 DEF OrderInv
<1>5. ASSUME NEW h \in Handlers, NEW d \in Defects, NEW p \in Paths, NEW m \in Manifests, NEW body \in Bodies,
             Forge(h, d, p, m, body)
      PROVE  OrderInv'
  <2>1. After(n)' /\ UNCHANGED pushes
    BY <1>1, <1>5, ForgeOrder DEF Forge
  <2> QED BY <1>1, <2>1 DEF OrderInv
<1>6. \A e \in {"redeliver", "lose", "restart"} : ~Happens(e)
  BY DEF Orderly, Happens, TypeOK, Events
<1>7. CASE UNCHANGED vars
  <2>1. UNCHANGED <<pushes, inbox, handlers, cluster, reported>>
    BY <1>7 DEF vars
  <2>2. After(n)'
    <3>1. \A h \in Handlers : /\ Genuine(h)' <=> Genuine(h)
                              /\ Pending(h)' = Pending(h)
                              /\ Handling(h, n)' <=> Handling(h, n)
      BY <2>1, HandlingKept
    <3>2. \A k \in Keys : Awaited(k)' <=> Awaited(k)
      BY <3>1 DEF Awaited
    <3>3. \A k \in Keys : Settled(Before(n + 1), k)' <=> Settled(Before(n + 1), k)
      BY <2>1 DEF Settled, Before, Reflects, FilesOf
    <3>4. inbox' = (n + 1)..Len(pushes')
      BY <1>1, <2>1 DEF After
    <3> QED BY <1>1, <3>1, <3>2, <3>3, <3>4 DEF After
  <2> QED BY <1>1, <2>1, <2>2 DEF OrderInv
<1> QED BY <1>2, <1>3, <1>4, <1>5, <1>6, <1>7 DEF Next, Redeliver, Lose, Restart, BodyCut

\* When deliveries arrive in order, one at a time, none is lost, every object has
\* one path and only main is pushed to, the cluster agrees with main whenever
\* nothing is under way, on every object but those whose last response reported
\* an error: for any number of pushes, commits, files and objects, whatever calls
\* fail, requests are cancelled and requests are forged.
THEOREM ClusterFollowsMain ==
  ASSUME Orderly
  PROVE  Spec => []MainReflected
<1> DEFINE Inv == TypeOK /\ RequestInv /\ HistoryInv /\ OrderInv
<1>1. Init => Inv
  BY RequestsInit, HistoryInit, OrderInit
<1>2. Inv /\ [Next]_vars => Inv'
  BY TypeNext, RequestNext, HistoryNext, OrderNext
<1>3. Inv => MainReflected
  BY OrderReflects
<1> HIDE DEF Inv
<1> QED BY <1>1, <1>2, <1>3, PTL DEF Spec
=============================================================================
