---------------------------- MODULE SyncOperator ----------------------------
(***************************************************************************)
(* The sync-operator: the webhook handler of internal/sync, which brings   *)
(* the files of a GitHub push into the cluster.                            *)
(*                                                                         *)
(* net/http serves every delivery in a goroutine of its own, and nothing   *)
(* orders them: two pushes are handled concurrently, each fetching the     *)
(* files of its own head commit.  A step is one call that another handler  *)
(* or a failure can come between.                                          *)
(***************************************************************************)
EXTENDS InventoryPaths, FiniteSets

CONSTANTS
    Keys,         \* the Argo CD objects: kind, namespace, name
    PathOrder,    \* the file paths of the repository, as sort.Strings has them
    Manifests,    \* the files: the object they declare and the rest
    None,         \* no file, no object
    Merged,       \* what an apply of a file may leave on an object
    Handlers,     \* concurrently served requests
    MaxCommits,   \* bound on the commits of a push
    MaxFiles,     \* bound on the files one commit changes
    Branches,     \* the branches that are pushed to
    Overlapping,  \* may deliveries overlap and overtake each other?
    Limit         \* bounds on pushes and on what goes wrong

Events == {"push", "forge", "fault", "cancel", "redeliver", "lose", "restart"}

\* A file is named by the place of its path in that order.
Paths == DOMAIN PathOrder

ASSUME OrderAssumption == Len(PathOrder) \in Nat /\ Paths = 1..Len(PathOrder)

\* The object a file stands for, or NotParsed.
Parsed == [p \in Paths |-> ParseInventoryExportPath(PathOrder[p])]

ASSUME PathsAssumption ==
    NotParsed \notin Keys /\ \A p \in Paths : Parsed[p] \in Keys \cup {NotParsed}
ASSUME ManifestsAssumption == None \notin Manifests /\ \A m \in Manifests : m.id \in Keys

\* A server-side apply keeps the fields of the object that the file does not
\* have and another manager owns; who owns what is outside the model, so any
\* of Merged[d][c] may be left of an object d by an apply of c.  An object it
\* creates is the file, and it changes nothing on an object that is the file.
ASSUME MergedAssumption ==
    /\ Merged \in [Manifests \cup {None} -> [Manifests -> SUBSET Manifests]]
    /\ \A c \in Manifests : Merged[None][c] = {c} /\ Merged[c][c] = {c}
    /\ \A c \in Manifests, d \in Manifests \cup {None} :
          Merged[d][c] # {} /\ \A m \in Merged[d][c] : m.id = c.id

ASSUME BoundsAssumption ==
    /\ Limit \in [Events -> Nat]
    /\ MaxCommits \in Nat \ {0}
    /\ MaxFiles \in Nat \ {0}
    /\ Overlapping \in BOOLEAN

VARIABLES
    main,      \* the files at the head of main
    pushes,    \* the pushes made so far
    inbox,     \* the deliveries on their way: indexes of pushes
    handlers,  \* the requests being served
    cluster,   \* the objects in the API server
    reported,  \* the objects whose last result in a response was an error
    count      \* how often each of Events has happened

vars == <<main, pushes, inbox, handlers, cluster, reported, count>>

-----------------------------------------------------------------------------
(* Repository, payload and cluster.                                        *)

Revisions == [Paths -> Manifests \cup {None}]

NoFiles == [p \in Paths |-> None]

\* The lists GitHub computes for a commit that turns t into u.
CommitOf(t, u) ==
    [added    |-> {p \in Paths : t[p] = None /\ u[p] # None},
     modified |-> {p \in Paths : t[p] # None /\ u[p] # None /\ t[p] # u[p]},
     removed  |-> {p \in Paths : t[p] # None /\ u[p] = None}]

Changed(t, u) == {p \in Paths : t[p] # u[p]}

\* The revision before the commit i of the commits s on top of t.
Parent(t, s, i) == IF i = 1 THEN t ELSE s[i - 1]

\* The chains of at most MaxCommits commits that start at t.
Chains(t) ==
    UNION {{s \in [1..n -> Revisions] :
               \A i \in 1..n : Cardinality(Changed(Parent(t, s, i), s[i])) \in 1..MaxFiles}
           : n \in 1..MaxCommits}

\* A push event: the tree of its head commit and the lists of its commits.
PushOf(branch, t, s) ==
    [branch  |-> branch,
     tree    |-> s[Len(s)],
     commits |-> [i \in 1..Len(s) |-> CommitOf(Parent(t, s, i), s[i])]]

\* Faulty variant: the modified files are left out.
AddedOnly(commits) == UNION {commits[i].added : i \in DOMAIN commits}

\* ParseGitHubPushPaths: the files to apply and to delete; a path in both
\* lists counts as added.
AddedModified(commits) ==
    UNION {commits[i].added \cup commits[i].modified : i \in DOMAIN commits}

Removed(commits) ==
    (UNION {commits[i].removed : i \in DOMAIN commits}) \ AddedModified(commits)

\* The hash of a manifest, taken to be collision free.
MaterialHash(m) == <<"sha256", m>>

\* The objects ApplyInventoryYAML may make of c and an object d: the annotation
\* is the hash of the file, whatever is left beside the fields of the file.
Application(d, c) == {[material |-> m, ann |-> MaterialHash(c)] : m \in Merged[d][c]}

AppliedFrom(c) == UNION {Application(d, c) : d \in Manifests \cup {None}}

Absent == [material |-> None, ann |-> None]

\* Faulty variant: the manifest is trusted.
IdentityTrusted(k, m) == TRUE

\* validatePathManifestIdentity
IdentityMatches(k, m) == m.id = k

-----------------------------------------------------------------------------
(* Requests and handlers.                                                  *)

\* What is wrong with a request, in the order ServeHTTP looks at it.
Defects == {"method", "body", "signature", "payload"}

\* Any defect ends the request with 405, 400, 401 or 400.
Refused(d) == d # {}

\* apply and delete are the paths the two loops have still to process; raw is
\* the file just fetched; live whether the context of the request is still valid.
Free == [stage |-> "free", tree |-> NoFiles, apply |-> {}, delete |-> {}, raw |-> None,
         live |-> FALSE, commits |-> <<>>, defects |-> {}]

Stages == {"free", "reading", "received", "loop", "fetched"}

Applying(h) == handlers[h].apply # {}
Deleting(h) == ~Applying(h) /\ handlers[h].delete # {}

\* The path the loops have come to: those to apply first, each in sorted order.
Path(h) == Min(IF Applying(h) THEN handlers[h].apply ELSE handlers[h].delete)

\* The object the current path of h stands for.
Target(h) == Parsed[Path(h)]

\* A request comes in: its body is there, or is still to be read.
Receive(h, stage, tree, commits, defects) ==
    /\ handlers[h] = Free
    /\ handlers' = [handlers EXCEPT ![h] = [Free EXCEPT !.stage = stage, !.tree = tree,
                                            !.commits = commits, !.defects = defects]]

\* io.ReadAll returns the body.
BodyArrives(h) ==
    /\ handlers[h].stage = "reading"
    /\ handlers' = [handlers EXCEPT ![h].stage = "received"]
    /\ UNCHANGED <<main, pushes, inbox, cluster, reported, count>>

\* http.Error: nothing is done.
Reject(h) ==
    /\ handlers[h].stage = "received"
    /\ Refused(handlers[h].defects)
    /\ handlers' = [handlers EXCEPT ![h] = Free]
    /\ UNCHANGED <<main, pushes, inbox, cluster, reported, count>>

\* The payload is parsed and the two loops are entered.
Begin(h) ==
    /\ handlers[h].stage = "received"
    /\ ~Refused(handlers[h].defects)
    /\ handlers' = [handlers EXCEPT ![h] = [@ EXCEPT !.stage = "loop", !.live = TRUE,
                                            !.apply = AddedModified(handlers[h].commits),
                                            !.delete = Removed(handlers[h].commits)]]
    /\ UNCHANGED <<main, pushes, inbox, cluster, reported, count>>

\* A result is appended for the current path, and the loop goes on.
Result(h, status) ==
    /\ handlers' = [handlers EXCEPT ![h] = [@ EXCEPT !.stage = "loop", !.raw = None,
                                            !.apply = handlers[h].apply \ {Path(h)},
                                            !.delete = handlers[h].delete \ {Path(h)}]]
    /\ reported' = CASE status = "ignored" -> reported
                     [] status = "error"   -> reported \cup {Target(h)}
                     [] OTHER              -> reported \ {Target(h)}
    /\ UNCHANGED <<main, pushes, inbox>>

InLoop(h) == handlers[h].stage = "loop" /\ (Applying(h) \/ Deleting(h))

\* A path that does not parse is skipped.
Ignore(h) ==
    /\ InLoop(h)
    /\ Target(h) = NotParsed
    /\ Result(h, "ignored")
    /\ UNCHANGED <<cluster, count>>

\* FetchGitHubRawFile at the commit of the push: a file that is not there
\* (any more) is an error.
Fetch(h) ==
    LET file == handlers[h].tree[Path(h)] IN
    /\ InLoop(h)
    /\ Target(h) # NotParsed
    /\ Applying(h)
    /\ handlers[h].live
    /\ \/ /\ file = None
          /\ Result(h, "error")
       \/ /\ file # None
          /\ handlers' = [handlers EXCEPT ![h] = [@ EXCEPT !.stage = "fetched", !.raw = file]]
          /\ UNCHANGED <<main, pushes, inbox, reported>>
    /\ UNCHANGED <<cluster, count>>

\* Faulty variant: the annotation is not injected.
PatchUnannotated(h) ==
    LET c == handlers[h].raw IN
    \E m \in Merged[cluster[c.id].material][c] :
        cluster' = [cluster EXCEPT ![c.id] = [material |-> m, ann |-> None]]

\* The forced server-side apply of the file fetched, under the identity it declares.
Patch(h) ==
    LET c == handlers[h].raw IN
    \E o \in Application(cluster[c.id].material, c) : cluster' = [cluster EXCEPT ![c.id] = o]

\* The deletion of the object the path stands for.  Its finalizers, which let
\* the API server keep it for a while, are left out.
DeleteObject(h) == cluster' = [cluster EXCEPT ![Target(h)] = Absent]

\* ApplyInventoryYAML: the identity check, then a forced server-side apply
\* of the manifest with the annotation added.
Apply(h) ==
    /\ handlers[h].stage = "fetched"
    /\ \/ /\ ~IdentityMatches(Target(h), handlers[h].raw)
          /\ Result(h, "error")
          /\ UNCHANGED cluster
       \/ /\ IdentityMatches(Target(h), handlers[h].raw)
          /\ handlers[h].live
          /\ Patch(h)
          /\ Result(h, "applied")
    /\ UNCHANGED count

\* K8s.Delete; an object that is already gone counts as deleted.
Delete(h) ==
    /\ InLoop(h)
    /\ Target(h) # NotParsed
    /\ Deleting(h)
    /\ handlers[h].live
    /\ DeleteObject(h)
    /\ Result(h, "deleted")
    /\ UNCHANGED count

Happens(e) ==
    /\ count[e] < Limit[e]
    /\ count' = [count EXCEPT ![e] = @ + 1]

\* The call for the current path fails and its error is the result.
CallFails(h) ==
    /\ handlers[h].stage = "fetched" \/ (InLoop(h) /\ Target(h) # NotParsed)
    /\ Result(h, "error")
    /\ UNCHANGED cluster

\* Faulty variants: the loop ends without results for the remaining paths;
\* the call is repeated until it succeeds.
CancelledReturns(h) ==
    /\ ~handlers[h].live
    /\ handlers[h].stage \in {"loop", "fetched"}
    /\ handlers' = [handlers EXCEPT ![h] = Free]
    /\ UNCHANGED <<main, pushes, inbox, cluster, reported, count>>

CancelledRetries(h) ==
    /\ ~handlers[h].live
    /\ handlers[h].stage \in {"loop", "fetched"}
    /\ UNCHANGED vars

\* The context is cancelled: every remaining call fails.
Cancelled(h) ==
    /\ ~handlers[h].live
    /\ CallFails(h)
    /\ UNCHANGED count

Respond(h) ==
    /\ handlers[h].stage = "loop"
    /\ ~Applying(h) /\ ~Deleting(h)
    /\ handlers' = [handlers EXCEPT ![h] = Free]
    /\ UNCHANGED <<main, pushes, inbox, cluster, reported, count>>

Serve(h) ==
    \/ Reject(h)
    \/ Begin(h)
    \/ Ignore(h)
    \/ Fetch(h)
    \/ Apply(h)
    \/ Delete(h)
    \/ Cancelled(h)
    \/ Respond(h)

-----------------------------------------------------------------------------
(* GitHub, the network and the node.                                       *)

\* The API server did it, but its answer was lost: the result is an error.
ReplyLost(h) ==
    /\ \/ /\ handlers[h].stage = "fetched"
          /\ IdentityMatches(Target(h), handlers[h].raw)
          /\ Patch(h)
       \/ /\ InLoop(h)
          /\ Target(h) # NotParsed
          /\ Deleting(h)
          /\ DeleteObject(h)
    /\ Result(h, "error")

\* The API server, GitHub or the network fails a call.
Fault(h) ==
    /\ Happens("fault")
    /\ handlers[h].live
    /\ CallFails(h) \/ ReplyLost(h)

\* The connection breaks while the body is read, which is then refused.
BodyCut(h) ==
    /\ Happens("lose")
    /\ handlers[h].stage = "reading"
    /\ handlers' = [handlers EXCEPT ![h] = [@ EXCEPT !.stage = "received",
                                            !.defects = handlers[h].defects \cup {"body"}]]
    /\ UNCHANGED <<main, pushes, inbox, cluster, reported>>

\* GitHub hangs up after its own timeout, or the five minutes are over.
Cancel(h) ==
    /\ Happens("cancel")
    /\ handlers[h].live
    /\ handlers' = [handlers EXCEPT ![h].live = FALSE]
    /\ UNCHANGED <<main, pushes, inbox, cluster, reported>>

\* GitHub sends a push event for the commits s made on top of t.
Announce(branch, t, s) ==
    /\ pushes' = Append(pushes, PushOf(branch, t, s))
    /\ inbox' = inbox \cup {Len(pushes) + 1}

\* Commits are pushed; a push to another branch leaves main where it is.
Push(branch) ==
    /\ Happens("push")
    /\ \E s \in Chains(main) :
        /\ Announce(branch, main, s)
        /\ main' = IF branch = "main" THEN s[Len(s)] ELSE main
    /\ UNCHANGED <<handlers, cluster, reported>>

Busy == {h \in Handlers : handlers[h] # Free}

\* The body of a request is complete when the handler reads it, or it is not.
Bodies == {"received", "reading"}

Deliver(h, i, body) ==
    /\ i \in inbox
    /\ ~Overlapping => Busy = {} /\ \A j \in inbox : i <= j
    /\ Receive(h, body, pushes[i].tree, pushes[i].commits, {})
    /\ inbox' = inbox \ {i}
    /\ UNCHANGED <<main, pushes, cluster, reported, count>>

\* A request that is not an intact push of the repository.  Its payload may
\* name any repository, so any file may be found where it points.  The method is
\* looked at before the body is read.
Forge(h, d, p, m, body) ==
    /\ Happens("forge")
    /\ d = "method" => body = "received"
    /\ LET t == [NoFiles EXCEPT ![p] = m]
       IN  Receive(h, body, t, <<CommitOf(NoFiles, t)>>, {d})
    /\ UNCHANGED <<main, pushes, inbox, cluster, reported>>

\* Somebody presses "Redeliver" on an earlier delivery.
Redeliver(i) ==
    /\ Happens("redeliver")
    /\ i \in DOMAIN pushes
    /\ i \notin inbox
    /\ inbox' = inbox \cup {i}
    /\ UNCHANGED <<main, pushes, handlers, cluster, reported>>

\* The operator cannot be reached; GitHub does not try again.
Lose(i) ==
    /\ Happens("lose")
    /\ i \in inbox
    /\ inbox' = inbox \ {i}
    /\ UNCHANGED <<main, pushes, handlers, cluster, reported>>

\* The process is replaced: requests in progress die where they are.
Restart ==
    /\ Happens("restart")
    /\ Busy # {}
    /\ handlers' = [h \in Handlers |-> Free]
    /\ UNCHANGED <<main, pushes, inbox, cluster, reported>>

Init ==
    /\ main = NoFiles
    /\ pushes = <<>>
    /\ inbox = {}
    /\ handlers = [h \in Handlers |-> Free]
    /\ cluster = [k \in Keys |-> Absent]
    /\ reported = {}
    /\ count = [e \in Events |-> 0]

Next ==
    \/ \E h \in Handlers : Serve(h) \/ Fault(h) \/ Cancel(h) \/ BodyArrives(h) \/ BodyCut(h)
    \/ \E branch \in Branches : Push(branch)
    \/ \E h \in Handlers : \E body \in Bodies :
        \/ \E i \in inbox : Deliver(h, i, body)
        \/ \E d \in Defects, p \in Paths, m \in Manifests : Forge(h, d, p, m, body)
    \/ \E i \in DOMAIN pushes : Redeliver(i) \/ Lose(i)
    \/ Restart

Spec == Init /\ [][Next]_vars

\* Once the body is read, a handler's goroutine runs on and its calls return
\* within the timeout.  io.ReadAll comes before the timeout is set and has no
\* deadline, so nothing makes a body arrive.
FairSpec == Spec /\ \A h \in Handlers : WF_vars(Serve(h))

-----------------------------------------------------------------------------
(* Properties.                                                             *)

\* The lists of a commit.
FileLists == [added: SUBSET Paths, modified: SUBSET Paths, removed: SUBSET Paths]

PushEvents == [branch: Branches, tree: Revisions, commits: Seq(FileLists)]

\* The objects the operator makes.
Applications == UNION {AppliedFrom(c) : c \in Manifests}

Requests ==
    [stage: Stages, tree: Revisions, apply: SUBSET Paths, delete: SUBSET Paths,
     raw: Manifests \cup {None}, live: BOOLEAN, commits: Seq(FileLists), defects: SUBSET Defects]

\* Trees, deliveries, requests and objects have their types.
TypeOK ==
    /\ main \in Revisions
    /\ pushes \in Seq(PushEvents)
    /\ inbox \subseteq DOMAIN pushes
    /\ handlers \in [Handlers -> Requests]
    /\ cluster \in [Keys -> Applications \cup {Absent}]
    /\ reported \subseteq Keys
    /\ count \in [Events -> Nat]

\* Every object the operator created or changed is what an apply leaves of
\* a file that a signed push of the repository had at the path of that
\* object, under its own identity, and carries the hash of that file: whatever
\* requests are forged, delivered twice, overtaken, cancelled, cut off by the
\* sender or by a restart.
AppliedFromGit ==
    \A k \in Keys :
        cluster[k] # Absent =>
            \E i \in DOMAIN pushes, p \in Paths :
                /\ Parsed[p] = k
                /\ pushes[i].tree[p] # None
                /\ pushes[i].tree[p].id = k
                /\ cluster[k] \in AppliedFrom(pushes[i].tree[p])

\* ServeHTTP has the body and has not responded.
Running(h) == handlers[h].stage \in {"received", "loop", "fetched"}

\* Every request whose body has been read is answered, also when its calls
\* fail, when GitHub has hung up or the five minutes are over in the middle of
\* the loops, and while the senders of other requests keep theirs waiting in
\* io.ReadAll for ever; only a restart of the process drops it.
EveryRequestAnswered ==
    \A h \in Handlers, r \in 0..Limit["restart"] :
        Running(h) /\ count["restart"] = r
            ~> (handlers[h] = Free /\ count["restart"] = r) \/ count["restart"] > r

\* The files of a revision that stand for k.
FilesOf(t, k) == {p \in Paths : Parsed[p] = k /\ t[p] # None}

\* The cluster has for k what t says: no object without a file, else what an
\* apply of one of its files left.
Reflects(t, k) ==
    \/ FilesOf(t, k) = {} /\ cluster[k] = Absent
    \/ \E p \in FilesOf(t, k) : t[p].id = k /\ cluster[k] \in AppliedFrom(t[p])

\* When no delivery is under way, the cluster agrees with main on every
\* object, except where the response for its last file reported an error:
\* ServeHTTP fails no file silently.
MainReflected ==
    inbox = {} /\ Busy = {} => \A k \in Keys : k \in reported \/ Reflects(main, k)

\* What MainReflected rests on: one delivery at a time, in order, none lost or
\* repeated or cut off, pushes to main only and one path for every object.
Orderly ==
    /\ ~Overlapping
    /\ Branches = {"main"}
    /\ \A e \in {"redeliver", "lose", "restart"} : Limit[e] = 0
    /\ \A p, q \in Paths : Parsed[p] = Parsed[q] /\ Parsed[p] # NotParsed => p = q
=============================================================================
