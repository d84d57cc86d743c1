------------------------- MODULE SyncOperatorProofs -------------------------
(***************************************************************************)
(* Proofs about the sync-operator, for any number of concurrently served   *)
(* requests, any repository and any number of pushes, forged requests,     *)
(* failed calls, repeated and lost deliveries and restarts.                *)
(***************************************************************************)
EXTENDS SyncOperator, WellFoundedInduction, TLAPS

-----------------------------------------------------------------------------
(* The operators of the model.                                             *)

\* Every set of natural numbers that is not empty has a least one.
LEMMA LeastNumber ==
  ASSUME NEW S \in SUBSET Nat, S # {}
  PROVE  \E x \in S : \A y \in S : x <= y
<1> DEFINE R == OpToRel(<, Nat)
<1>1. IsWellFoundedOn(R, Nat)
  BY NatLessThanWellFounded
<1>2. \A x, y \in Nat : y < x => <<y, x>> \in R
  BY DEF OpToRel
<1> HIDE DEF R
<1>3. PICK x \in S : \A y \in S : ~(<<y, x>> \in R)
  BY <1>1, WFMin
<1>4. \A y \in S : x <= y
  <2> TAKE y \in S
  <2>1. ~(y < x)
    BY <1>2, <1>3
  <2> QED BY <2>1
<1> QED BY <1>4

\* The loops have a first path as long as there is a path.
LEMMA FirstPath ==
  ASSUME NEW S \in SUBSET Paths, S # {}
  PROVE  Min(S) \in S
<1>1. S \in SUBSET Nat
  BY OrderAssumption
<1>2. \E x \in S : \A y \in S : x <= y
  BY <1>1, LeastNumber
<1> QED BY <1>2 DEF Min

\* A commit lists paths.
LEMMA CommitTypes ==
  ASSUME NEW t, NEW u
  PROVE  CommitOf(t, u) \in FileLists
  BY DEF CommitOf, FileLists

\* The two lists of a push are sets of paths.
LEMMA ListTypes ==
  ASSUME NEW c \in Seq(FileLists)
  PROVE  AddedModified(c) \in SUBSET Paths /\ Removed(c) \in SUBSET Paths
<1>1. \A i \in DOMAIN c : c[i] \in FileLists
  OBVIOUS
<1> QED BY <1>1 DEF AddedModified, Removed, FileLists

\* A push brings at least one revision.
LEMMA ChainTypes ==
  ASSUME NEW t, NEW s \in Chains(t)
  PROVE  s \in Seq(Revisions) /\ Len(s) \in Nat \ {0} /\ s[Len(s)] \in Revisions
<1>1. PICK n \in 1..MaxCommits : s \in [1..n -> Revisions]
  BY DEF Chains
<1>2. n \in Nat \ {0}
  BY <1>1, BoundsAssumption
<1> QED BY <1>1, <1>2

\* What GitHub announces is a push event.
LEMMA PushTypes ==
  ASSUME NEW branch \in Branches, NEW t, NEW s \in Chains(t)
  PROVE  PushOf(branch, t, s) \in PushEvents
<1>1. s \in Seq(Revisions) /\ Len(s) \in Nat \ {0} /\ s[Len(s)] \in Revisions
  BY ChainTypes
<1>2. [i \in 1..Len(s) |-> CommitOf(Parent(t, s, i), s[i])] \in Seq(FileLists)
  BY <1>1, CommitTypes
<1> QED BY <1>1, <1>2 DEF PushOf, PushEvents

\* A free handler and the empty repository have their types.
LEMMA FreeType == Free \in Requests /\ NoFiles \in Revisions
  BY DEF Free, Requests, NoFiles, Revisions, Stages

\* What an apply of c leaves is an object of the identity of c, with the hash of c.
LEMMA AppliedTypes ==
  ASSUME NEW c \in Manifests, NEW o \in AppliedFrom(c)
  PROVE  o.material \in Manifests /\ o.material.id = c.id /\ o.ann = MaterialHash(c)
<1>1. PICK d \in Manifests \cup {None} : o \in Application(d, c)
  BY DEF AppliedFrom
<1>2. PICK m \in Merged[d][c] : o = [material |-> m, ann |-> MaterialHash(c)]
  BY <1>1 DEF Application
<1>3. m \in Manifests /\ m.id = c.id
  BY <1>2, MergedAssumption
<1> QED BY <1>2, <1>3

-----------------------------------------------------------------------------
(* What a step of a request does.                                          *)

\* A request that is not refused is a push of the repository, and a file it has
\* fetched is the file of its current path.
Sound(h) ==
    /\ handlers[h].stage \in {"loop", "fetched"} => handlers[h].defects = {}
    /\ handlers[h].stage # "free" /\ handlers[h].defects = {} =>
          \E i \in DOMAIN pushes : handlers[h].tree = pushes[i].tree
    /\ handlers[h].stage = "fetched" =>
          /\ Applying(h)
          /\ Target(h) # NotParsed
          /\ handlers[h].raw = handlers[h].tree[Path(h)]
          /\ handlers[h].raw # None

RequestInv == \A h \in Handlers : Sound(h)

\* The loops go on to the next path.
Advanced(h) ==
    /\ Applying(h) \/ Deleting(h)
    /\ handlers[h].stage \in {"loop", "fetched"}
    /\ handlers' = [handlers EXCEPT ![h] = [@ EXCEPT !.stage = "loop", !.raw = None,
                                            !.apply = handlers[h].apply \ {Path(h)},
                                            !.delete = handlers[h].delete \ {Path(h)}]]

\* The API server has applied or deleted the object of the current path.
Applied(h) ==
    /\ handlers[h].stage = "fetched"
    /\ handlers[h].raw.id = Target(h)
    /\ \E o \in AppliedFrom(handlers[h].raw) : cluster' = [cluster EXCEPT ![Target(h)] = o]

Deleted(h) ==
    /\ Deleting(h)
    /\ cluster' = [cluster EXCEPT ![Target(h)] = Absent]

\* The result of the current path.
Outcome(h) ==
    \/ Target(h) = NotParsed /\ UNCHANGED <<cluster, reported>>
    \/ /\ Target(h) # NotParsed
       /\ reported' = reported \cup {Target(h)}
       /\ UNCHANGED cluster \/ Applied(h) \/ Deleted(h)
    \/ /\ Target(h) # NotParsed
       /\ reported' = reported \ {Target(h)}
       /\ Applied(h) \/ Deleted(h)

\* A file is fetched, and a request is cancelled.
Fetched(h) ==
    /\ InLoop(h) /\ Target(h) # NotParsed /\ Applying(h)
    /\ handlers[h].tree[Path(h)] # None
    /\ handlers' = [handlers EXCEPT ![h] = [@ EXCEPT !.stage = "fetched", !.raw = handlers[h].tree[Path(h)]]]

HungUp(h) == handlers[h].live /\ handlers' = [handlers EXCEPT ![h].live = FALSE]

\* The body of a request has been read.
BodyRead(h) == handlers[h].stage = "reading" /\ handlers' = [handlers EXCEPT ![h].stage = "received"]

RequestStep(h) ==
    /\ \/ Reject(h)
       \/ Begin(h)
       \/ Respond(h)
       \/ Advanced(h) /\ Outcome(h)
       \/ (Fetched(h) \/ HungUp(h) \/ BodyRead(h)) /\ UNCHANGED <<cluster, reported>>
    /\ UNCHANGED <<main, pushes, inbox>>
    /\ count' \in [Events -> Nat]

\* A patch leaves on the object of the path what an apply of its file may leave.
LEMMA PatchApplies ==
  ASSUME TypeOK, RequestInv, NEW h \in Handlers, handlers[h].stage = "fetched",
         IdentityMatches(Target(h), handlers[h].raw), Patch(h)
  PROVE  Applied(h)
<1>1. PICK c : c = handlers[h].raw
  OBVIOUS
<1>2. c \in Manifests /\ c.id = Target(h)
  BY <1>1 DEF RequestInv, Sound, TypeOK, Requests, IdentityMatches
<1>3. PICK k \in Keys : k = c.id
  BY <1>2, ManifestsAssumption
<1>4. PICK d : d = cluster[k].material
  OBVIOUS
<1>5. cluster[k] \in Applications \cup {Absent}
  BY DEF TypeOK
<1>6. d \in Manifests \cup {None}
  <2>1. ASSUME cluster[k] \in Applications PROVE d \in Manifests
    <3>1. PICK m \in Manifests : cluster[k] \in AppliedFrom(m)
      BY <2>1 DEF Applications
    <3> QED BY <1>4, <3>1, AppliedTypes
  <2> QED BY <1>4, <1>5, <2>1 DEF Absent
<1>7. PICK o \in Application(d, c) : cluster' = [cluster EXCEPT ![c.id] = o]
  BY <1>1, <1>3, <1>4 DEF Patch
<1>8. o \in AppliedFrom(c)
  BY <1>6, <1>7 DEF AppliedFrom
<1> QED BY <1>1, <1>2, <1>7, <1>8 DEF Applied

\* Every step of ServeHTTP is one of the kinds of RequestStep.
LEMMA RequestSteps ==
  ASSUME TypeOK, RequestInv, NEW h \in Handlers, Serve(h) \/ Fault(h) \/ Cancel(h) \/ BodyArrives(h)
  PROVE  RequestStep(h)
<1>1. count \in [Events -> Nat]
  BY DEF TypeOK
<1>2. handlers[h].stage = "fetched" => /\ Applying(h) \/ Deleting(h)
                                       /\ Target(h) # NotParsed
  BY DEF RequestInv, Sound
<1>3. ASSUME NEW status \in {"error", "applied", "deleted"}, Result(h, status),
             Applying(h) \/ Deleting(h), handlers[h].stage \in {"loop", "fetched"}
      PROVE  /\ Advanced(h)
             /\ status = "error" => reported' = reported \cup {Target(h)}
             /\ status # "error" => reported' = reported \ {Target(h)}
             /\ UNCHANGED <<main, pushes, inbox>>
  BY <1>3 DEF Result, Advanced
<1>4. CASE Reject(h) \/ Begin(h) \/ Respond(h)
  BY <1>1, <1>4 DEF RequestStep, Reject, Begin, Respond
<1>5. CASE Ignore(h)
  BY <1>1, <1>5 DEF RequestStep, Ignore, InLoop, Result, Advanced, Outcome
<1>6. CASE Fetch(h)
  <2>1. CASE Result(h, "error")
    BY <1>1, <1>3, <1>6, <2>1 DEF RequestStep, Fetch, InLoop, Outcome
  <2>2. CASE ~Result(h, "error")
    BY <1>1, <1>6, <2>2 DEF RequestStep, Fetch, Fetched
  <2> QED BY <2>1, <2>2
<1>7. CASE Apply(h)
  BY <1>1, <1>2, <1>3, <1>7, PatchApplies DEF RequestStep, Apply, Outcome
<1>8. CASE Delete(h)
  BY <1>1, <1>3, <1>8 DEF RequestStep, Delete, InLoop, DeleteObject, Deleted, Outcome
<1>9. CASE CallFails(h) /\ count' \in [Events -> Nat]
  BY <1>2, <1>3, <1>9 DEF RequestStep, CallFails, InLoop, Outcome
<1>10. CASE ReplyLost(h) /\ count' \in [Events -> Nat]
  BY <1>2, <1>3, <1>10, PatchApplies DEF RequestStep, ReplyLost, InLoop, DeleteObject, Deleted, Outcome
<1>11. ASSUME NEW e \in Events, Happens(e) PROVE count' \in [Events -> Nat]
  BY <1>1, <1>11 DEF Happens
<1>12. CASE Cancelled(h)
  BY <1>1, <1>9, <1>12 DEF Cancelled
<1>13. CASE Fault(h)
  BY <1>9, <1>10, <1>11, <1>13 DEF Fault, Events
<1>14. CASE Cancel(h)
  BY <1>11, <1>14 DEF Cancel, Events, RequestStep, HungUp
<1>15. CASE BodyArrives(h)
  BY <1>1, <1>15 DEF BodyArrives, RequestStep, BodyRead
<1> QED BY <1>4, <1>5, <1>6, <1>7, <1>8, <1>12, <1>13, <1>14, <1>15 DEF Serve

-----------------------------------------------------------------------------
(* Types and requests.                                                     *)

\* The current path of a request is a path of the repository.
LEMMA PathType ==
  ASSUME TypeOK, NEW h \in Handlers, Applying(h) \/ Deleting(h)
  PROVE  /\ Path(h) \in Paths
         /\ Applying(h) => Path(h) \in handlers[h].apply
         /\ Deleting(h) => Path(h) \in handlers[h].delete
         /\ Target(h) \in Keys \cup {NotParsed}
<1>1. handlers[h].apply \in SUBSET Paths /\ handlers[h].delete \in SUBSET Paths
  BY DEF TypeOK, Requests
<1>2. CASE Applying(h)
  BY <1>1, <1>2, FirstPath, PathsAssumption DEF Applying, Deleting, Path, Target
<1>3. CASE Deleting(h)
  BY <1>1, <1>3, FirstPath, PathsAssumption DEF Applying, Deleting, Path, Target
<1> QED BY <1>2, <1>3

\* A step of a request keeps the types.
LEMMA RequestType ==
  ASSUME TypeOK, RequestInv, NEW h \in Handlers, RequestStep(h)
  PROVE  TypeOK'
<1> USE DEF TypeOK
<1>1. UNCHANGED <<main, pushes, inbox>> /\ count' \in [Events -> Nat]
  BY DEF RequestStep
<1>2. CASE Reject(h) \/ Respond(h)
  BY <1>1, <1>2, FreeType DEF Reject, Respond
<1>3. CASE Begin(h)
  <2>1. handlers[h].commits \in Seq(FileLists)
    BY DEF Requests
  <2>2. [handlers[h] EXCEPT !.stage = "loop", !.live = TRUE,
                            !.apply = AddedModified(handlers[h].commits),
                            !.delete = Removed(handlers[h].commits)] \in Requests
    BY <2>1, ListTypes DEF Requests, Stages
  <2>3. handlers' \in [Handlers -> Requests]
    BY <1>3, <2>2 DEF Begin
  <2> QED BY <1>1, <1>3, <2>3 DEF Begin
<1>4. CASE Advanced(h) /\ Outcome(h)
  <2>1. Path(h) \in Paths /\ Target(h) \in Keys \cup {NotParsed}
    BY <1>4, PathType DEF Advanced
  <2>2. handlers' \in [Handlers -> Requests]
    <3>1. [handlers[h] EXCEPT !.stage = "loop", !.raw = None,
                              !.apply = handlers[h].apply \ {Path(h)},
                              !.delete = handlers[h].delete \ {Path(h)}] \in Requests
      BY DEF Requests, Stages
    <3> QED BY <1>4, <3>1 DEF Advanced
  <2>3. reported' \subseteq Keys
    BY <1>4, <2>1 DEF Outcome
  <2>4. Applied(h) => handlers[h].raw \in Manifests
    BY DEF Applied, RequestInv, Sound, Requests
  <2>5. cluster' \in [Keys -> Applications \cup {Absent}]
    <3>1. CASE Applied(h)
      <4>1. PICK o \in AppliedFrom(handlers[h].raw) : cluster' = [cluster EXCEPT ![Target(h)] = o]
        BY <3>1 DEF Applied
      <4>2. o \in Applications
        BY <2>4, <3>1 DEF Applications
      <4> QED BY <4>1, <4>2
    <3>2. CASE ~Applied(h)
      BY <1>4, <2>1, <3>2 DEF Outcome, Deleted
    <3> QED BY <3>1, <3>2
  <2> QED BY <1>1, <2>2, <2>3, <2>5
<1>5. CASE (Fetched(h) \/ HungUp(h) \/ BodyRead(h)) /\ UNCHANGED <<cluster, reported>>
  <2>1. Fetched(h) => handlers[h].tree[Path(h)] \in Manifests \cup {None}
    BY PathType DEF Fetched, Requests, Revisions
  <2>2. handlers' \in [Handlers -> Requests]
    <3>1. CASE Fetched(h)
      <4>1. [handlers[h] EXCEPT !.stage = "fetched", !.raw = handlers[h].tree[Path(h)]] \in Requests
        BY <2>1, <3>1 DEF Requests, Stages
      <4> QED BY <3>1, <4>1 DEF Fetched
    <3>2. CASE HungUp(h)
      BY <3>2 DEF HungUp, Requests
    <3>3. CASE BodyRead(h)
      BY <3>3 DEF BodyRead, Requests, Stages
    <3> QED BY <1>5, <3>1, <3>2, <3>3
  <2> QED BY <1>1, <1>5, <2>2
<1> QED BY <1>2, <1>3, <1>4, <1>5 DEF RequestStep

\* Every step keeps the types.
LEMMA TypeNext == TypeOK /\ RequestInv /\ [Next]_vars => TypeOK'
<1> SUFFICES ASSUME TypeOK, RequestInv, [Next]_vars PROVE TypeOK'
  OBVIOUS
<1>1. ASSUME NEW h \in Handlers, Serve(h) \/ Fault(h) \/ Cancel(h) \/ BodyArrives(h) PROVE TypeOK'
  BY <1>1, RequestSteps, RequestType
<1> USE DEF TypeOK
<1>h. ASSUME NEW e \in Events, Happens(e) PROVE count' \in [Events -> Nat]
  BY <1>h DEF Happens
<1>2. ASSUME NEW branch \in Branches, Push(branch) PROVE TypeOK'
  <2>1. PICK s \in Chains(main) : /\ Announce(branch, main, s)
                                  /\ main' = IF branch = "main" THEN s[Len(s)] ELSE main
    BY <1>2 DEF Push
  <2>2. PushOf(branch, main, s) \in PushEvents /\ s[Len(s)] \in Revisions
    BY PushTypes, ChainTypes
  <2>3. pushes' \in Seq(PushEvents) /\ inbox' \subseteq DOMAIN pushes'
    BY <2>1, <2>2 DEF Announce
  <2>4. count' \in [Events -> Nat]
    BY <1>2, <1>h DEF Push, Events
  <2> QED BY <1>2, <2>1, <2>2, <2>3, <2>4 DEF Push
<1>3. ASSUME NEW h \in Handlers, NEW i \in inbox, NEW body \in Bodies, Deliver(h, i, body) PROVE TypeOK'
  <2>1. pushes[i] \in PushEvents
    OBVIOUS
  <2>2. handlers' \in [Handlers -> Requests]
    BY <1>3, <2>1, FreeType DEF Deliver, Receive, Requests, PushEvents, Stages, Bodies
  <2> QED BY <1>3, <2>2 DEF Deliver
<1>4. ASSUME NEW h \in Handlers, NEW d \in Defects, NEW p \in Paths, NEW m \in Manifests, NEW body \in Bodies,
             Forge(h, d, p, m, body)
      PROVE  TypeOK'
  <2> DEFINE t == [NoFiles EXCEPT ![p] = m]
  <2>1. t \in Revisions
    BY FreeType DEF Revisions
  <2>2. <<CommitOf(NoFiles, t)>> \in Seq(FileLists)
    BY CommitTypes
  <2>3. Receive(h, body, t, <<CommitOf(NoFiles, t)>>, {d})
    BY <1>4 DEF Forge
  <2> HIDE DEF t
  <2>4. handlers' \in [Handlers -> Requests]
    BY <2>1, <2>2, <2>3, FreeType DEF Receive, Requests, Stages, Bodies
  <2>5. count' \in [Events -> Nat]
    BY <1>4, <1>h DEF Forge, Events
  <2> QED BY <1>4, <2>4, <2>5 DEF Forge
<1>5. ASSUME NEW i \in DOMAIN pushes, Redeliver(i) \/ Lose(i) PROVE TypeOK'
  <2>1. count' \in [Events -> Nat]
    BY <1>5, <1>h DEF Redeliver, Lose, Events
  <2> QED BY <1>5, <2>1 DEF Redeliver, Lose
<1>6. CASE Restart
  <2>1. count' \in [Events -> Nat]
    BY <1>6, <1>h DEF Restart, Events
  <2> QED BY <1>6, <2>1, FreeType DEF Restart
<1>7. ASSUME NEW h \in Handlers, BodyCut(h) PROVE TypeOK'
  <2>1. count' \in [Events -> Nat]
    BY <1>7, <1>h DEF BodyCut, Events
  <2>2. [handlers[h] EXCEPT !.stage = "received", !.defects = handlers[h].defects \cup {"body"}] \in Requests
    <3>1. handlers[h] \in Requests
      OBVIOUS
    <3>2. handlers[h].defects \cup {"body"} \in SUBSET Defects
      BY <3>1 DEF Requests, Defects
    <3>3. "received" \in Stages
      BY DEF Stages
    <3> QED BY <3>1, <3>2, <3>3 DEF Requests
  <2>3. handlers' \in [Handlers -> Requests]
    BY <1>7, <2>2 DEF BodyCut
  <2> QED BY <1>7, <2>1, <2>3 DEF BodyCut
<1>8. CASE UNCHANGED vars
  BY <1>8 DEF vars
<1> QED BY <1>1, <1>2, <1>3, <1>4, <1>5, <1>6, <1>7, <1>8 DEF Next

\* Pushes are only ever added.
PushesKept == \A i \in DOMAIN pushes : i \in DOMAIN pushes' /\ pushes'[i] = pushes[i]

\* No step takes a push back or changes it.
LEMMA PushesGrow ==
  ASSUME TypeOK, RequestInv, [Next]_vars
  PROVE  PushesKept
<1>1. pushes \in Seq(PushEvents)
  BY DEF TypeOK
<1>2. ASSUME NEW branch \in Branches, Push(branch) PROVE PushesKept
  <2>1. PICK s \in Chains(main) : pushes' = Append(pushes, PushOf(branch, main, s))
    BY <1>2 DEF Push, Announce
  <2>2. PushOf(branch, main, s) \in PushEvents
    BY PushTypes
  <2> QED BY <1>1, <2>1, <2>2 DEF PushesKept
<1>3. ASSUME UNCHANGED pushes PROVE PushesKept
  BY <1>3 DEF PushesKept
<1>4. ASSUME NEW h \in Handlers, Serve(h) \/ Fault(h) \/ Cancel(h) \/ BodyArrives(h) PROVE PushesKept
  BY <1>3, <1>4, RequestSteps DEF RequestStep
<1> QED BY <1>2, <1>3, <1>4 DEF Next, Deliver, Forge, Redeliver, Lose, Restart, BodyCut, vars

\* A step leaves the requests alone that it does not change.
LEMMA SoundKept ==
  ASSUME NEW h \in Handlers, Sound(h), PushesKept, handlers'[h] = handlers[h]
  PROVE  Sound(h)'
<1>1. Applying(h)' = Applying(h) /\ Path(h)' = Path(h) /\ Target(h)' = Target(h)
  BY DEF Applying, Path, Target
<1> QED BY <1>1 DEF Sound, PushesKept

\* A free handler is sound.
LEMMA SoundFree ==
  ASSUME NEW h \in Handlers, handlers'[h] = Free
  PROVE  Sound(h)'
  BY DEF Sound, Free

\* The fields of a request in its loops, after Begin and after a result.
LEMMA BeginFields ==
  ASSUME TypeOK, NEW h \in Handlers, Begin(h)
  PROVE  /\ handlers'[h].stage = "loop"
         /\ handlers'[h].tree = handlers[h].tree
         /\ handlers'[h].defects = handlers[h].defects
         /\ handlers'[h].apply = AddedModified(handlers[h].commits)
         /\ handlers'[h].delete = Removed(handlers[h].commits)
<1>1. handlers[h] \in Requests
  BY DEF TypeOK
<1>2. handlers'[h] = [handlers[h] EXCEPT !.stage = "loop", !.live = TRUE,
                                         !.apply = AddedModified(handlers[h].commits),
                                         !.delete = Removed(handlers[h].commits)]
  BY DEF Begin, TypeOK
<1> QED BY <1>1, <1>2 DEF Requests

\* After a result the path it is about is off both lists.
LEMMA AdvancedFields ==
  ASSUME TypeOK, NEW h \in Handlers, Advanced(h)
  PROVE  /\ handlers'[h].stage = "loop"
         /\ handlers'[h].tree = handlers[h].tree
         /\ handlers'[h].defects = handlers[h].defects
         /\ handlers'[h].apply = handlers[h].apply \ {Path(h)}
         /\ handlers'[h].delete = handlers[h].delete \ {Path(h)}
<1>1. handlers[h] \in Requests
  BY DEF TypeOK
<1>2. handlers'[h] = [handlers[h] EXCEPT !.stage = "loop", !.raw = None,
                                         !.apply = handlers[h].apply \ {Path(h)},
                                         !.delete = handlers[h].delete \ {Path(h)}]
  BY DEF Advanced, TypeOK
<1> QED BY <1>1, <1>2 DEF Requests

\* Every step keeps RequestInv.
LEMMA RequestNext == TypeOK /\ RequestInv /\ [Next]_vars => RequestInv'
<1> SUFFICES ASSUME TypeOK, RequestInv, [Next]_vars, NEW q \in Handlers
             PROVE  Sound(q)'
  BY DEF RequestInv
<1>0. handlers \in [Handlers -> Requests] /\ Sound(q) /\ PushesKept
  BY PushesGrow DEF TypeOK, RequestInv
<1>k. handlers'[q] = handlers[q] => Sound(q)'
  BY <1>0, SoundKept
<1>1. ASSUME NEW h \in Handlers, RequestStep(h) PROVE Sound(q)'
  <2>1. UNCHANGED pushes
    BY <1>1 DEF RequestStep
  <2>2. CASE q # h
    <3>1. handlers'[q] = handlers[q]
      BY <1>0, <1>1, <2>2 DEF RequestStep, Reject, Begin, Respond, Advanced, Fetched, HungUp, BodyRead
    <3> QED BY <1>k, <3>1
  <2>3. CASE q = h
    <3>0. handlers[q] \in Requests
      BY <1>0
    <3>1. CASE Reject(h) \/ Respond(h)
      <4>1. handlers'[q] = Free
        BY <1>0, <2>3, <3>1 DEF Reject, Respond
      <4> QED BY <4>1, SoundFree
    <3>2. CASE Begin(h) \/ Advanced(h)
      <4>1. /\ handlers'[q].stage = "loop"
            /\ handlers'[q].tree = handlers[q].tree
            /\ handlers'[q].defects = handlers[q].defects
        BY <2>3, <3>2, BeginFields, AdvancedFields
      <4>2. handlers[q].stage # "free" /\ handlers[q].defects = {}
        BY <1>0, <2>3, <3>2 DEF Begin, Advanced, Refused, Sound
      <4> QED BY <1>0, <2>1, <4>1, <4>2 DEF Sound
    <3>3. CASE Fetched(h) \/ HungUp(h) \/ BodyRead(h)
      <4>1. /\ handlers'[q].tree = handlers[q].tree
            /\ handlers'[q].defects = handlers[q].defects
            /\ handlers'[q].apply = handlers[q].apply
            /\ handlers'[q].delete = handlers[q].delete
        BY <1>0, <2>3, <3>0, <3>3 DEF Fetched, HungUp, BodyRead, Requests
      <4>2. Applying(q)' = Applying(q) /\ Path(q)' = Path(q) /\ Target(q)' = Target(q)
        BY <4>1 DEF Applying, Path, Target
      <4>3. CASE Fetched(h)
        <5>1. handlers'[q].stage = "fetched" /\ handlers'[q].raw = handlers[q].tree[Path(q)]
          BY <1>0, <2>3, <3>0, <4>3 DEF Fetched, Requests
        <5>2. handlers[q].stage = "loop" /\ Applying(q) /\ Target(q) # NotParsed /\ handlers[q].tree[Path(q)] # None
          BY <2>3, <4>3 DEF Fetched, InLoop
        <5> QED BY <1>0, <2>1, <4>1, <4>2, <5>1, <5>2 DEF Sound
      <4>4. CASE HungUp(h)
        <5>1. handlers'[q].stage = handlers[q].stage /\ handlers'[q].raw = handlers[q].raw
          BY <1>0, <2>3, <3>0, <4>4 DEF HungUp, Requests
        <5> QED BY <1>0, <2>1, <4>1, <4>2, <5>1 DEF Sound
      <4>5. CASE BodyRead(h)
        <5>1. handlers'[q].stage = "received" /\ handlers[q].stage = "reading"
          BY <1>0, <2>3, <3>0, <4>5 DEF BodyRead, Requests
        <5> QED BY <1>0, <2>1, <4>1, <5>1 DEF Sound
      <4> QED BY <3>3, <4>3, <4>4, <4>5
    <3> QED BY <1>1, <3>1, <3>2, <3>3 DEF RequestStep
  <2> QED BY <2>2, <2>3
<1>2. ASSUME NEW h \in Handlers, NEW body \in Bodies, NEW t, NEW c, NEW d, Receive(h, body, t, c, d),
             d # {} \/ \E i \in DOMAIN pushes' : t = pushes'[i].tree
      PROVE  Sound(q)'
  <2>1. CASE q # h
    BY <1>0, <1>2, <1>k, <2>1 DEF Receive
  <2>2. CASE q = h
    <3>1. handlers'[q] = [Free EXCEPT !.stage = body, !.tree = t, !.commits = c, !.defects = d]
      BY <1>0, <1>2, <2>2 DEF Receive
    <3>2. handlers'[q].stage = body /\ handlers'[q].tree = t /\ handlers'[q].defects = d
      BY <3>1 DEF Free
    <3> QED BY <1>2, <3>2 DEF Sound, Bodies
  <2> QED BY <2>1, <2>2
<1>3. ASSUME NEW h \in Handlers, Serve(h) \/ Fault(h) \/ Cancel(h) \/ BodyArrives(h) PROVE Sound(q)'
  BY <1>1, <1>3, RequestSteps
<1>4. ASSUME NEW branch \in Branches, Push(branch) PROVE Sound(q)'
  BY <1>4, <1>k DEF Push
<1>5. ASSUME NEW h \in Handlers, NEW i \in inbox, NEW body \in Bodies, Deliver(h, i, body) PROVE Sound(q)'
  <2>1. i \in DOMAIN pushes /\ UNCHANGED pushes
    BY <1>5 DEF Deliver, TypeOK
  <2>2. Receive(h, body, pushes[i].tree, pushes[i].commits, {})
    BY <1>5 DEF Deliver
  <2> QED BY <1>2, <2>1, <2>2
<1>6. ASSUME NEW h \in Handlers, NEW d \in Defects, NEW p \in Paths, NEW m \in Manifests, NEW body \in Bodies,
             Forge(h, d, p, m, body)
      PROVE  Sound(q)'
  <2> DEFINE t == [NoFiles EXCEPT ![p] = m]
  <2>1. Receive(h, body, t, <<CommitOf(NoFiles, t)>>, {d})
    BY <1>6 DEF Forge
  <2> HIDE DEF t
  <2>2. {d} # {}
    OBVIOUS
  <2> QED BY <1>2, <2>1, <2>2
<1>7. ASSUME NEW i \in DOMAIN pushes, Redeliver(i) \/ Lose(i) PROVE Sound(q)'
  BY <1>7, <1>k DEF Redeliver, Lose
<1>8. CASE Restart
  BY <1>8, SoundFree DEF Restart
<1>9. ASSUME NEW h \in Handlers, BodyCut(h) PROVE Sound(q)'
  <2>1. CASE q # h
    BY <1>0, <1>9, <1>k, <2>1 DEF BodyCut
  <2>2. CASE q = h
    <3>1. handlers[q] \in Requests
      BY <1>0
    <3>2. handlers'[q].stage = "received" /\ handlers'[q].defects # {}
      BY <1>0, <1>9, <2>2, <3>1 DEF BodyCut, Requests
    <3> QED BY <3>2 DEF Sound
  <2> QED BY <2>1, <2>2
<1>10. CASE UNCHANGED vars
  BY <1>10, <1>k DEF vars
<1> QED BY <1>3, <1>4, <1>5, <1>6, <1>7, <1>8, <1>9, <1>10 DEF Next

\* All handlers are free at the start.
LEMMA RequestsInit == Init => TypeOK /\ RequestInv
<1> SUFFICES ASSUME Init PROVE TypeOK /\ RequestInv
  OBVIOUS
<1>1. TypeOK
  BY FreeType DEF Init, TypeOK
<1>2. RequestInv
  BY DEF Init, RequestInv, Sound, Free
<1> QED BY <1>1, <1>2

\* Trees, deliveries, requests and objects have their types, whatever happens.
THEOREM TypeCorrect == Spec => []TypeOK
<1>1. (TypeOK /\ RequestInv) /\ [Next]_vars => (TypeOK /\ RequestInv)'
  BY TypeNext, RequestNext
<1> QED BY <1>1, RequestsInit, PTL DEF Spec

-----------------------------------------------------------------------------
(* What the operator applies.                                              *)

\* The cluster has no object k, or that of a file of a push.
FromGit(k) ==
    cluster[k] # Absent =>
        \E i \in DOMAIN pushes, p \in Paths :
            /\ Parsed[p] = k
            /\ pushes[i].tree[p] # None
            /\ pushes[i].tree[p].id = k
            /\ cluster[k] \in AppliedFrom(pushes[i].tree[p])

\* Every step keeps AppliedFromGit: a patch sends the fetched file, at its own path.
LEMMA FromGitNext == TypeOK /\ RequestInv /\ AppliedFromGit /\ [Next]_vars => AppliedFromGit'
<1> SUFFICES ASSUME TypeOK, RequestInv, AppliedFromGit, [Next]_vars, NEW k \in Keys
             PROVE  FromGit(k)'
  BY DEF AppliedFromGit, FromGit
<1>0. FromGit(k) /\ PushesKept /\ cluster \in [Keys -> Applications \cup {Absent}]
  BY PushesGrow DEF AppliedFromGit, FromGit, TypeOK
<1>1. ASSUME cluster'[k] = cluster[k] PROVE FromGit(k)'
  BY <1>0, <1>1 DEF FromGit, PushesKept
<1>2. ASSUME NEW h \in Handlers, RequestStep(h) PROVE FromGit(k)'
  <2>1. CASE UNCHANGED cluster
    BY <1>1, <2>1
  <2>2. CASE Advanced(h) /\ Target(h) # NotParsed /\ Deleted(h)
    <3>1. cluster'[k] = cluster[k] \/ cluster'[k] = Absent
      BY <1>0, <2>2 DEF Deleted
    <3> QED BY <1>1, <3>1 DEF FromGit
  <2>3. CASE Advanced(h) /\ Target(h) # NotParsed /\ Applied(h)
    <3>1. CASE k # Target(h)
      BY <1>0, <1>1, <2>3, <3>1 DEF Applied
    <3>2. CASE k = Target(h)
      <4>1. Path(h) \in Paths /\ Parsed[Path(h)] = k
        BY <2>3, <3>2, PathType DEF Advanced, Target
      <4>2. cluster'[k] \in AppliedFrom(handlers[h].raw) /\ handlers[h].raw.id = k
        BY <1>0, <2>3, <3>2 DEF Applied
      <4>3. Sound(h)
        BY DEF RequestInv
      <4>4. PICK i \in DOMAIN pushes : handlers[h].tree = pushes[i].tree
        BY <2>3, <4>3 DEF Sound, Applied
      <4>5. handlers[h].raw = pushes[i].tree[Path(h)] /\ handlers[h].raw # None
        BY <2>3, <4>3, <4>4 DEF Sound, Applied
      <4>6. i \in DOMAIN pushes' /\ pushes'[i] = pushes[i]
        BY <1>0 DEF PushesKept
      <4> QED BY <4>1, <4>2, <4>5, <4>6 DEF FromGit
    <3> QED BY <3>1, <3>2
  <2> QED BY <1>2, <2>1, <2>2, <2>3 DEF RequestStep, Reject, Begin, Respond, Outcome
<1>3. ASSUME NEW h \in Handlers, Serve(h) \/ Fault(h) \/ Cancel(h) \/ BodyArrives(h) PROVE FromGit(k)'
  BY <1>2, <1>3, RequestSteps
<1> QED BY <1>1, <1>3 DEF Next, Push, Deliver, Forge, Redeliver, Lose, Restart, BodyCut, vars

\* Whatever is forged, delivered twice, overtaken, cancelled or cut off by a
\* restart, and however many requests run at once, every object the operator
\* wrote comes from a file of a signed push, under its own path and identity.
THEOREM OnlyGitIsApplied == Spec => []AppliedFromGit
<1>1. Init => AppliedFromGit
  BY DEF Init, AppliedFromGit
<1>2. (TypeOK /\ RequestInv /\ AppliedFromGit) /\ [Next]_vars => (TypeOK /\ RequestInv /\ AppliedFromGit)'
  BY TypeNext, RequestNext, FromGitNext
<1> QED BY <1>1, <1>2, RequestsInit, PTL DEF Spec
=============================================================================
