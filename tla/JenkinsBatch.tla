---------------------------- MODULE JenkinsBatch ----------------------------
(***************************************************************************)
(* One POST of builds to cloudops-cicd and what Jenkins makes of it: the   *)
(* handler takes the items one after the other, finds the job of each,     *)
(* reads its parameters and saves a record, and starts a goroutine that    *)
(* triggers the build (BuildTracking follows it from there).  All of them  *)
(* share one client with one CSRF crumb, fetched before its first call and *)
(* never again; Jenkins asks for it in every POST and forgets it when it   *)
(* restarts.  In a dry run every item has a client of its own and nothing  *)
(* is saved or started.  Any call may fail.                                *)
(*                                                                         *)
(* A name is a sequence of words: a service inside of a word of a job's    *)
(* name, and upper case, are not modelled.  The jobs of a tree do not      *)
(* change: a job deleted between two calls is a call that fails.           *)
(***************************************************************************)
EXTENDS Naturals, Sequences, FiniteSets, SequencesExt

CONSTANTS
  Trees,       \* what Jenkins may hold: sequences of folders
  Batches,     \* the items asked for: sequences of a service and a branch
  None,        \* no job, no parameter, no crumb
  MaxRestarts  \* bound: restarts of Jenkins

\* listJobsRecursive.
ListJobs(folders) == FlattenSeq(folders)

\* A job has its own URL, so the list of them has each once.
ASSUME BatchAssumption ==
  /\ \A t \in Trees :
       /\ ListJobs(t) \in Seq([url : STRING, name : Seq(STRING) \ {<<>>}, params : Seq(STRING)])
       /\ IsInjective(ListJobs(t))
  /\ \A b \in Batches : b \in Seq([service : Seq(STRING) \ {<<>>}, branch : STRING])
  /\ None \notin Nat \cup {"branch", "gitbranch", "buildbranch", "git_branch", "source_branch"}
  /\ MaxRestarts \in Nat

VARIABLES
  tree,     \* the folders of Jenkins, each a sequence of jobs
  issuer,   \* Jenkins issues, and asks for, crumbs
  epoch,    \* restarts of Jenkins: its crumbs are those of this epoch
  builds,   \* the builds started for the batch, in order
  batch,    \* the items
  dry,      \* dry_run
  next,     \* the handler's item; Len(batch) + 1 when it has answered
  place,    \* what it does for it
  checked,  \* crumbChecked of the client
  crumb,    \* crumbValue of the client
  state,    \* item -> what has become of it
  job,      \* item -> match.Job
  param,    \* item -> match.BranchParam
  hurt,     \* history: items with a failed call of their own
  poisoned  \* history: the client's fetch of the crumb failed

jenkins == <<tree, issuer, epoch>>
request == <<batch, dry>>
handler == <<next, place>>
client == <<checked, crumb, poisoned>>
items == <<state, job, param, hurt>>
vars == <<jenkins, builds, request, handler, client, items>>

Item == 1 .. Len(batch)

Init ==
  /\ tree \in Trees
  /\ issuer \in BOOLEAN
  /\ epoch = 0
  /\ builds = <<>>
  /\ batch \in Batches
  /\ dry \in BOOLEAN
  /\ next = 1
  /\ place = "list"
  /\ checked = FALSE
  /\ crumb = None
  /\ state = [i \in Item |-> "new"]
  /\ job = [i \in Item |-> None]
  /\ param = [i \in Item |-> None]
  /\ hurt = {}
  /\ poisoned = FALSE

----------------------------------------------------------------------------
(***************************************************************************)
(* Finding the job of a service.                                           *)
(***************************************************************************)
\* strings.Contains(name, service).
Within(service, name) ==
  \E i \in 1 .. Len(name) : IsPrefix(service, SubSeq(name, i, Len(name)))

Kaniko == <<"kaniko">>
Preferred(service) ==
  <<<<"test">> \o service \o Kaniko, service \o Kaniko, <<"test">> \o service, service>>

Named(name, jobs) == {i \in DOMAIN jobs : jobs[i].name = name}
Like(service, jobs) == {i \in DOMAIN jobs : Within(service, jobs[i].name)}

\* The only one of a set of indices, if it is one.
Only(indices, jobs) ==
  IF Cardinality(indices) = 1 THEN {jobs[i] : i \in indices} ELSE {}

\* Mutant: the first job that contains the service.
MatchFirst(service, jobs) ==
  IF Like(service, jobs) = {} THEN {} ELSE {jobs[Min(Like(service, jobs))]}

\* matchJenkinsJob, as a set of at most one job.  Of several jobs with one
\* name byName keeps the last.
Match(service, jobs) ==
  LET own == {p \in DOMAIN Preferred(service) : Named(Preferred(service)[p], jobs) # {}}
      like == Like(service, jobs)
      kaniko == {i \in like : IsSuffix(Kaniko, jobs[i].name)}
  IN IF own # {}
     THEN {jobs[Max(Named(Preferred(service)[Min(own)], jobs))]}
     ELSE IF Cardinality(like) > 1 THEN Only(kaniko, jobs) ELSE Only(like, jobs)

\* The names that say branch: those resolveBranchParam asks for first, in
\* order, and any other with "branch" in it.
Priority == <<"branch", "gitbranch", "buildbranch", "git_branch">>
BranchNames == ToSet(Priority) \cup {"source_branch"}

\* resolveBranchParam.
BranchParam(names) ==
  LET known == {p \in DOMAIN Priority : Priority[p] \in ToSet(names)}
      other == {i \in DOMAIN names : names[i] \in BranchNames}
  IN IF known # {} THEN Priority[Min(known)]
     ELSE IF other # {} THEN names[Min(other)] ELSE None

----------------------------------------------------------------------------
(***************************************************************************)
(* The handler: triggerBuildsHandler and, in a dry run, matchAll.          *)
(***************************************************************************)
\* A dry run makes a client for each item.
NextItem ==
  /\ next' = next + 1
  /\ place' = "list"
  /\ IF dry THEN checked' = FALSE /\ crumb' = None /\ poisoned' = FALSE
            ELSE UNCHANGED client

\* Mutant: the first failure ends the batch.
RefuseAll ==
  /\ state' = [state EXCEPT ![next] = "refused"]
  /\ next' = Len(batch) + 1
  /\ place' = "list"
  /\ UNCHANGED <<client, job, param>>

\* The item goes to "failures" and the handler takes the next one.
Refuse ==
  /\ state' = [state EXCEPT ![next] = "refused"]
  /\ NextItem
  /\ UNCHANGED <<job, param>>

\* The same after a failed call.
RefuseHurt == Refuse /\ hurt' = hurt \cup {next}

At(there) == next \in Item /\ place = there

\* ensureCrumb: before the first call of the client.  It counts as checked
\* even when the fetch fails, and that call with it.
FetchCrumb ==
  /\ At("list") /\ ~checked
  /\ \/ /\ checked' = TRUE
        /\ crumb' = IF issuer THEN epoch ELSE None
        /\ UNCHANGED <<handler, poisoned, items>>
     \/ /\ state' = [state EXCEPT ![next] = "refused"]
        /\ hurt' = hurt \cup {next}
        /\ next' = next + 1 /\ place' = "list"
        /\ checked' = ~dry /\ poisoned' = ~dry
        /\ UNCHANGED <<crumb, job, param>>
  /\ UNCHANGED <<jenkins, builds, request>>

FindJob ==
  /\ At("list") /\ checked
  /\ LET found == Match(batch[next].service, ListJobs(tree)) IN
       \/ RefuseHurt
       \/ found = {} /\ Refuse /\ UNCHANGED hurt
       \/ /\ \E j \in found : job' = [job EXCEPT ![next] = j]
          /\ place' = "params"
          /\ UNCHANGED <<next, client, state, param, hurt>>
  /\ UNCHANGED <<jenkins, builds, request>>

\* ParameterNames, and the end of a dry run's item.
ReadParams ==
  /\ At("params")
  /\ \/ RefuseHurt
     \/ /\ param' = [param EXCEPT ![next] = BranchParam(job[next].params)]
        /\ IF dry
           THEN NextItem /\ state' = [state EXCEPT ![next] = "matched"]
           ELSE place' = "save" /\ UNCHANGED <<next, client, state>>
        /\ UNCHANGED <<job, hurt>>
  /\ UNCHANGED <<jenkins, builds, request>>

\* The record is saved and the goroutine started.
SaveRecord ==
  /\ At("save")
  /\ \/ RefuseHurt
     \/ /\ state' = [state EXCEPT ![next] = "accepted"]
        /\ NextItem
        /\ UNCHANGED <<job, param, hurt>>
  /\ UNCHANGED <<jenkins, builds, request>>

----------------------------------------------------------------------------
(***************************************************************************)
(* A goroutine: TriggerBuild.                                              *)
(***************************************************************************)
\* Mutant: the header is not set.
NoHeader == ~issuer

\* Jenkins accepts a POST.
Authorized == issuer => crumb = epoch

\* With a parameter it is buildWithParameters, else build and its defaults.
Build(i) ==
  [item |-> i, job |-> job[i], param |-> param[i],
   branch |-> IF param[i] = None THEN None ELSE batch[i].branch]

Start(i) == builds' = Append(builds, Build(i))

End(i, result) ==
  /\ state' = [state EXCEPT ![i] = result]
  /\ UNCHANGED <<jenkins, request, handler, client, job, param>>

\* Mutant: a POST without answer is sent again.
TriggerAgain(i) ==
  /\ i \in Item /\ state[i] = "accepted"
  /\ Authorized /\ Start(i)
  /\ \/ End(i, "started") /\ UNCHANGED hurt
     \/ End(i, "accepted") /\ hurt' = hurt \cup {i}

\* The POST does not arrive, or its answer is lost.
TriggerLost(i) ==
  /\ i \in Item /\ state[i] = "accepted"
  /\ \/ Authorized /\ Start(i)
     \/ UNCHANGED builds
  /\ End(i, "failed")
  /\ hurt' = hurt \cup {i}

Trigger(i) ==
  /\ i \in Item /\ state[i] = "accepted"
  /\ IF Authorized THEN Start(i) /\ End(i, "started")
                   ELSE End(i, "failed") /\ UNCHANGED builds
  /\ UNCHANGED hurt

Restart ==
  /\ epoch < MaxRestarts /\ epoch' = epoch + 1
  /\ UNCHANGED <<tree, issuer, builds, request, handler, client, items>>

Next ==
  \/ FetchCrumb \/ FindJob \/ ReadParams \/ SaveRecord
  \/ \E i \in Item : Trigger(i) \/ TriggerLost(i)
  \/ Restart

Spec == Init /\ [][Next]_vars

----------------------------------------------------------------------------
(***************************************************************************)
(* Properties.                                                             *)
(***************************************************************************)
\* j is the job of a service: one with the best of its own names, or, when
\* none has one, the only job that contains the service, or the only one of
\* those that is built with kaniko.
JobOf(service, j) ==
  LET jobs == ToSet(ListJobs(tree))
      names == Preferred(service)
      own == {k \in jobs : k.name \in ToSet(names)}
      like == {k \in jobs : Within(service, k.name)}
  IN /\ j \in like
     /\ IF own # {}
        THEN \E p \in DOMAIN names :
               /\ j.name = names[p]
               /\ \A k \in own : k.name \notin {names[q] : q \in 1 .. p - 1}
        ELSE like = {j} \/ {k \in like : Last(k.name) = "kaniko"} = {j}

\* However calls fail and answers are lost, an item has at most one build, a
\* refused item and a dry run have none, and a build is of the job of its
\* item's service and gets the item's branch if its job takes one.
BuildsAsAsked ==
  /\ dry => builds = <<>>
  /\ \A m, n \in DOMAIN builds : builds[m].item = builds[n].item => m = n
  /\ \A n \in DOMAIN builds :
       LET b == builds[n] IN
         /\ state[b.item] \in {"started", "failed"}
         /\ JobOf(batch[b.item].service, b.job)
         /\ ToSet(b.job.params) \cap BranchNames # {} =>
              b.param \in ToSet(b.job.params) \cap BranchNames
              /\ b.branch = batch[b.item].branch

\* The answer accounts for every item, whichever of them failed: each is in
\* "failures" or has a record (or, in a dry run, a match).
ItemsAccounted ==
  next > Len(batch) =>
    \A i \in Item : state[i] = "refused" \/ (IF dry THEN state[i] = "matched"
                                                     ELSE state[i] # "new")

\* The items of a batch fail on their own: an item is refused only for its own
\* calls or for want of one job, and its trigger fails only for its own POST,
\* for the shared crumb that was never fetched, or for a restart of Jenkins.
FailuresHaveCauses ==
  \A i \in Item \ hurt :
    /\ state[i] = "refused" => ~\E j \in ToSet(ListJobs(tree)) : JobOf(batch[i].service, j)
    /\ state[i] = "failed" => poisoned \/ epoch > 0
=============================================================================
