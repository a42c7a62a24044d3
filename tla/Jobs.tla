---------------------------------- MODULE Jobs ----------------------------------
(***************************************************************************)
(* The process-local registry of background jobs (packages/jobs/jobs-local) *)
(* with the listener of tool-jobs that tells the model of a completion.     *)
(* Registrations, settlements, waits and kills of several jobs meet the     *)
(* disposal of the agent that owns them and of the registry itself.         *)
(*                                                                         *)
(* An action is what runs between two awaits. Output rings and pull pumps   *)
(* are left out: a pump only delays the continuation that settles a job.    *)
(* Same-session replacement agents are distinct members of Agents.          *)
(***************************************************************************)
EXTENDS Naturals, Sequences, FiniteSets

CONSTANTS
  Agents,     \* agents that may own jobs
  Shared,     \* the bucket of jobs without an owner
  Limit,      \* maxConcurrentJobsPerOwner
  MaxJobs,    \* bound: jobs ever started
  MaxWaits    \* bound: simultaneous waits on one job

ASSUME JobsConstants ==
  /\ Shared \notin Agents
  /\ Limit \in Nat \ {0}
  /\ MaxJobs \in Nat
  /\ MaxWaits \in Nat

VARIABLES
  job,          \* the jobs started so far, in order
  store,        \* those the registry still lists
  cleanups,     \* ownerCleanups: agents with a cleanup attached
  agent,        \* life of each agent and of its scope
  awaitedBy,    \* the jobs each agent's disposeOwned() awaits
  service,      \* life of the registry
  modelKilled   \* killedByModel of tool-jobs

vars == <<job, store, cleanups, agent, awaitedBy, service, modelKilled>>

Terminal == {"completed", "killed", "failed"}
Active == {"running", "stopping"}

Job == [owner   : Agents \cup {Shared},
        status  : Active \cup Terminal,
        cause   : {"none", "producer", "kill", "teardown"},
        done    : {"pending", "completed", "killed", "reported"},  \* the producer's promise
        waiters : 0..MaxWaits,
        told    : SUBSET {"wait", "kill", "notice"}]      \* how its end reached the model

Ids == DOMAIN job
IsTerminal(j) == job[j].status \in Terminal
OwnedBy(o) == {j \in store : job[j].owner = o}
ActiveJobs(o) == {j \in OwnedBy(o) : job[j].status \in Active}

TypeOK ==
  /\ job \in Seq(Job) /\ Len(job) <= MaxJobs
  /\ store \subseteq Ids
  /\ cleanups \subseteq Agents
  /\ agent \in [Agents -> {"live", "unloading", "closing", "gone"}]
  /\ awaitedBy \in [Agents -> SUBSET Ids]
  /\ service \in {"up", "closing", "down"}
  /\ modelKilled \subseteq Ids

Init ==
  /\ job = <<>>
  /\ store = {}
  /\ cleanups = {}
  /\ agent = [a \in Agents |-> "live"]
  /\ awaitedBy = [a \in Agents |-> {}]
  /\ service = "up"
  /\ modelKilled = {}

-----------------------------------------------------------------------------
(* Settlement *)

\* The notice that the listener of `settled` queues for the owner's model.
\* The agent stays registered until its scope is disposed.
NoticeDue(j, cause) ==
  /\ job[j].waiters = 0
  /\ j \notin modelKilled
  /\ cause # "teardown"
  /\ job[j].owner \in Agents
  /\ agent[job[j].owner] # "gone"

\* Mutated form of Settled: the event goes out before the waiters are counted.
SettledUncounted(j, status, cause) ==
  [job[j] EXCEPT !.status = status,
                 !.cause = cause,
                 !.waiters = 0,
                 !.told = {t \in {"wait", "kill", "notice"} :
                             \/ t = "wait" /\ job[j].waiters > 0
                             \/ t = "kill" /\ j \in modelKilled
                             \/ /\ t = "notice" /\ j \notin modelKilled /\ cause # "teardown"
                                /\ job[j].owner \in Agents /\ agent[job[j].owner] # "gone"}]

\* settle(): the terminal record; waiters are released before the event is
\* emitted, which says whether there were any.
Settled(j, status, cause) ==
  [job[j] EXCEPT !.status = status,
                 !.cause = cause,
                 !.waiters = 0,
                 !.told = (IF job[j].waiters > 0 THEN {"wait"} ELSE {})
                            \cup (IF j \in modelKilled THEN {"kill"} ELSE {})
                            \cup (IF NoticeDue(j, cause) THEN {"notice"} ELSE {})]

\* Mutated form of CancelForTeardown: a cancel that throws is only logged.
CancelUnforced(jobs, throws) ==
  /\ job' = [j \in Ids |->
       IF j \notin jobs \ throws \/ IsTerminal(j) THEN job[j]
       ELSE [job[j] EXCEPT !.status = "stopping", !.cause = "teardown"]]
  /\ UNCHANGED modelKilled

\* cancelForTeardown(): jobs that live are cancelled; a cancel that throws
\* forces the record to fail.
CancelForTeardown(jobs, throws) ==
  /\ job' = [j \in Ids |->
       IF j \notin jobs \/ IsTerminal(j) THEN job[j]
       ELSE IF j \in throws THEN Settled(j, "failed", "teardown")
       ELSE [job[j] EXCEPT !.status = "stopping", !.cause = "teardown"]]
  /\ modelKilled' = modelKilled \ {j \in jobs \cap throws : ~IsTerminal(j)}

-----------------------------------------------------------------------------
(* Calls *)

\* Mutated form of Serves: any registered agent will do.
ServesAnyone(o) ==
  /\ service = "up"
  /\ o \in Agents => agent[o] # "gone"

\* ensureOwnerCleanup(): attached already, or accepted by a scope that is not
\* being disposed. resolveOwner() asks for a registered agent.
Serves(o) ==
  /\ service = "up"
  /\ o \in Agents => agent[o] # "gone" /\ (o \in cleanups \/ agent[o] = "live")

AttachCleanup(o) == cleanups' = cleanups \cup ({o} \cap Agents)

\* start(): the limit is looked at before the starter runs; starters start no
\* jobs themselves.
Start(o) ==
  /\ Serves(o)
  /\ Len(job) < MaxJobs
  /\ Cardinality(ActiveJobs(o)) < Limit
  /\ AttachCleanup(o)
  /\ job' = Append(job, [owner |-> o, status |-> "running", cause |-> "none",
                         done |-> "pending", waiters |-> 0, told |-> {}])
  /\ store' = store \cup {Len(job) + 1}
  /\ UNCHANGED <<agent, awaitedBy, service, modelKilled>>

\* start() when the limit is reached or the starter throws: only the cleanup stays.
StartFails(o) ==
  /\ Serves(o)
  /\ AttachCleanup(o)
  /\ UNCHANGED <<job, store, agent, awaitedBy, service, modelKilled>>

\* kill(): the latest cause wins. A cancel that throws changes nothing. The
\* model kills by job_kill while its turn runs, which it then counts as told;
\* a user or an archive kills at any time.
Kill(j, byModel) ==
  /\ service = "up" /\ j \in store /\ ~IsTerminal(j)
  /\ byModel /\ job[j].owner \in Agents => agent[job[j].owner] = "live"
  /\ job' = [job EXCEPT ![j].status = "stopping", ![j].cause = "kill"]
  /\ modelKilled' = IF byModel THEN modelKilled \cup {j} ELSE modelKilled
  /\ UNCHANGED <<store, cleanups, agent, awaitedBy, service>>

\* wait() on a job that is not settled; a tool call of a running turn makes it.
Wait(j) ==
  /\ service = "up" /\ j \in store /\ ~IsTerminal(j)
  /\ job[j].owner \in Agents => agent[job[j].owner] = "live"
  /\ job[j].waiters < MaxWaits
  /\ job' = [job EXCEPT ![j].waiters = @ + 1]
  /\ UNCHANGED <<store, cleanups, agent, awaitedBy, service, modelKilled>>

\* The timeout or the abort of a wait leaves the set before it returns.
WaitEnds(j) ==
  /\ job[j].waiters > 0
  /\ job' = [job EXCEPT ![j].waiters = @ - 1]
  /\ UNCHANGED <<store, cleanups, agent, awaitedBy, service, modelKilled>>

\* drop(): the records leave the store; tool-jobs forgets them.
Drop(jobs) ==
  /\ store' = store \ jobs
  /\ modelKilled' = modelKilled \ jobs

\* remove() of a settled job.
Remove(j) ==
  /\ service = "up" /\ j \in store /\ IsTerminal(j)
  /\ Drop({j})
  /\ UNCHANGED <<job, cleanups, agent, awaitedBy, service>>

-----------------------------------------------------------------------------
(* Producers *)

\* The producer's promise settles, as killed if it was cancelled or else by its
\* own end, which stands for a failure and a rejection too.
ProducerEnds(j) ==
  /\ job[j].done = "pending"
  /\ \E outcome \in {"completed", "killed"} :
       /\ outcome = "killed" => job[j].status = "stopping"
       /\ job' = [job EXCEPT ![j].done = outcome]
  /\ UNCHANGED <<store, cleanups, agent, awaitedBy, service, modelKilled>>

\* Mutated form of Report: the latest settlement stands.
ReportAgain(j) ==
  /\ job[j].done \in {"completed", "killed"}
  /\ job' = [job EXCEPT ![j] = [Settled(j, job[j].done, job[j].cause) EXCEPT !.done = "reported"]]
  /\ modelKilled' = modelKilled \ {j}
  /\ UNCHANGED <<store, cleanups, agent, awaitedBy, service>>

\* Its continuation, behind the final drain of the pump: the first settlement stands.
Report(j) ==
  /\ job[j].done \in {"completed", "killed"}
  /\ LET kept == IF IsTerminal(j) THEN job[j]
                 ELSE Settled(j, job[j].done, IF job[j].cause = "none" THEN "producer"
                                              ELSE job[j].cause)
     IN job' = [job EXCEPT ![j] = [kept EXCEPT !.done = "reported"]]
  /\ modelKilled' = modelKilled \ {j}
  /\ UNCHANGED <<store, cleanups, agent, awaitedBy, service>>

-----------------------------------------------------------------------------
(* Disposal *)

\* The agent's loop is idle, so no tool call of it waits, and its scope starts
\* to unload: it refuses new effects one microtask before its disposers run.
Unload(a) ==
  /\ agent[a] = "live"
  /\ \A j \in OwnedBy(a) : job[j].waiters = 0
  /\ agent' = [agent EXCEPT ![a] = "unloading"]
  /\ UNCHANGED <<job, store, cleanups, awaitedBy, service, modelKilled>>

\* The attached cleanup: disposeOwned() up to its await.
DisposeOwned(a) ==
  /\ agent[a] = "unloading" /\ a \in cleanups
  /\ cleanups' = cleanups \ {a}
  /\ awaitedBy' = [awaitedBy EXCEPT ![a] = OwnedBy(a)]
  /\ \E throws \in SUBSET OwnedBy(a) : CancelForTeardown(OwnedBy(a), throws)
  /\ agent' = [agent EXCEPT ![a] = "closing"]
  /\ UNCHANGED <<store, service>>

\* disposeOwned() behind its await; the agent is detached.
OwnedSettled(a) ==
  /\ agent[a] = "closing"
  /\ \A j \in awaitedBy[a] : IsTerminal(j)
  /\ Drop(awaitedBy[a])
  /\ agent' = [agent EXCEPT ![a] = "gone"]
  /\ awaitedBy' = [awaitedBy EXCEPT ![a] = {}]
  /\ UNCHANGED <<job, cleanups, service>>

\* A scope without a cleanup of the registry.
NothingOwned(a) ==
  /\ agent[a] = "unloading" /\ a \notin cleanups
  /\ agent' = [agent EXCEPT ![a] = "gone"]
  /\ UNCHANGED <<job, store, cleanups, awaitedBy, service, modelKilled>>

\* disposeAll() up to its await; ctx.jobs is unavailable from here on, so
\* nothing is started behind the snapshot.
DisposeAll ==
  /\ service = "up"
  /\ service' = "closing"
  /\ \E throws \in SUBSET store : CancelForTeardown(store, throws)
  /\ UNCHANGED <<store, cleanups, agent, awaitedBy>>

\* Behind it: everything is dropped and the cleanups, which find no job, are detached.
AllSettled ==
  /\ service = "closing"
  /\ \A j \in store : IsTerminal(j)
  /\ Drop(store)
  /\ cleanups' = {}
  /\ service' = "down"
  /\ UNCHANGED <<job, agent, awaitedBy>>

Next ==
  \/ \E o \in Agents \cup {Shared} : Start(o) \/ StartFails(o)
  \/ \E j \in Ids : \/ \E byModel \in BOOLEAN : Kill(j, byModel)
                    \/ Wait(j) \/ WaitEnds(j) \/ Remove(j)
                    \/ ProducerEnds(j) \/ Report(j)
  \/ \E a \in Agents : Unload(a) \/ DisposeOwned(a) \/ OwnedSettled(a) \/ NothingOwned(a)
  \/ DisposeAll
  \/ AllSettled

Spec == Init /\ [][Next]_vars

\* Continuations run, and a producer whose job was cancelled ends. Nothing
\* makes callers act, other producers end, or waits time out.
CancelledEnds(j) == j \in Ids /\ job[j].status = "stopping" /\ ProducerEnds(j)
Fairness ==
  /\ \A j \in 1..MaxJobs : WF_vars(CancelledEnds(j)) /\ WF_vars(j \in Ids /\ Report(j))
  /\ \A a \in Agents : WF_vars(DisposeOwned(a) \/ OwnedSettled(a) \/ NothingOwned(a))
  /\ WF_vars(AllSettled)
FairSpec == Spec /\ Fairness

-----------------------------------------------------------------------------
(* Properties *)

\* The limit holds for each owner and for the shared bucket, stopping jobs included.
WithinLimit == \A o \in Agents \cup {Shared} : Cardinality(ActiveJobs(o)) <= Limit

\* Nobody waits for a settled job, and no entry of killedByModel stays behind.
NobodyWaitsOnSettled ==
  \A j \in Ids : IsTerminal(j) => job[j].waiters = 0 /\ j \notin modelKilled

\* No job is listed when its owner, or the registry, is gone: none was started
\* behind the snapshot that a disposal awaited.
NothingOutlivesOwner ==
  /\ \A a \in Agents : agent[a] = "gone" => OwnedBy(a) = {}
  /\ service = "down" => store = {}

\* The registry's bookkeeping under interleaved calls and disposals.
RegistryInv == TypeOK /\ WithinLimit /\ NobodyWaitsOnSettled /\ NothingOutlivesOwner

\* The end of an owned job that no teardown caused reaches the model: as the
\* result of a wait, of its own kill, or else, and only then, as one notice.
CompletionTold ==
  \A j \in Ids : IsTerminal(j) /\ job[j].owner \in Agents =>
    /\ job[j].cause # "teardown" => job[j].told # {}
    /\ "notice" \in job[j].told => job[j].told = {"notice"} /\ job[j].cause # "teardown"

\* The first settlement stands, whatever the producer reports after it, and a
\* record that left the store does not come back.
FirstSettlementStands ==
  [][/\ \A j \in Ids : IsTerminal(j) => /\ job'[j].status = job[j].status
                                        /\ job'[j].cause = job[j].cause
                                        /\ job'[j].told = job[j].told
     /\ Ids \cap store' \subseteq store]_vars

\* Disposal of an agent and of the registry ends if cancelled producers end:
\* what cannot be cancelled is forced to fail.
TeardownCompletes ==
  /\ \A a \in Agents : agent[a] # "live" ~> agent[a] = "gone"
  /\ service = "closing" ~> service = "down"

\* jobs/src/index.ts:54-58: settlements of jobs that owner disposal cancels
\* announce `teardown`, since no reader is left.
TeardownAnnounced ==
  [][\A a \in Agents : agent[a] = "closing" =>
       \A j \in awaitedBy[a] : ~IsTerminal(j) /\ job'[j].status \in Terminal
                                => job'[j].cause = "teardown"]_vars
=============================================================================
