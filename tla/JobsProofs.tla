----------------------------- MODULE JobsProofs -----------------------------
(***************************************************************************)
(* Proofs about Jobs, for any agents, limit and number of jobs and waits.  *)
(*                                                                         *)
(* A disposal is sound because what it awaits is all there will ever be:   *)
(* while an owner closes nothing of it is started, and until then its      *)
(* cleanup is attached as soon as it owns anything (Snapshots). The end of *)
(* a job is told because an owner is gone only when all it owned has       *)
(* ended, and a job leaves the registry only after its end (Listed).       *)
(***************************************************************************)
EXTENDS Jobs, SequenceTheorems, FiniteSetTheorems, TLAPS

\* What a disposal awaits covers what the agent owns.
Snapshots ==
  \A a \in Agents :
    /\ agent[a] \in {"closing", "gone"} => a \notin cleanups
    /\ agent[a] = "closing" => OwnedBy(a) \subseteq awaitedBy[a]
    /\ agent[a] \in {"live", "unloading"} /\ OwnedBy(a) # {} => a \in cleanups

\* A job leaves the registry only when it is over.
Listed == \A j \in Ids : ~IsTerminal(j) => j \in store

IInv == RegistryInv /\ CompletionTold /\ Snapshots /\ Listed

\* How the end of one job reached the model.
Told(j) ==
  job[j].owner \in Agents =>
    /\ job[j].cause # "teardown" => job[j].told # {}
    /\ "notice" \in job[j].told => job[j].told = {"notice"} /\ job[j].cause # "teardown"

(***************************************************************************)
(* What every action but a successful start() does to the records.         *)
(***************************************************************************)
Progresses(j) ==
  /\ job'[j].owner = job[j].owner
  /\ IsTerminal(j) => /\ job'[j].status = job[j].status /\ job'[j].cause = job[j].cause
                      /\ job'[j].told = job[j].told /\ job'[j].waiters = job[j].waiters
                      /\ j \in modelKilled' => j \in modelKilled
  /\ ~IsTerminal(j) /\ IsTerminal(j)' =>
       job'[j].waiters = 0 /\ j \notin modelKilled' /\ Told(j)'

Carries ==
  /\ job' \in Seq(Job) /\ Len(job') = Len(job)
  /\ \A j \in Ids : Progresses(j)
  /\ store' \subseteq store /\ \A j \in store \ store' : IsTerminal(j)
  /\ modelKilled' \subseteq Ids

-----------------------------------------------------------------------------
(***************************************************************************)
(* The records.                                                            *)
(***************************************************************************)
LEMMA JobTypes ==
  ASSUME TypeOK
  PROVE  /\ Len(job) \in Nat /\ Ids = 1 .. Len(job)
         /\ \A j \in Ids : job[j] \in Job
BY LenProperties, ElementOfSeq DEF TypeOK, Ids

\* Records replaced one by one are again the registry's records.
LEMMA Rewritten ==
  ASSUME TypeOK, NEW f \in [Ids -> Job]
  PROVE  f \in Seq(Job) /\ Len(f) = Len(job)
<1>1. f \in [1 .. Len(job) -> Job] /\ Len(job) \in Nat  BY JobTypes
<1>2. f \in Seq(Job)  BY <1>1, SeqDef
<1>3. DOMAIN f = 1 .. Len(job) /\ DOMAIN f = 1 .. Len(f) /\ Len(f) \in Nat
  BY <1>1, <1>2, LenProperties
<1>4. Len(f) = Len(job)  BY <1>1, <1>3
<1> QED  BY <1>2, <1>4

LEMMA Replaced ==
  ASSUME TypeOK, NEW j \in Ids, NEW r \in Job
  PROVE  /\ [job EXCEPT ![j] = r] \in Seq(Job)
         /\ Len([job EXCEPT ![j] = r]) = Len(job)
         /\ [job EXCEPT ![j] = r][j] = r
         /\ \A k \in Ids \ {j} : [job EXCEPT ![j] = r][k] = job[k]
BY JobTypes, ExceptSeq DEF TypeOK

LEMMA SettledType ==
  ASSUME TypeOK, NEW j \in Ids, NEW status \in Terminal,
         NEW cause \in {"producer", "kill", "teardown"}
  PROVE  /\ Settled(j, status, cause) \in Job
         /\ Settled(j, status, cause).status = status
         /\ Settled(j, status, cause).cause = cause
         /\ Settled(j, status, cause).owner = job[j].owner
         /\ Settled(j, status, cause).done = job[j].done
         /\ Settled(j, status, cause).waiters = 0
         /\ Settled(j, status, cause).told =
              (IF job[j].waiters > 0 THEN {"wait"} ELSE {})
                \cup (IF j \in modelKilled THEN {"kill"} ELSE {})
                \cup (IF NoticeDue(j, cause) THEN {"notice"} ELSE {})
<1> DEFINE told == (IF job[j].waiters > 0 THEN {"wait"} ELSE {})
                     \cup (IF j \in modelKilled THEN {"kill"} ELSE {})
                     \cup (IF NoticeDue(j, cause) THEN {"notice"} ELSE {})
<1>1. job[j] \in Job  BY JobTypes
<1>2. told \in SUBSET {"wait", "kill", "notice"}  OBVIOUS
<1>3. 0 \in 0 .. MaxWaits  BY JobsConstants
<1>4. Settled(j, status, cause) =
        [job[j] EXCEPT !.status = status, !.cause = cause, !.waiters = 0, !.told = told]
  BY DEF Settled
<1> HIDE DEF told
<1>5. Settled(j, status, cause) =
        [owner |-> job[j].owner, status |-> status, cause |-> cause,
         done |-> job[j].done, waiters |-> 0, told |-> told]
  BY <1>1, <1>4 DEF Job
<1>6. /\ job[j].owner \in Agents \cup {Shared}
      /\ job[j].done \in {"pending", "completed", "killed", "reported"}
  BY <1>1 DEF Job
<1>7. Settled(j, status, cause) \in Job
  BY <1>2, <1>3, <1>5, <1>6 DEF Job
<1> QED  BY <1>5, <1>7 DEF told

\* A settlement tells the model, if the owner of a live job is still there.
LEMMA SettledTold ==
  ASSUME IInv, NEW j \in Ids, ~IsTerminal(j), NEW status \in Terminal,
         NEW cause \in {"producer", "kill", "teardown"}
  PROVE  LET r == Settled(j, status, cause) IN
         r.owner \in Agents =>
           /\ r.cause # "teardown" => r.told # {}
           /\ "notice" \in r.told => r.told = {"notice"} /\ r.cause # "teardown"
<1>1. TypeOK /\ job[j] \in Job  BY JobTypes DEF IInv, RegistryInv
<1>2. job[j].waiters \in Nat  BY <1>1, JobsConstants DEF Job
<1>3. job[j].owner \in Agents => agent[job[j].owner] # "gone"
  <2>1. j \in store  BY DEF IInv, Listed
  <2> QED  BY <2>1 DEF IInv, RegistryInv, NothingOutlivesOwner, OwnedBy
<1> DEFINE r == Settled(j, status, cause)
<1>4. /\ r.owner = job[j].owner /\ r.cause = cause
      /\ r.told = (IF job[j].waiters > 0 THEN {"wait"} ELSE {})
                    \cup (IF j \in modelKilled THEN {"kill"} ELSE {})
                    \cup (IF NoticeDue(j, cause) THEN {"notice"} ELSE {})
  BY <1>1, SettledType
<1> HIDE DEF r
<1>5. ASSUME r.owner \in Agents, cause # "teardown", r.told = {}
      PROVE  FALSE
  <2>1. job[j].waiters = 0 /\ j \notin modelKilled /\ ~NoticeDue(j, cause)
    BY <1>2, <1>4, <1>5
  <2> QED  BY <1>3, <1>4, <1>5, <2>1 DEF NoticeDue
<1>6. ASSUME "notice" \in r.told
      PROVE  r.told = {"notice"} /\ r.cause # "teardown"
  <2>1. NoticeDue(j, cause)  BY <1>4, <1>6
  <2>2. job[j].waiters = 0 /\ j \notin modelKilled /\ cause # "teardown"
    BY <2>1 DEF NoticeDue
  <2> QED  BY <1>4, <2>1, <2>2
<1> QED  BY <1>4, <1>5, <1>6 DEF r

(***************************************************************************)
(* The parts of the invariant that speak of the records alone.             *)
(***************************************************************************)
LEMMA FewerActive ==
  ASSUME NEW S, NEW T, IsFiniteSet(T), S \subseteq T
  PROVE  Cardinality(S) \in Nat /\ Cardinality(T) \in Nat /\ Cardinality(S) <= Cardinality(T)
BY FS_Subset, FS_CardinalityType

LEMMA ActiveFinite ==
  ASSUME TypeOK, NEW o
  PROVE  IsFiniteSet(ActiveJobs(o))
<1>1. IsFiniteSet(Ids)  BY JobTypes, FS_Interval
<1>2. ActiveJobs(o) \subseteq Ids  BY DEF TypeOK, ActiveJobs, OwnedBy
<1> QED  BY <1>1, <1>2, FS_Subset

LEMMA Carried ==
  ASSUME IInv, Carries
  PROVE  /\ WithinLimit' /\ NobodyWaitsOnSettled' /\ CompletionTold' /\ Listed'
         /\ Ids' = Ids
         /\ \A o : OwnedBy(o)' \subseteq OwnedBy(o)
<1>1. TypeOK  BY DEF IInv, RegistryInv
<1>2. Ids' = Ids
  <2>1. DOMAIN job' = 1 .. Len(job')  BY LenProperties DEF Carries
  <2> QED  BY <1>1, <2>1, JobTypes DEF Carries, Ids
<1>3. store \subseteq Ids  BY <1>1 DEF TypeOK
<1>4. \A o : OwnedBy(o)' \subseteq OwnedBy(o)
  BY <1>3 DEF Carries, Progresses, OwnedBy
<1>5. \A j \in Ids : job'[j].status \in Active \cup Terminal /\ job[j].status \in Active \cup Terminal
  <2>1. \A j \in Ids : job'[j] \in Job
    BY <1>1, JobTypes, ElementOfSeq DEF Carries
  <2> QED  BY <1>1, <2>1, JobTypes DEF Job
<1>6. WithinLimit'
  <2> SUFFICES ASSUME NEW o \in Agents \cup {Shared}
               PROVE  Cardinality(ActiveJobs(o)') <= Limit
    BY DEF WithinLimit
  <2>1. ActiveJobs(o)' \subseteq ActiveJobs(o)
    <3> SUFFICES ASSUME NEW j \in ActiveJobs(o)' PROVE j \in ActiveJobs(o)  OBVIOUS
    <3>1. j \in OwnedBy(o)' /\ job'[j].status \in Active  BY DEF ActiveJobs
    <3>2. j \in OwnedBy(o) /\ j \in Ids  BY <1>3, <1>4, <3>1 DEF OwnedBy
    <3>3. ~IsTerminal(j)
      BY <3>1, <3>2 DEF Carries, Progresses, IsTerminal, Active, Terminal
    <3> QED  BY <1>5, <3>2, <3>3 DEF ActiveJobs, IsTerminal
  <2>2. Cardinality(ActiveJobs(o)) <= Limit  BY DEF IInv, RegistryInv, WithinLimit
  <2> QED  BY <1>1, <2>1, <2>2, ActiveFinite, FewerActive, JobsConstants
<1>7. NobodyWaitsOnSettled'
  <2> SUFFICES ASSUME NEW j \in Ids, IsTerminal(j)'
               PROVE  job'[j].waiters = 0 /\ j \notin modelKilled'
    BY <1>2 DEF NobodyWaitsOnSettled
  <2>1. Progresses(j)  BY DEF Carries
  <2>2. IsTerminal(j) => job[j].waiters = 0 /\ j \notin modelKilled
    BY DEF IInv, RegistryInv, NobodyWaitsOnSettled
  <2> QED  BY <2>1, <2>2 DEF Progresses
<1>8. CompletionTold'
  <2> SUFFICES ASSUME NEW j \in Ids, IsTerminal(j)' PROVE Told(j)'
    BY <1>2 DEF CompletionTold, Told
  <2>1. Progresses(j)  BY DEF Carries
  <2>2. IsTerminal(j) => Told(j)  BY DEF IInv, CompletionTold, Told
  <2> QED  BY <2>1, <2>2 DEF Progresses, Told
<1>9. Listed'
  <2> SUFFICES ASSUME NEW j \in Ids, ~IsTerminal(j)' PROVE j \in store'
    BY <1>2 DEF Listed
  <2>1. ~IsTerminal(j)  BY DEF Carries, Progresses, IsTerminal
  <2>2. j \in store  BY <2>1 DEF IInv, Listed
  <2> QED  BY <2>1, <2>2 DEF Carries
<1> QED  BY <1>2, <1>4, <1>6, <1>7, <1>8, <1>9

-----------------------------------------------------------------------------
(***************************************************************************)
(* One lemma for each kind of action: it carries the records, and keeps    *)
(* the rest of the state typed.                                            *)
(***************************************************************************)
\* A record replaced by one that progresses, nobody else's waits touched.
LEMMA CarriesOne ==
  ASSUME TypeOK, NEW j \in Ids, NEW r \in Job, job' = [job EXCEPT ![j] = r],
         Progresses(j), UNCHANGED store, modelKilled' \subseteq Ids,
         modelKilled' \subseteq modelKilled \cup {j}
  PROVE  Carries
<1>1. /\ job' \in Seq(Job) /\ Len(job') = Len(job)
      /\ \A k \in Ids \ {j} : job'[k] = job[k]
  BY Replaced
<1>2. ASSUME NEW k \in Ids, k # j PROVE Progresses(k)
  BY <1>1, <1>2 DEF Progresses, IsTerminal
<1> QED  BY <1>1, <1>2 DEF Carries

LEMMA Untouched ==
  ASSUME TypeOK, UNCHANGED job, store' \subseteq store,
         \A j \in store \ store' : IsTerminal(j), modelKilled' \subseteq modelKilled
  PROVE  Carries
BY DEF TypeOK, Carries, Progresses, IsTerminal

LEMMA KillCarries ==
  ASSUME TypeOK, NEW j \in Ids, NEW byModel \in BOOLEAN, Kill(j, byModel)
  PROVE  Carries
<1> DEFINE r == [job[j] EXCEPT !.status = "stopping", !.cause = "kill"]
<1>1. job[j] \in Job  BY JobTypes
<1>2. r \in Job /\ r.owner = job[j].owner /\ r.status = "stopping"
  BY <1>1 DEF Job, Active
<1>3. job' = [job EXCEPT ![j] = r] /\ ~IsTerminal(j)  BY DEF Kill
<1>4. job'[j] = r  BY <1>2, <1>3, Replaced
<1>5. Progresses(j)  BY <1>2, <1>3, <1>4 DEF Progresses, IsTerminal, Terminal
<1>6. modelKilled' \subseteq Ids /\ modelKilled' \subseteq modelKilled \cup {j}
  BY DEF Kill, TypeOK
<1> QED  BY <1>2, <1>3, <1>5, <1>6, CarriesOne DEF Kill

LEMMA WaitCarries ==
  ASSUME TypeOK, NobodyWaitsOnSettled, NEW j \in Ids, Wait(j) \/ WaitEnds(j)
  PROVE  Carries
<1>1. job[j] \in Job /\ job[j].waiters \in 0 .. MaxWaits  BY JobTypes DEF Job
<1>2. PICK n \in 0 .. MaxWaits : job' = [job EXCEPT ![j].waiters = n]
  <2>1. CASE Wait(j)
    <3>1. job[j].waiters + 1 \in 0 .. MaxWaits  BY <1>1, <2>1, JobsConstants DEF Wait
    <3> QED  BY <2>1, <3>1 DEF Wait
  <2>2. CASE WaitEnds(j)
    <3>1. job[j].waiters - 1 \in 0 .. MaxWaits  BY <1>1, <2>2, JobsConstants DEF WaitEnds
    <3> QED  BY <2>2, <3>1 DEF WaitEnds
  <2> QED  BY <2>1, <2>2
<1> DEFINE r == [job[j] EXCEPT !.waiters = n]
<1>3. r \in Job /\ r.owner = job[j].owner /\ r.status = job[j].status
  BY <1>1, <1>2 DEF Job
<1>4. job' = [job EXCEPT ![j] = r]  BY <1>2
<1>5. job'[j] = r  BY <1>3, <1>4, Replaced
<1>6. ~IsTerminal(j)
  <2>1. WaitEnds(j) => job[j].waiters # 0  BY <1>1, JobsConstants DEF WaitEnds
  <2> QED  BY <2>1 DEF Wait, NobodyWaitsOnSettled
<1>7. Progresses(j)  BY <1>3, <1>5, <1>6 DEF Progresses, IsTerminal
<1>8. UNCHANGED <<store, modelKilled>>  BY DEF Wait, WaitEnds
<1> QED  BY <1>3, <1>4, <1>7, <1>8, CarriesOne DEF TypeOK

LEMMA ProducerEndsCarries ==
  ASSUME TypeOK, NEW j \in Ids, ProducerEnds(j)
  PROVE  Carries
<1>1. PICK outcome \in {"completed", "killed"} : job' = [job EXCEPT ![j].done = outcome]
  BY DEF ProducerEnds
<1> DEFINE r == [job[j] EXCEPT !.done = outcome]
<1>2. job[j] \in Job  BY JobTypes
<1>3. /\ r \in Job /\ r.owner = job[j].owner /\ r.status = job[j].status
      /\ r.cause = job[j].cause /\ r.told = job[j].told /\ r.waiters = job[j].waiters
  BY <1>1, <1>2 DEF Job
<1>4. job' = [job EXCEPT ![j] = r]  BY <1>1
<1>5. job'[j] = r  BY <1>3, <1>4, Replaced
<1>6. UNCHANGED <<store, modelKilled>>  BY DEF ProducerEnds
<1>7. Progresses(j)  BY <1>3, <1>5, <1>6 DEF Progresses, IsTerminal
<1> QED  BY <1>3, <1>4, <1>6, <1>7, CarriesOne DEF TypeOK

LEMMA ReportCarries ==
  ASSUME IInv, NEW j \in Ids, Report(j)
  PROVE  Carries
<1>0. TypeOK  BY DEF IInv, RegistryInv
<1> DEFINE cause == IF job[j].cause = "none" THEN "producer" ELSE job[j].cause
           kept == IF IsTerminal(j) THEN job[j] ELSE Settled(j, job[j].done, cause)
           r == [kept EXCEPT !.done = "reported"]
<1>1. job[j] \in Job /\ job[j].done \in Terminal
  BY <1>0, JobTypes DEF Report, Terminal
<1>2. cause \in {"producer", "kill", "teardown"}  BY <1>1 DEF Job
<1>3. /\ kept \in Job /\ kept.owner = job[j].owner
      /\ ~IsTerminal(j) => kept.waiters = 0
  BY <1>0, <1>1, <1>2, SettledType
<1>4. job' = [job EXCEPT ![j] = r] /\ modelKilled' = modelKilled \ {j} /\ UNCHANGED store
  BY DEF Report
<1> HIDE DEF kept
<1>5. /\ r \in Job /\ r.owner = kept.owner /\ r.status = kept.status
      /\ r.cause = kept.cause /\ r.told = kept.told /\ r.waiters = kept.waiters
  BY <1>3 DEF Job
<1>6. job'[j] = r  BY <1>0, <1>4, <1>5, Replaced
<1>7. ~IsTerminal(j) => Told(j)'
  <2> SUFFICES ASSUME ~IsTerminal(j) PROVE Told(j)'  OBVIOUS
  <2>1. kept = Settled(j, job[j].done, cause)  BY DEF kept
  <2>2. kept.owner \in Agents =>
          /\ kept.cause # "teardown" => kept.told # {}
          /\ "notice" \in kept.told => kept.told = {"notice"} /\ kept.cause # "teardown"
    BY <1>1, <1>2, <2>1, SettledTold
  <2> QED  BY <1>5, <1>6, <2>2 DEF Told
<1>8. IsTerminal(j) => kept = job[j]  BY DEF kept
<1>9. Progresses(j)  BY <1>3, <1>4, <1>5, <1>6, <1>7, <1>8 DEF Progresses
<1>10. modelKilled' \subseteq Ids /\ modelKilled' \subseteq modelKilled \cup {j}
  BY <1>0, <1>4 DEF TypeOK
<1> QED  BY <1>0, <1>4, <1>5, <1>9, <1>10, CarriesOne

LEMMA TeardownCarries ==
  ASSUME IInv, NEW jobs, NEW throws, CancelForTeardown(jobs, throws), UNCHANGED store
  PROVE  Carries
<1>0. TypeOK  BY DEF IInv, RegistryInv
<1> DEFINE next(j) == IF j \notin jobs \/ IsTerminal(j) THEN job[j]
                      ELSE IF j \in throws THEN Settled(j, "failed", "teardown")
                      ELSE [job[j] EXCEPT !.status = "stopping", !.cause = "teardown"]
<1>1. /\ job' = [j \in Ids |-> next(j)]
      /\ modelKilled' = modelKilled \ {j \in jobs \cap throws : ~IsTerminal(j)}
  BY DEF CancelForTeardown
<1>2. ASSUME NEW j \in Ids PROVE next(j) \in Job /\ Progresses(j)
  <2>0. job[j] \in Job /\ job'[j] = next(j)  BY <1>0, <1>1, JobTypes
  <2>1. CASE j \notin jobs \/ IsTerminal(j)
    BY <1>1, <2>0, <2>1 DEF Progresses, IsTerminal
  <2>2. CASE j \in jobs /\ ~IsTerminal(j) /\ j \in throws
    <3>1. next(j) = Settled(j, "failed", "teardown") /\ j \notin modelKilled'
      BY <1>1, <2>2
    <3>2. "failed" \in Terminal  BY DEF Terminal
    <3>r. LET r == Settled(j, "failed", "teardown") IN
          r \in Job /\ r.owner = job[j].owner /\ r.waiters = 0
      BY <1>0, <3>2, SettledType
    <3>3. next(j) \in Job /\ next(j).owner = job[j].owner /\ next(j).waiters = 0
      BY <3>1, <3>r
    <3>4. Told(j)'
      BY <2>0, <2>2, <3>1, <3>2, SettledTold DEF Told
    <3> QED  BY <2>0, <2>2, <3>1, <3>3, <3>4 DEF Progresses
  <2>3. CASE j \in jobs /\ ~IsTerminal(j) /\ j \notin throws
    <3>1. next(j) = [job[j] EXCEPT !.status = "stopping", !.cause = "teardown"]  BY <2>3
    <3>2. next(j) \in Job /\ next(j).owner = job[j].owner /\ next(j).status = "stopping"
      BY <2>0, <3>1 DEF Job, Active
    <3> QED  BY <2>0, <2>3, <3>2 DEF Progresses, IsTerminal, Terminal
  <2> QED  BY <2>1, <2>2, <2>3
<1>3. job' \in [Ids -> Job]
  BY <1>1, <1>2
<1>4. job' \in Seq(Job) /\ Len(job') = Len(job)  BY <1>0, <1>3, Rewritten
<1>5. modelKilled' \subseteq Ids  BY <1>0, <1>1 DEF TypeOK
<1> QED  BY <1>2, <1>4, <1>5 DEF Carries

-----------------------------------------------------------------------------
(***************************************************************************)
(* The parts that speak of agents, cleanups and snapshots.                 *)
(***************************************************************************)
\* An action that carries the records and leaves agents alone.
LEMMA AgentsUntouched ==
  ASSUME IInv, Carries, UNCHANGED <<cleanups, agent, awaitedBy, service>>
  PROVE  IInv'
<1>1. /\ WithinLimit' /\ NobodyWaitsOnSettled' /\ CompletionTold' /\ Listed' /\ Ids' = Ids
      /\ \A o : OwnedBy(o)' \subseteq OwnedBy(o)
  BY Carried
<1>2. TypeOK'
  BY <1>1 DEF Carries, IInv, RegistryInv, TypeOK
<1>3. NothingOutlivesOwner'
  BY <1>1 DEF Carries, IInv, RegistryInv, NothingOutlivesOwner
<1>4. Snapshots'
  BY <1>1 DEF IInv, Snapshots
<1> QED  BY <1>1, <1>2, <1>3, <1>4 DEF IInv, RegistryInv

LEMMA JobStep ==
  ASSUME IInv, NEW j \in Ids,
         (\E byModel \in BOOLEAN : Kill(j, byModel)) \/ Wait(j) \/ WaitEnds(j) \/ Remove(j)
           \/ ProducerEnds(j) \/ Report(j)
  PROVE  IInv' /\ Carries
<1>1. TypeOK /\ NobodyWaitsOnSettled  BY DEF IInv, RegistryInv
<1>2. Carries
  <2>1. CASE Remove(j)
    BY <1>1, <2>1, Untouched DEF Remove, Drop
  <2> QED
    BY <1>1, <2>1, KillCarries, WaitCarries, ProducerEndsCarries, ReportCarries
<1>3. UNCHANGED <<cleanups, agent, awaitedBy, service>>
  BY DEF Kill, Wait, WaitEnds, Remove, ProducerEnds, Report
<1> QED  BY <1>2, <1>3, AgentsUntouched

LEMMA StartStep ==
  ASSUME IInv, NEW o \in Agents \cup {Shared}, Start(o)
  PROVE  /\ IInv'
         /\ \A j \in Ids : job'[j] = job[j]
         /\ Ids \cap store' \subseteq store
<1> DEFINE r == [owner |-> o, status |-> "running", cause |-> "none",
                 done |-> "pending", waiters |-> 0, told |-> {}]
<1>0. TypeOK  BY DEF IInv, RegistryInv
<1>n. PICK n \in Nat : n = Len(job) + 1  BY <1>0, JobTypes
<1>1. Len(job) \in Nat /\ Ids = 1 .. Len(job) /\ n \notin Ids  BY <1>0, <1>n, JobTypes
<1>2. r \in Job  BY JobsConstants DEF Job, Active
<1>3. /\ job' = Append(job, r) /\ store' = store \cup {n}
      /\ UNCHANGED <<agent, awaitedBy, service, modelKilled>>
      /\ Serves(o) /\ cleanups' = cleanups \cup ({o} \cap Agents)
  BY <1>n DEF Start, AttachCleanup
<1>4. /\ job' \in Seq(Job) /\ Len(job') = n /\ job'[n] = r
      /\ \A j \in Ids : job'[j] = job[j]
  BY <1>0, <1>n, <1>1, <1>2, <1>3, AppendProperties DEF TypeOK
<1>5. Ids' = Ids \cup {n}
  <2>1. DOMAIN job' = 1 .. Len(job')  BY <1>4, LenProperties
  <2> QED  BY <1>n, <1>1, <1>4, <2>1 DEF Ids
<1>6. store \subseteq Ids /\ modelKilled \subseteq Ids  BY <1>0 DEF TypeOK
<1>7. TypeOK'
  <2>1. Len(job') <= MaxJobs  BY <1>n, <1>1, <1>4, JobsConstants DEF Start
  <2> QED  BY <1>0, <1>3, <1>4, <1>5, <1>6, <2>1 DEF TypeOK
<1>8. /\ OwnedBy(o)' = OwnedBy(o) \cup {n}
      /\ \A p \in Agents \cup {Shared} : p # o => OwnedBy(p)' = OwnedBy(p)
  <2>1. r.owner = o  OBVIOUS
  <2> HIDE DEF r
  <2> QED  BY <1>3, <1>4, <1>6, <2>1 DEF OwnedBy
<1>9. WithinLimit'
  <2> SUFFICES ASSUME NEW p \in Agents \cup {Shared}
               PROVE  Cardinality(ActiveJobs(p)') <= Limit
    BY DEF WithinLimit
  <2>1. CASE p = o
    <3>1. ActiveJobs(p)' \subseteq ActiveJobs(p) \cup {n}
      BY <1>4, <1>6, <1>8, <2>1 DEF ActiveJobs, OwnedBy
    <3>2. IsFiniteSet(ActiveJobs(p))  BY <1>0, ActiveFinite
    <3>3. /\ IsFiniteSet(ActiveJobs(p) \cup {n})
          /\ Cardinality(ActiveJobs(p) \cup {n}) <= Cardinality(ActiveJobs(p)) + 1
      <4>1. Cardinality(ActiveJobs(p)) \in Nat  BY <3>2, FS_CardinalityType
      <4>2. IsFiniteSet(ActiveJobs(p) \cup {n})
            /\ Cardinality(ActiveJobs(p) \cup {n}) =
                 IF n \in ActiveJobs(p) THEN Cardinality(ActiveJobs(p))
                                        ELSE Cardinality(ActiveJobs(p)) + 1
        BY <3>2, FS_AddElement
      <4> QED  BY <4>1, <4>2
    <3>4. Cardinality(ActiveJobs(p)) \in Nat /\ Cardinality(ActiveJobs(p)) < Limit
      BY <2>1, <3>2, FS_CardinalityType DEF Start
    <3> QED  BY <3>1, <3>3, <3>4, FewerActive, JobsConstants
  <2>2. CASE p # o
    <3>1. ActiveJobs(p)' = ActiveJobs(p)
      BY <1>4, <1>6, <1>8, <2>2 DEF ActiveJobs, OwnedBy
    <3> QED  BY <3>1 DEF IInv, RegistryInv, WithinLimit
  <2> QED  BY <2>1, <2>2
<1>10. ~IsTerminal(n)' /\ \A j \in Ids : IsTerminal(j)' <=> IsTerminal(j)
  BY <1>4 DEF IsTerminal, Terminal
<1>11. NobodyWaitsOnSettled'
  BY <1>3, <1>4, <1>5, <1>10 DEF IInv, RegistryInv, NobodyWaitsOnSettled
<1>12. CompletionTold'
  BY <1>4, <1>5, <1>10 DEF IInv, CompletionTold
<1>13. Listed'
  BY <1>3, <1>5, <1>10 DEF IInv, Listed
<1>14. NothingOutlivesOwner'
  BY <1>3, <1>8 DEF IInv, RegistryInv, NothingOutlivesOwner, Serves
<1>15. Snapshots'
  <2> SUFFICES ASSUME NEW a \in Agents
               PROVE  /\ agent[a] \in {"closing", "gone"} => a \notin cleanups'
                      /\ agent[a] = "closing" => OwnedBy(a)' \subseteq awaitedBy[a]
                      /\ agent[a] \in {"live", "unloading"} /\ OwnedBy(a)' # {} => a \in cleanups'
    BY <1>3 DEF Snapshots
  <2>1. /\ agent[a] \in {"closing", "gone"} => a \notin cleanups
        /\ agent[a] = "closing" => OwnedBy(a) \subseteq awaitedBy[a]
        /\ agent[a] \in {"live", "unloading"} /\ OwnedBy(a) # {} => a \in cleanups
    BY DEF IInv, Snapshots
  <2>2. CASE a = o  BY <1>3, <2>1, <2>2 DEF Serves
  <2>3. CASE a # o  BY <1>3, <1>8, <2>1, <2>3
  <2> QED  BY <2>2, <2>3
<1> QED  BY <1>1, <1>3, <1>4, <1>6, <1>7, <1>9, <1>11, <1>12, <1>13, <1>14, <1>15
         DEF IInv, RegistryInv

LEMMA StartFailsStep ==
  ASSUME IInv, NEW o \in Agents \cup {Shared}, StartFails(o)
  PROVE  IInv' /\ Carries
<1>1. /\ UNCHANGED <<job, store, agent, awaitedBy, service, modelKilled>>
      /\ Serves(o) /\ cleanups' = cleanups \cup ({o} \cap Agents)
  BY DEF StartFails, AttachCleanup
<1>2. Carries  BY <1>1, Untouched DEF IInv, RegistryInv
<1>3. /\ WithinLimit' /\ NobodyWaitsOnSettled' /\ CompletionTold' /\ Listed' /\ Ids' = Ids
      /\ \A p : OwnedBy(p)' \subseteq OwnedBy(p)
  BY <1>2, Carried
<1>4. TypeOK'  BY <1>1, <1>3 DEF IInv, RegistryInv, TypeOK
<1>5. NothingOutlivesOwner'
  BY <1>1, <1>3 DEF IInv, RegistryInv, NothingOutlivesOwner
<1>6. Snapshots'  BY <1>1, <1>3 DEF IInv, Snapshots, Serves
<1> QED  BY <1>2, <1>3, <1>4, <1>5, <1>6 DEF IInv, RegistryInv

\* What agent, cleanup and snapshot must still satisfy when the records are carried.
LEMMA Disposes ==
  ASSUME IInv, Carries,
         cleanups' \subseteq Agents,
         agent' \in [Agents -> {"live", "unloading", "closing", "gone"}],
         awaitedBy' \in [Agents -> SUBSET Ids],
         service' \in {"up", "closing", "down"},
         Snapshots', NothingOutlivesOwner'
  PROVE  IInv'
<1>1. WithinLimit' /\ NobodyWaitsOnSettled' /\ CompletionTold' /\ Listed' /\ Ids' = Ids
  BY Carried
<1>2. TypeOK'  BY <1>1 DEF Carries, IInv, RegistryInv, TypeOK
<1> QED  BY <1>1, <1>2 DEF IInv, RegistryInv

LEMMA AgentStep ==
  ASSUME IInv, NEW a \in Agents,
         Unload(a) \/ DisposeOwned(a) \/ OwnedSettled(a) \/ NothingOwned(a)
  PROVE  IInv' /\ Carries
<1>0. TypeOK  BY DEF IInv, RegistryInv
<1>1. Carries
  <2>1. CASE Unload(a) \/ NothingOwned(a)
    BY <1>0, <2>1, Untouched DEF Unload, NothingOwned
  <2>2. CASE DisposeOwned(a)  BY <2>2, TeardownCarries DEF DisposeOwned
  <2>3. CASE OwnedSettled(a)
    BY <1>0, <2>3, Untouched DEF OwnedSettled, Drop
  <2> QED  BY <2>1, <2>2, <2>3
<1>2. \A o : OwnedBy(o)' \subseteq OwnedBy(o)  BY <1>1, Carried
<1>3. /\ \A b \in Agents : b # a => agent'[b] = agent[b] /\ awaitedBy'[b] = awaitedBy[b]
      /\ cleanups' \subseteq cleanups /\ cleanups \ {a} \subseteq cleanups'
      /\ service' = service
      /\ agent' \in [Agents -> {"live", "unloading", "closing", "gone"}]
      /\ awaitedBy' \in [Agents -> SUBSET Ids]
  BY <1>0 DEF Unload, DisposeOwned, OwnedSettled, NothingOwned, TypeOK, OwnedBy
<1>4. /\ agent'[a] \in {"closing", "gone"} => a \notin cleanups'
      /\ agent'[a] = "closing" => OwnedBy(a)' \subseteq awaitedBy'[a]
      /\ agent'[a] \in {"live", "unloading"} /\ OwnedBy(a)' # {} => a \in cleanups'
      /\ agent'[a] = "gone" => OwnedBy(a)' = {}
  <2>0. /\ agent[a] \in {"closing", "gone"} => a \notin cleanups
        /\ agent[a] = "closing" => OwnedBy(a) \subseteq awaitedBy[a]
        /\ agent[a] \in {"live", "unloading"} /\ OwnedBy(a) # {} => a \in cleanups
    BY DEF IInv, Snapshots
  <2>1. CASE Unload(a)
    BY <1>0, <1>2, <2>0, <2>1 DEF Unload, TypeOK
  <2>2. CASE DisposeOwned(a)
    BY <1>0, <1>2, <2>2 DEF DisposeOwned, TypeOK
  <2>3. CASE OwnedSettled(a)
    <3>1. agent'[a] = "gone" /\ cleanups' = cleanups /\ store' = store \ awaitedBy[a]
      BY <1>0, <2>3 DEF OwnedSettled, Drop, TypeOK
    <3>2. OwnedBy(a)' = {}
      BY <1>2, <2>0, <2>3, <3>1 DEF OwnedSettled, OwnedBy
    <3> QED  BY <2>0, <2>3, <3>1, <3>2 DEF OwnedSettled
  <2>4. CASE NothingOwned(a)
    BY <1>0, <1>2, <2>0, <2>4 DEF NothingOwned, TypeOK
  <2> QED  BY <2>1, <2>2, <2>3, <2>4
<1>5. Snapshots'
  <2> SUFFICES ASSUME NEW b \in Agents, b # a
               PROVE  /\ agent'[b] \in {"closing", "gone"} => b \notin cleanups'
                      /\ agent'[b] = "closing" => OwnedBy(b)' \subseteq awaitedBy'[b]
                      /\ agent'[b] \in {"live", "unloading"} /\ OwnedBy(b)' # {}
                           => b \in cleanups'
    BY <1>4 DEF Snapshots
  <2> QED  BY <1>2, <1>3 DEF IInv, Snapshots
<1>6. NothingOutlivesOwner'
  BY <1>1, <1>2, <1>3, <1>4 DEF Carries, IInv, RegistryInv, NothingOutlivesOwner
<1>7. cleanups' \subseteq Agents /\ service' \in {"up", "closing", "down"}
  BY <1>0, <1>3 DEF TypeOK
<1> QED  BY <1>1, <1>3, <1>5, <1>6, <1>7, Disposes

LEMMA ServiceStep ==
  ASSUME IInv, DisposeAll \/ AllSettled
  PROVE  IInv' /\ Carries
<1>0. TypeOK  BY DEF IInv, RegistryInv
<1>1. Carries
  <2>1. CASE DisposeAll  BY <2>1, TeardownCarries DEF DisposeAll
  <2>2. CASE AllSettled
    BY <1>0, <2>2, Untouched DEF AllSettled, Drop
  <2> QED  BY <2>1, <2>2
<1>2. \A o : OwnedBy(o)' \subseteq OwnedBy(o)  BY <1>1, Carried
<1>3. UNCHANGED <<agent, awaitedBy>>  BY DEF DisposeAll, AllSettled
<1>4. \/ cleanups' = cleanups /\ service' = "closing"
      \/ cleanups' = {} /\ store' = {} /\ service' = "down"
  BY DEF DisposeAll, AllSettled, Drop
<1>5. store' = {} => \A o : OwnedBy(o)' = {}  BY DEF OwnedBy
<1>6. Snapshots'  BY <1>2, <1>3, <1>4, <1>5 DEF IInv, Snapshots
<1>7. NothingOutlivesOwner'
  BY <1>2, <1>3, <1>4 DEF IInv, RegistryInv, NothingOutlivesOwner
<1> QED  BY <1>0, <1>1, <1>3, <1>4, <1>6, <1>7, Disposes DEF TypeOK

-----------------------------------------------------------------------------
LEMMA InitInv == Init => IInv
<1> SUFFICES ASSUME Init PROVE IInv  OBVIOUS
<1>1. job \in Seq(Job) /\ Len(job) = 0 /\ Ids = {}
  <2>1. <<>> \in Seq(Job) /\ Len(<<>>) = 0  BY EmptySeq
  <2>2. DOMAIN job = 1 .. Len(job)  BY <2>1, LenProperties DEF Init
  <2> QED  BY <2>1, <2>2 DEF Init, Ids
<1>2. TypeOK  BY <1>1, JobsConstants DEF Init, TypeOK
<1>3. \A o : OwnedBy(o) = {} /\ ActiveJobs(o) = {}  BY DEF Init, OwnedBy, ActiveJobs
<1>4. WithinLimit
  <2>1. Cardinality({}) = 0  BY FS_EmptySet
  <2> QED  BY <1>3, <2>1, JobsConstants DEF WithinLimit
<1>5. NobodyWaitsOnSettled /\ CompletionTold /\ Listed
  BY <1>1 DEF NobodyWaitsOnSettled, CompletionTold, Listed
<1>6. NothingOutlivesOwner /\ Snapshots
  BY <1>3 DEF Init, NothingOutlivesOwner, Snapshots
<1> QED  BY <1>2, <1>4, <1>5, <1>6 DEF IInv, RegistryInv

LEMMA StepInv ==
  ASSUME IInv, [Next]_vars
  PROVE  /\ IInv'
         /\ \/ Carries
            \/ Ids \cap store' \subseteq store /\ \A j \in Ids : job'[j] = job[j]
<1>1. CASE UNCHANGED vars
  <2>1. Carries  BY <1>1, Untouched DEF vars, IInv, RegistryInv
  <2> QED  BY <1>1, <2>1, AgentsUntouched DEF vars
<1>2. CASE \E o \in Agents \cup {Shared} : Start(o) \/ StartFails(o)
  BY <1>2, StartStep, StartFailsStep
<1>3. CASE \E j \in Ids : \/ \E byModel \in BOOLEAN : Kill(j, byModel)
                          \/ Wait(j) \/ WaitEnds(j) \/ Remove(j)
                          \/ ProducerEnds(j) \/ Report(j)
  BY <1>3, JobStep
<1>4. CASE \E a \in Agents : Unload(a) \/ DisposeOwned(a) \/ OwnedSettled(a) \/ NothingOwned(a)
  BY <1>4, AgentStep
<1>5. CASE DisposeAll \/ AllSettled  BY <1>5, ServiceStep
<1> QED  BY <1>1, <1>2, <1>3, <1>4, <1>5 DEF Next

LEMMA InvCorrect == Spec => []IInv
<1>1. IInv /\ [Next]_vars => IInv'  BY StepInv
<1> QED  BY <1>1, InitInv, PTL DEF Spec

(***************************************************************************)
(* The bookkeeping of the registry holds for any agents, limit and number  *)
(* of jobs: limits are kept, nobody waits on a settled job, no job is      *)
(* listed behind its owner's or the registry's disposal.                   *)
(***************************************************************************)
THEOREM RegistryCorrect == Spec => []RegistryInv
<1>1. IInv => RegistryInv  BY DEF IInv
<1> QED  BY <1>1, InvCorrect, PTL

(***************************************************************************)
(* The end of every owned job that no teardown caused reaches the model,   *)
(* and by one notice only if by nothing else.                              *)
(***************************************************************************)
THEOREM CompletionToldCorrect == Spec => []CompletionTold
<1>1. IInv => CompletionTold  BY DEF IInv
<1> QED  BY <1>1, InvCorrect, PTL

(***************************************************************************)
(* The first settlement of a job stands, whatever its producer, a kill or  *)
(* a teardown does after it, and a dropped record does not come back.      *)
(***************************************************************************)
THEOREM FirstSettlementCorrect == Spec => FirstSettlementStands
<1>1. IInv /\ [Next]_vars
      => [/\ \A j \in Ids : IsTerminal(j) => /\ job'[j].status = job[j].status
                                             /\ job'[j].cause = job[j].cause
                                             /\ job'[j].told = job[j].told
          /\ Ids \cap store' \subseteq store]_vars
  BY StepInv DEF Carries, Progresses
<1> QED  BY <1>1, InvCorrect, PTL DEF Spec, FirstSettlementStands
=============================================================================
