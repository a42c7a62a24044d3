-------------------------------- MODULE Schedule --------------------------------
(***************************************************************************)
(* The reminder service (packages/schedule/schedule): stored tasks, a FIFO  *)
(* chain that serializes management calls with deliveries, one timer, and   *)
(* deliveries that queue a message in the Session's inbox, flush the        *)
(* Session, and only then commit the task.                                  *)
(*                                                                         *)
(* An action runs from the settlement of one await to the next await. All   *)
(* tasks are bound to one Session. Calls, clock and mishaps are bounded.    *)
(***************************************************************************)
EXTENDS Naturals, Sequences, FiniteSets, FiniteSetsExt

CONSTANTS
  OneShot, Recurring,  \* the tasks, by kind
  Period,              \* interval of the recurring ones
  MaxTime,             \* bound: wall clock
  MaxCalls,            \* bound: management calls
  MaxMishaps           \* bound: failures, crashes, clock rollbacks and closings

ASSUME ScheduleConstants ==
  /\ OneShot \cap Recurring = {}
  /\ Period \in Nat \ {0}
  /\ MaxTime \in Nat /\ MaxCalls \in Nat /\ MaxMishaps \in Nat

Tasks == OneShot \cup Recurring

VARIABLES
  row,        \* the stored task, or why there is none
  inbox,      \* reminders queued in the Session: sets of <<task, occurrence>>
  flushed,    \* how many of them are durable
  now,        \* Date.now()
  chain,      \* the service's FIFO chain, running operation first
  drive,      \* where the drive at its head awaits, and its locals
  requested, running, timer, stopping,  \* the fields of ScheduleRuntime
  calls, mishaps                        \* so far

runtime == <<requested, running, timer, stopping>>
vars == <<row, inbox, flushed, now, chain, drive, runtime, calls, mishaps>>

Absent == [status |-> "absent"]
Deleted == [status |-> "deleted"]
NoTimer == MaxTime + Period + 1     \* above every target
Times == 0..MaxTime + Period
Receipts == [at : Times, message : Nat]

Idle == [pc |-> "none", todo |-> {}, group |-> {}, at |-> 0, failed |-> {}]
Driving == [kind |-> "drive"]

IsActive(t) == row[t].status = "active"
Due(t) == IsActive(t) /\ row[t].due <= now

TypeOK ==
  /\ \A t \in Tasks : row[t] \in {Absent, Deleted}
                      \/ /\ row[t].status \in {"active", "inactive"} /\ row[t].due \in Times
                         /\ \A r \in row[t].receipts : r \in Receipts
  /\ inbox \in Seq(SUBSET (Tasks \X Times)) /\ flushed \in 0..Len(inbox)
  /\ now \in 0..MaxTime
  /\ drive.pc \in {"none", "resolving", "flushing", "committing"}
  /\ UNION {drive.todo, drive.group, drive.failed} \subseteq Tasks
  /\ requested \in BOOLEAN /\ stopping \in BOOLEAN
  /\ running \in {"none", "queued", "returned", "retiring", "closed"}
  /\ timer \in Times \cup {NoTimer}
  /\ calls \in 0..MaxCalls /\ mishaps \in 0..MaxMishaps

Init ==
  /\ row \in [Tasks -> {Absent, [status |-> "active", due |-> 1, receipts |-> {}]}]
  /\ inbox = <<>> /\ flushed = 0 /\ now = 0
  /\ chain = <<Driving>> /\ drive = Idle          \* the constructor requests a drive
  /\ requested = FALSE /\ running = "queued" /\ timer = NoTimer /\ stopping = FALSE
  /\ calls = 0 /\ mishaps = 0

Mishap == mishaps < MaxMishaps /\ mishaps' = mishaps + 1

-----------------------------------------------------------------------------
(* requestDrive() and the loop it starts *)

\* requestDrive() called in an operation that leaves `rest` of the chain.
RequestDrive(rest) ==
  IF stopping THEN chain' = rest /\ UNCHANGED runtime
  ELSE /\ timer' = NoTimer
       /\ IF running = "none"
          THEN requested' = FALSE /\ running' = "queued" /\ chain' = Append(rest, Driving)
          ELSE requested' = TRUE /\ chain' = rest /\ UNCHANGED running
       /\ UNCHANGED stopping

\* The timer runs on another clock than `now`, so it may also fire early.
TimerFires ==
  /\ timer # NoTimer
  /\ RequestDrive(chain)
  /\ UNCHANGED <<row, inbox, flushed, now, drive, calls, mishaps>>

\* The loop behind its await of a drive.
LoopContinues ==
  /\ running = "returned"
  /\ IF requested /\ ~stopping
     THEN requested' = FALSE /\ running' = "queued" /\ chain' = Append(chain, Driving)
     ELSE running' = "retiring" /\ UNCHANGED <<requested, chain>>
  /\ UNCHANGED <<row, inbox, flushed, now, drive, timer, stopping, calls, mishaps>>

\* Mutated form of Retire: no second look at the requests.
RetireQuietly ==
  /\ running = "retiring" /\ running' = "none"
  /\ UNCHANGED <<row, inbox, flushed, now, chain, drive, requested, timer, stopping, calls, mishaps>>

\* Its finally(): a request that came in since the loop ended starts another one.
Retire ==
  /\ running = "retiring"
  /\ IF requested /\ ~stopping
     THEN requested' = FALSE /\ running' = "queued" /\ timer' = NoTimer
          /\ chain' = Append(chain, Driving)
     ELSE running' = "none" /\ UNCHANGED <<requested, timer, chain>>
  /\ UNCHANGED <<row, inbox, flushed, now, drive, stopping, calls, mishaps>>

-----------------------------------------------------------------------------
(* drive() *)

\* The drive returns and its promise settles.
DriveReturns(target, failed) ==
  /\ chain' = Tail(chain)
  /\ running' = "returned"
  /\ timer' = target
  /\ drive' = [Idle EXCEPT !.failed = failed]

\* The nearest target of what did not fail.
NextTarget(failed) ==
  LET open == {t \in Tasks : row'[t].status = "active" /\ t \notin failed}
  IN IF open = {} THEN NoTimer ELSE Min({row'[t].due : t \in open})

\* The tasks one message reminds of: recurring ones of a Session go together.
GroupOf(t, todo) == IF t \in Recurring THEN todo \cap Recurring ELSE {t}

\* The head of the loop over due tasks: the next group is resolved, or the
\* drive arms the timer and returns.
Proceed(todo, failed) ==
  /\ IF stopping THEN DriveReturns(NoTimer, failed)
     ELSE IF todo = {} THEN DriveReturns(NextTarget(failed), failed)
     ELSE \E t \in todo :
            /\ drive' = [pc |-> "resolving", todo |-> todo \ GroupOf(t, todo),
                         group |-> GroupOf(t, todo), at |-> 0, failed |-> failed]
            /\ timer' = NoTimer       \* cleared when the drive started
            /\ UNCHANGED <<chain, running>>
  /\ UNCHANGED <<requested, stopping>>

DriveStarts ==
  /\ chain # <<>> /\ Head(chain) = Driving /\ drive.pc = "none"
  /\ UNCHANGED <<row, inbox, flushed, now, calls, mishaps>>
  /\ Proceed({t \in Tasks : Due(t)}, {})

\* The catch clause: what is still due waits for another request.
GivesUp(pending) ==
  /\ Mishap
  /\ UNCHANGED <<row, inbox, flushed, now, calls>>
  /\ Proceed(drive.todo, drive.failed \cup {t \in pending : Due(t)})

ResolveFails == drive.pc = "resolving" /\ GivesUp(drive.group)

\* The occurrence of a task that a message sent at time `at` reminds of: the
\* last one of those missed.
Occurrence(t, at) ==
  IF t \in OneShot THEN row[t].due ELSE row[t].due + ((at - row[t].due) \div Period) * Period

\* Mutated form of Admitted: the clock of the scan is trusted.
AdmittedAtScan(group) == group

\* What is due by now, perhaps less than at the scan.
Admitted(group) == {t \in group : row[t].due <= now}

\* The Session's agent is there: its admitted reminders are queued in one message.
Resolved ==
  /\ drive.pc = "resolving"
  /\ LET admitted == Admitted(drive.group)
     IN IF stopping
        THEN /\ UNCHANGED <<row, inbox>>
             /\ DriveReturns(NoTimer, drive.failed) /\ UNCHANGED <<requested, stopping>>
        ELSE IF admitted = {}
        THEN UNCHANGED <<row, inbox>> /\ Proceed(drive.todo, drive.failed)
        ELSE /\ inbox' = Append(inbox, {<<t, Occurrence(t, now)>> : t \in admitted})
             /\ drive' = [drive EXCEPT !.pc = "flushing", !.group = admitted, !.at = now]
             /\ UNCHANGED <<row, chain, runtime>>
  /\ UNCHANGED <<flushed, now, calls, mishaps>>

Flushed ==
  /\ drive.pc = "flushing"
  /\ flushed' = Len(inbox)
  /\ drive' = [drive EXCEPT !.pc = "committing"]
  /\ UNCHANGED <<row, inbox, now, chain, runtime, calls, mishaps>>

\* Mutated form of FlushFails: an unacknowledged flush does not stop the commit.
FlushIgnored ==
  /\ drive.pc = "flushing" /\ Mishap
  /\ drive' = [drive EXCEPT !.pc = "committing"]
  /\ UNCHANGED <<row, inbox, flushed, now, calls, chain, runtime>>

\* The flush throws, or no listener took part in it.
FlushFails == drive.pc = "flushing" /\ GivesUp(drive.group)

\* Mutated form of NextDue: the target is rounded down to the occurrence just delivered.
NextDueRounded(t, at) == at

\* The target behind a delivered occurrence; a one-shot task keeps its own.
NextDue(t, at) == IF t \in OneShot THEN at ELSE at + Period

\* A put of one group member; the last one ends the group.
Committed(t) ==
  /\ drive.pc = "committing" /\ t \in drive.group
  /\ LET at == Occurrence(t, drive.at)
     IN row' = [row EXCEPT ![t] =
          [status |-> IF t \in OneShot THEN "inactive" ELSE "active",
           due |-> NextDue(t, at),
           receipts |-> @.receipts \cup {[at |-> at, message |-> Len(inbox)]}]]
  /\ IF drive.group = {t} THEN Proceed(drive.todo, drive.failed)
     ELSE /\ drive' = [drive EXCEPT !.group = @ \ {t}]
          /\ UNCHANGED <<chain, runtime>>
  /\ UNCHANGED <<inbox, flushed, now, calls, mishaps>>

CommitFails == drive.pc = "committing" /\ GivesUp(drive.group)

-----------------------------------------------------------------------------
(* Management calls *)

Fresh(t) == row[t] = Absent /\ \A i \in DOMAIN chain :
              chain[i].kind = "create" => chain[i].task # t

\* A call joins the chain. A create draws an id and fixes its target before it
\* waits; an update names the record its caller saw.
Call ==
  /\ ~stopping /\ calls < MaxCalls
  /\ \E op \in [kind : {"create"}, task : {t \in Tasks : Fresh(t)}, due : {now + 1}]
               \cup [kind : {"update"}, task : {t \in Tasks : IsActive(t)}, seen : Times]
               \cup [kind : {"delete"}, task : Tasks]
               \cup {[kind |-> "stop"]} :
       /\ op.kind = "update" => op.seen = row[op.task].due
       /\ chain' = Append(chain, op)
  /\ calls' = calls + 1
  /\ UNCHANGED <<row, inbox, flushed, now, drive, runtime, mishaps>>

\* What the operation writes: the tasks it puts or deletes, with their new rows.
Written(op) ==
  CASE op.kind = "create" ->
         {<<op.task, [status |-> "active", due |-> op.due, receipts |-> {}]>>}
    [] op.kind = "update" /\ IsActive(op.task) /\ row[op.task].due = op.seen ->
         {<<op.task, [row[op.task] EXCEPT !.due = now + 1]>>}
    [] op.kind = "delete" /\ row[op.task] \notin {Absent, Deleted} -> {<<op.task, Deleted>>}
    [] op.kind = "stop" -> {<<t, Deleted>> : t \in {u \in Tasks : IsActive(u)}}
    [] OTHER -> {}

\* The operation at the head of the chain; any write may fail, and those that
\* succeed are followed by a drive.
Operate ==
  /\ chain # <<>> /\ Head(chain) # Driving
  /\ \E done \in SUBSET Written(Head(chain)) :
       /\ IF done = Written(Head(chain)) THEN UNCHANGED mishaps ELSE Mishap
       /\ row' = [t \in Tasks |-> IF \E w \in done : w[1] = t
                                  THEN (CHOOSE w \in done : w[1] = t)[2] ELSE row[t]]
       /\ IF done = {} THEN chain' = Tail(chain) /\ UNCHANGED runtime
          ELSE RequestDrive(Tail(chain))
  /\ UNCHANGED <<inbox, flushed, now, drive, calls>>

-----------------------------------------------------------------------------
(* The environment *)

Tick == now < MaxTime /\ now' = now + 1
        /\ UNCHANGED <<row, inbox, flushed, chain, drive, runtime, calls, mishaps>>

ClockSetBack == Mishap /\ now > 0 /\ now' = now - 1
                /\ UNCHANGED <<row, inbox, flushed, chain, drive, runtime, calls>>

\* The service is disposed: stop the timer, then drain loop and chain.
Dispose ==
  /\ ~stopping /\ stopping' = TRUE /\ timer' = NoTimer
  /\ Mishap
  /\ UNCHANGED <<row, inbox, flushed, now, chain, drive, requested, running, calls>>

Closes ==
  /\ stopping /\ running = "none" /\ chain = <<>>
  /\ running' = "closed"
  /\ UNCHANGED <<row, inbox, flushed, now, chain, drive, requested, timer, stopping,
                 calls, mishaps>>

\* A new process over what is stored; of unflushed messages any prefix survives.
Starts ==
  /\ \E n \in flushed..Len(inbox) : inbox' = SubSeq(inbox, 1, n) /\ flushed' = n
  /\ chain' = <<Driving>> /\ drive' = Idle
  /\ requested' = FALSE /\ running' = "queued" /\ timer' = NoTimer /\ stopping' = FALSE
  /\ UNCHANGED <<row, now, calls>>

Crash == running # "closed" /\ Mishap /\ Starts
Reopen == running = "closed" /\ UNCHANGED mishaps /\ Starts

Next ==
  \/ TimerFires \/ LoopContinues \/ Retire
  \/ DriveStarts \/ ResolveFails \/ Resolved \/ Flushed \/ FlushFails
  \/ (\E t \in Tasks : Committed(t)) \/ CommitFails
  \/ Call \/ Operate
  \/ Tick \/ ClockSetBack \/ Dispose \/ Closes \/ Crash \/ Reopen

Spec == Init /\ [][Next]_vars

\* Awaits settle, the microtasks of the loop run, the timer fires once its
\* target has come. Callers, mishaps and the clock need not do anything.
Fairness ==
  /\ WF_vars(LoopContinues \/ Retire)
  /\ WF_vars(DriveStarts \/ ResolveFails \/ Resolved \/ Flushed \/ FlushFails
             \/ (\E t \in Tasks : Committed(t)) \/ CommitFails \/ Operate)
  /\ WF_vars(timer <= now /\ TimerFires)
  /\ WF_vars(Closes)
FairSpec == Spec /\ Fairness

-----------------------------------------------------------------------------
(* Properties *)

\* A delivery is recorded only for a message that is durable in the Session,
\* and a one-shot task ends only with such a record.
DeliveriesDurable ==
  \A t \in Tasks : row[t] \notin {Absent, Deleted} =>
    /\ \A r \in row[t].receipts : r.message <= flushed /\ <<t, r.at>> \in inbox[r.message]
    /\ row[t].status = "inactive" => row[t].receipts # {}

ScheduleInv == TypeOK /\ DeliveriesDurable

\* An occurrence is delivered once, and once more for each failure, crash or
\* rollback at most.
OncePerMishap ==
  \A t \in Tasks, at \in Times :
    Cardinality({i \in DOMAIN inbox : <<t, at>> \in inbox[i]}) <= 1 + mishaps

\* A reminder is queued only for stored active tasks that are due by the clock
\* of that moment, never for a deleted one and not once disposal has begun.
RemindersHonest ==
  [][Len(inbox') > Len(inbox) =>
       ~stopping /\ \A o \in inbox'[Len(inbox')] : Due(o[1]) /\ o[2] <= now]_vars

\* A due task is delivered, edited or deleted, unless its delivery failed, in
\* which case it waits for the next drive.
DueServed ==
  \A t \in Tasks : Due(t) ~> (~Due(t) \/ t \in drive.failed \/ stopping)
=============================================================================
