--------------------------- MODULE ToolScheduler ---------------------------
(***************************************************************************)
(* executeToolCalls() (packages/core/agent-loop, tool-calls.ts): the tool  *)
(* calls of one assistant message, in model order, run as exclusive        *)
(* barriers and bounded parallel pools.  Bodies overlap and settle in any  *)
(* order; results commit in model order.  An abort stops starts and skips  *)
(* the rest; a scheduler failure drains the bodies and leaves the missing  *)
(* results to the owning step (agent.ts, ToolCallRecovery).                *)
(*                                                                         *)
(* Each action runs from one await to the next; an abort or a body's       *)
(* settlement arrives at the awaits only, so never while pc is "fill".     *)
(***************************************************************************)
EXTENDS Naturals, Sequences, FiniteSets

CONSTANTS NumCalls,     \* calls of the assistant message
          MaxParallel   \* maxParallelToolCalls

ASSUME ToolSchedulerConstants == NumCalls \in Nat /\ MaxParallel \in Nat \ {0}

VARIABLES
  pc,        \* position of the scheduler
  mode,      \* mode of the current group
  last,      \* last call of the current group
  next,      \* calls consumed by the groups before it
  started,   \* calls 1 .. started have a logged tool/call
  committed, \* calls 1 .. committed have a committed result
  class,     \* the mode each call was started with
  body,      \* each call's body; "filled" also stands for its filled slot
  inFlight,  \* dispatched calls not yet taken from the race
  aborted,   \* the group has seen the abort
  signal,    \* the step's signal is aborted
  failure,   \* schedulerFailure is set
  results    \* tool/result events in log order: the call and how it ended

group == <<mode, last, next>>
bodies == <<class, body, inFlight>>
vars == <<pc, group, started, committed, bodies, aborted, signal, failure, results>>

Calls == 1 .. NumCalls
Modes == {"parallel", "exclusive"}
Positions == {"group", "fill", "prepare", "commit", "race", "finish", "drain", "failed",
              "done"}

TypeOK ==
  /\ pc \in Positions
  /\ mode \in Modes
  /\ last \in 0 .. NumCalls /\ next \in 0 .. NumCalls
  /\ started \in 0 .. NumCalls /\ committed \in 0 .. NumCalls
  /\ class \in [Calls -> Modes \cup {"none"}]
  /\ body \in [Calls -> {"none", "running", "filled", "failed"}]
  /\ inFlight \subseteq Calls
  /\ aborted \in BOOLEAN /\ signal \in BOOLEAN /\ failure \in BOOLEAN
  /\ results \in Seq([call : Calls,
                      kind : {"result", "skipped", "not-started", "outcome-unknown"}])

Init ==
  /\ pc = "group" /\ mode = "exclusive" /\ last = 0 /\ next = 0
  /\ started = 0 /\ committed = 0
  /\ class = [c \in Calls |-> "none"] /\ body = [c \in Calls |-> "none"]
  /\ inFlight = {}
  /\ aborted = FALSE /\ signal = FALSE /\ failure = FALSE
  /\ results = <<>>

Running == {c \in Calls : body[c] = "running"}

-----------------------------------------------------------------------------
(***************************************************************************)
(* A group starts at the first unconsumed call: alone if the call is       *)
(* exclusive now, with every later call if it is parallel.  Classifying    *)
(* the call may throw.                                                     *)
(***************************************************************************)
OpenGroup ==
  /\ pc = "group"
  /\ \/ /\ next = NumCalls
        /\ pc' = "done" /\ UNCHANGED <<mode, last, aborted>>
     \/ /\ next < NumCalls
        /\ pc' = "failed" /\ UNCHANGED <<mode, last, aborted>>
     \/ /\ next < NumCalls
        /\ mode' \in Modes
        /\ last' = IF mode' = "parallel" THEN NumCalls ELSE next + 1
        /\ aborted' = signal
        /\ pc' = "fill"
  /\ UNCHANGED <<next, started, committed, bodies, signal, failure, results>>

\* A throw inside the group: every body already dispatched settles first.
Fail == pc' = "drain" /\ failure' = TRUE

(***************************************************************************)
(* fillPool(): the next call starts unless the group has seen an abort, is *)
(* exhausted, or its pool is full.  A later call of a pool is classified   *)
(* again: an exclusive one ends the filling and waits for the next group.  *)
(* Classifying or logging the call may throw.                              *)
(***************************************************************************)
HasRoomPlusOne == Cardinality(inFlight) <= MaxParallel   \* mutated form
HasRoom == Cardinality(inFlight) < MaxParallel

StaysInPool(kind) == started = next \/ kind = "parallel"

MayStartAsFirstClassified(kind) == ~aborted /\ started < last /\ HasRoom   \* mutated form
MayStartAborted(kind) == started < last /\ HasRoom /\ StaysInPool(kind)   \* mutated form
MayStart(kind) ==
  /\ ~aborted /\ started < last /\ HasRoom
  /\ StaysInPool(kind)

Fill ==
  /\ pc = "fill"
  /\ \E kind \in IF started = next THEN {mode} ELSE Modes :
       \/ /\ MayStart(kind)
          /\ started' = started + 1
          /\ class' = [class EXCEPT ![started + 1] = kind]
          /\ pc' = "prepare" /\ UNCHANGED failure
       \/ /\ MayStart(kind)
          /\ Fail /\ UNCHANGED <<started, class>>
       \/ /\ ~MayStart(kind)
          /\ pc' = IF inFlight = {} THEN "finish" ELSE "race"
          /\ UNCHANGED <<started, class, failure>>
  /\ UNCHANGED <<group, committed, body, inFlight, aborted, signal, results>>

(***************************************************************************)
(* prepare() settles: it dispatches the body, answers without one, or      *)
(* throws.  The failure of another body meanwhile stops the dispatch.      *)
(***************************************************************************)
DispatchesAnyway == TRUE   \* mutated form
MayDispatch == ~failure

PrepareSettles ==
  /\ pc = "prepare"
  /\ \/ /\ MayDispatch
        /\ body' = [body EXCEPT ![started] = "running"]
        /\ inFlight' = inFlight \cup {started}
        /\ pc' = "commit" /\ UNCHANGED failure
     \/ /\ MayDispatch
        /\ body' = [body EXCEPT ![started] = "filled"]
        /\ pc' = "commit" /\ UNCHANGED <<inFlight, failure>>
     \/ Fail /\ UNCHANGED <<body, inFlight>>
  /\ UNCHANGED <<group, started, committed, class, aborted, signal, results>>

\* A body settles with a result for its slot, or fails the scheduler.
BodySettles(c) ==
  /\ pc # "fill" /\ body[c] = "running"
  /\ \/ body' = [body EXCEPT ![c] = "filled"] /\ UNCHANGED failure
     \/ body' = [body EXCEPT ![c] = "failed"] /\ failure' = TRUE
  /\ UNCHANGED <<pc, group, started, committed, class, inFlight, aborted, signal, results>>

(***************************************************************************)
(* commitReady(): results commit while the next call in model order has a  *)
(* filled slot; finalize() may throw.  Then a failure met meanwhile ends   *)
(* the group, an abort is noticed, and the pool is filled again.           *)
(***************************************************************************)
DueInAnyOrder ==   \* mutated form
  IF \E c \in Calls : body[c] = "filled" /\ \A i \in 1 .. Len(results) : results[i].call # c
  THEN CHOOSE c \in Calls : /\ body[c] = "filled"
                            /\ \A i \in 1 .. Len(results) : results[i].call # c
  ELSE committed + 1
Due == committed + 1

SlotFilled == Due \in Calls /\ Due <= last /\ body[Due] = "filled"

Commit ==
  /\ pc = "commit" /\ SlotFilled
  /\ \/ /\ results' = Append(results, [call |-> Due, kind |-> "result"])
        /\ committed' = committed + 1
        /\ UNCHANGED <<pc, failure>>
     \/ Fail /\ UNCHANGED <<results, committed>>
  /\ UNCHANGED <<group, started, bodies, aborted, signal>>

CommitDone ==
  /\ pc = "commit" /\ ~SlotFilled
  /\ IF failure THEN Fail /\ UNCHANGED aborted
                ELSE /\ aborted' = (aborted \/ signal)
                     /\ pc' = "fill" /\ UNCHANGED failure
  /\ UNCHANGED <<group, started, committed, bodies, signal, results>>

\* The main loop takes one settled body from the race, then commits.
Race ==
  /\ pc = "race"
  /\ \E c \in inFlight \ Running : inFlight' = inFlight \ {c}
  /\ IF failure THEN Fail ELSE pc' = "commit" /\ UNCHANGED failure
  /\ UNCHANGED <<group, started, committed, class, body, aborted, signal, results>>

(***************************************************************************)
(* The group is drained.  After an abort every call not yet started gets a *)
(* call and result pair and nothing more runs; otherwise the next group    *)
(* starts behind the calls this one started.                               *)
(***************************************************************************)
AnswersOverrun(first, kind) ==   \* mutated form
  [i \in 1 .. NumCalls + 2 - first |-> [call |-> first + i - 1, kind |-> kind]]
Answers(first, kind) ==
  [i \in 1 .. NumCalls + 1 - first |-> [call |-> first + i - 1, kind |-> kind]]

ConsumedNothing == next   \* mutated form
Consumed == started

Finish ==
  /\ pc = "finish"
  /\ \/ /\ aborted
        /\ results' = results \o Answers(started + 1, "skipped")
        /\ pc' = "done" /\ UNCHANGED next
     \/ /\ ~aborted
        /\ next' = Consumed
        /\ pc' = "group" /\ UNCHANGED results
  /\ UNCHANGED <<mode, last, started, committed, bodies, aborted, signal, failure>>

\* Promise.allSettled: the failure is rethrown once no body runs.
DrainedAtOnce == TRUE   \* mutated form
Drained == inFlight \cap Running = {}

Drain ==
  /\ pc = "drain" /\ Drained
  /\ pc' = "failed"
  /\ UNCHANGED <<group, started, committed, bodies, aborted, signal, failure, results>>

(***************************************************************************)
(* The step's recovery: the calls without a result get one in model order, *)
(* "outcome unknown" exactly if their tool/call was logged.                *)
(***************************************************************************)
KnownToHaveStartedCommitted(c) == c <= committed   \* mutated form
KnownToHaveStarted(c) == c <= started

Recover ==
  /\ pc = "failed"
  /\ results' = results \o
       [i \in 1 .. NumCalls - committed |->
          [call |-> committed + i,
           kind |-> IF KnownToHaveStarted(committed + i) THEN "outcome-unknown"
                                                         ELSE "not-started"]]
  /\ pc' = "done"
  /\ UNCHANGED <<group, started, committed, bodies, aborted, signal, failure>>

Abort ==
  /\ pc \notin {"fill", "failed", "done"} /\ ~signal
  /\ signal' = TRUE
  /\ UNCHANGED <<pc, group, started, committed, bodies, aborted, failure, results>>

-----------------------------------------------------------------------------
SchedulerStep ==
  \/ OpenGroup \/ Fill \/ PrepareSettles \/ Commit \/ CommitDone \/ Race \/ Finish
  \/ Drain \/ Recover

Next == SchedulerStep \/ (\E c \in Calls : BodySettles(c)) \/ Abort

Spec == Init /\ [][Next]_vars

\* The scheduler goes on, prepare() and finalize() settle, and so does every body.
FairSpec ==
  /\ Spec
  /\ WF_vars(SchedulerStep)
  /\ \A c \in Calls : WF_vars(BodySettles(c))

-----------------------------------------------------------------------------
(***************************************************************************)
(* The log answers the assistant message in model order whatever order the *)
(* bodies settle in, and with exactly one result for each call however the *)
(* scheduler ends: completed, aborted or failed.                           *)
(***************************************************************************)
AnsweredInModelOrder ==
  /\ \A i \in 1 .. Len(results) : results[i].call = i
  /\ pc = "done" => Len(results) = NumCalls

(***************************************************************************)
(* What a result tells the model about its call is true: "skipped" and     *)
(* "not started" calls never ran (they are safe to retry), "result" comes  *)
(* from a body that settled with one.                                      *)
(***************************************************************************)
HonestResults ==
  \A i \in 1 .. Len(results) :
    /\ results[i].kind \in {"skipped", "not-started"} => body[results[i].call] = "none"
    /\ results[i].kind = "result" => body[results[i].call] = "filled"

(***************************************************************************)
(* A body started as exclusive runs alone, although modes are read again   *)
(* while a pool is running.                                                *)
(***************************************************************************)
ExclusiveAlone ==
  \A c, d \in Running : c # d => class[c] = "parallel" /\ class[d] = "parallel"

\* Never more bodies at once than maxParallelToolCalls.
PoolBound == Cardinality(Running) <= MaxParallel

\* What bounds the bodies that run at once: the pool, and the calls that run alone.
PoolDiscipline == PoolBound /\ ExclusiveAlone

(***************************************************************************)
(* No body outlives the execution that started it: the step records its    *)
(* recovery results, and the turn goes on, only when nothing runs.         *)
(***************************************************************************)
NothingOutlives == pc \in {"failed", "done"} => Running = {}

(***************************************************************************)
(* After the abort no call starts, and after a failure nothing is          *)
(* dispatched, wherever the scheduler was waiting when it came.            *)
(***************************************************************************)
NothingStartsLate ==
  [][/\ signal => started' = started
     /\ failure => started' = started /\ Running' \subseteq Running]_vars

\* Every assistant message is answered in the end.
Terminates == <>(pc = "done")
=============================================================================
