--------------------------- MODULE SessionRepair ---------------------------
(***************************************************************************)
(* The durable log of one session across crashes, resumes and forks: the   *)
(* live step appends events, checkpoints make a prefix durable             *)
(* (session-checkpoint-policy), a crash keeps that prefix, and the next    *)
(* process closes the interrupted tail (packages/core/session, repair.ts)  *)
(* before it goes on.  A fork closes the tail of any prefix the same way.  *)
(***************************************************************************)
EXTENDS Naturals, Sequences

CONSTANTS Ids,        \* tool-call identities; later messages may use them again
          MaxCalls,   \* bound on the calls of one message
          MaxEvents,  \* bound on the length of the log
          MaxTurns    \* bound on the turns started

ASSUME SessionRepairConstants ==
  MaxCalls \in Nat /\ MaxEvents \in Nat /\ MaxTurns \in Nat

VARIABLES
  log,      \* events of the running process, or of the disk if none runs
  durable,  \* length of the prefix that is on disk
  live,     \* a process owns the session
  ran       \* history: the top-level calls whose body was started

vars == <<log, durable, live, ran>>

(***************************************************************************)
(* Events.  Turns and steps are numbered from 1.                           *)
(***************************************************************************)
Logged(type, turn, step, id, calls, code) ==
  [type |-> type, turn |-> turn, step |-> step, id |-> id, calls |-> calls, code |-> code]
Event(type, turn, step) == Logged(type, turn, step, "none", <<>>, "none")
Assistant(turn, step, calls) == Logged("assistant/message", turn, step, "none", calls, "none")
Call(turn, step, id) == Logged("tool/call", turn, step, id, <<>>, "none")
Result(turn, step, id, code) == Logged("tool/result", turn, step, id, <<>>, code)
TurnEnd(turn, reason) == Logged("turn/end", turn, 0, "none", <<>>, reason)

Codes == {"none", "answered", "not-started", "outcome-unknown",
          "ended", "interrupted", "forked"}
Types == {"turn/start", "turn/end", "step/start", "step/end", "assistant/message",
          "tool/call", "tool/result", "session/end-seed"}

Events == [type : Types, turn : Nat, step : Nat, id : Ids \cup {"none"},
           calls : Seq(Ids), code : Codes]

TypeOK ==
  /\ log \in Seq(Events)
  /\ durable \in 0 .. Len(log)
  /\ live \in BOOLEAN
  /\ ran \subseteq [turn : Nat, step : Nat, id : Ids]

Init == log = <<>> /\ durable = 0 /\ live = TRUE /\ ran = {}

-----------------------------------------------------------------------------
(***************************************************************************)
(* ToolCallRecovery.observe() and the boundary cursor of openTurnClosers().*)
(* `pending` keeps the insertion order of the Map: setting a key again     *)
(* replaces its entry where it stands.                                     *)
(***************************************************************************)
Fresh == [turn |-> 0, step |-> 0, pending |-> <<>>]

Entry(event, id) == [id |-> id, turn |-> event.turn, step |-> event.step, started |-> FALSE]

Register(pending, entry) ==
  IF \E i \in 1 .. Len(pending) : pending[i].id = entry.id
  THEN [i \in 1 .. Len(pending) |-> IF pending[i].id = entry.id THEN entry ELSE pending[i]]
  ELSE Append(pending, entry)

Registered(pending, event) ==
  LET registered[n \in 0 .. Len(event.calls)] ==
        IF n = 0 THEN pending
        ELSE Register(registered[n - 1], Entry(event, event.calls[n]))
  IN  registered[Len(event.calls)]

\* The entry that a result answers leaves the map, which holds an identity once.
Answering(pending, event) ==
  {i \in 1 .. Len(pending) : /\ pending[i].id = event.id
                            /\ pending[i].turn = event.turn /\ pending[i].step = event.step}
Unanswered(pending, event) ==
  IF Answering(pending, event) = {} THEN pending
  ELSE LET i == CHOOSE i \in Answering(pending, event) : TRUE
       IN  SubSeq(pending, 1, i - 1) \o SubSeq(pending, i + 1, Len(pending))

ObservePending(pending, event) ==
  CASE event.type \in {"turn/start", "turn/end", "step/end"} -> <<>>
    [] event.type = "assistant/message" -> Registered(pending, event)
    [] event.type = "tool/call" ->
         [i \in 1 .. Len(pending) |->
            IF pending[i].id = event.id THEN [pending[i] EXCEPT !.started = TRUE]
                                        ELSE pending[i]]
    [] event.type = "tool/result" -> Unanswered(pending, event)
    [] OTHER -> pending

ObserveTurn(turn, event) ==
  CASE event.type = "turn/start" -> event.turn [] event.type = "turn/end" -> 0
    [] OTHER -> turn
ObserveStepKept(step, event) ==   \* mutated form
  CASE event.type = "step/start" -> event.step [] OTHER -> step
ObserveStep(step, event) ==
  CASE event.type \in {"turn/start", "turn/end", "step/end"} -> 0
    [] event.type = "step/start" -> event.step
    [] OTHER -> step

Observe(state, event) ==
  [turn    |-> ObserveTurn(state.turn, event),
   step    |-> ObserveStep(state.step, event),
   pending |-> ObservePending(state.pending, event)]

Scanned(events) ==
  LET scanned[n \in 0 .. Len(events)] ==
        IF n = 0 THEN Fresh ELSE Observe(scanned[n - 1], events[n])
  IN  scanned[Len(events)]

(***************************************************************************)
(* results(): one error result for each pending call, in assistant order;  *)
(* then the closers of an open tail turn.                                  *)
(***************************************************************************)
RecoveryCodeRetry(entry) == "not-started"   \* mutated form
RecoveryCode(entry) == IF entry.started THEN "outcome-unknown" ELSE "not-started"

RecoveryResults(pending) ==
  [i \in 1 .. Len(pending) |->
     Result(pending[i].turn, pending[i].step, pending[i].id, RecoveryCode(pending[i]))]

Closers(events, cause) ==
  LET open == Scanned(events) IN
  IF open.turn = 0 THEN <<>>
  ELSE RecoveryResults(open.pending)
       \o (IF open.step = 0 THEN <<>> ELSE <<Event("step/end", open.turn, open.step)>>)
       \o <<TurnEnd(open.turn, cause)>>

\* buildForkSeed(): the inherited prefix, its marker, and the closers of its tail.
ForkSeed(events, boundary) ==
  LET inherited == SubSeq(events, 1, boundary) \o <<Event("session/end-seed", 0, 0)>>
  IN  inherited \o Closers(inherited, "forked")

-----------------------------------------------------------------------------
(***************************************************************************)
(* The live process appends in the order of AgentLoop and ToolScheduler;   *)
(* its failed step records the recovery results itself.                    *)
(***************************************************************************)
Open == Scanned(log)

\* Turns go on from the last one started in the log, steps from the last of the turn.
LastStart(starts) == CHOOSE i \in starts : \A j \in starts : j <= i
LastTurn ==
  LET starts == {i \in 1 .. Len(log) : log[i].type = "turn/start"}
  IN  IF starts = {} THEN 0 ELSE log[LastStart(starts)].turn
LastStep ==
  LET starts == {i \in 1 .. Len(log) : log[i].type = "step/start" /\ log[i].turn = Open.turn}
  IN  IF starts = {} THEN 0 ELSE log[LastStart(starts)].step
LastType == IF log = <<>> THEN "none" ELSE log[Len(log)].type

Log(events) ==
  /\ live /\ Len(log) + Len(events) <= MaxEvents
  /\ log' = log \o events
  /\ UNCHANGED <<durable, live, ran>>

StartTurn == Open.turn = 0 /\ LastTurn < MaxTurns /\ Log(<<Event("turn/start", LastTurn + 1, 0)>>)

\* agent/pre-step and llm/stream wait for everything logged to be durable.
StartStep ==
  /\ Open.turn # 0 /\ Open.step = 0 /\ durable = Len(log)
  /\ Log(<<Event("step/start", Open.turn, LastStep + 1)>>)

Distinct(calls) == \A i, j \in 1 .. Len(calls) : calls[i] = calls[j] => i = j
Messages == {calls \in UNION {[1 .. n -> Ids] : n \in 0 .. MaxCalls} : Distinct(calls)}

AssistantMessage ==
  /\ LastType = "step/start" /\ durable = Len(log)
  /\ \E calls \in Messages : Log(<<Assistant(Open.turn, Open.step, calls)>>)

\* Calls start, and results commit, in model order.
ToolCall ==
  \E i \in 1 .. Len(Open.pending) :
    /\ ~Open.pending[i].started
    /\ \A j \in 1 .. i - 1 : Open.pending[j].started
    /\ Log(<<Call(Open.turn, Open.step, Open.pending[i].id)>>)

ToolResult ==
  /\ Open.pending # <<>> /\ Open.pending[1].started
  /\ Log(<<Result(Open.turn, Open.step, Open.pending[1].id, "answered")>>)

EndStep ==
  /\ Open.step # 0 /\ Open.pending = <<>> /\ LastType # "step/start"
  /\ Log(<<Event("step/end", Open.turn, Open.step)>>)

FailStep ==
  /\ Open.step # 0
  /\ Log(Append(RecoveryResults(Open.pending), Event("step/end", Open.turn, Open.step)))

EndTurn == Open.turn # 0 /\ Open.step = 0 /\ Log(<<TurnEnd(Open.turn, "ended")>>)

(***************************************************************************)
(* tools/execute: the body of a top-level call starts behind a checkpoint  *)
(* that covers its tool/call.                                              *)
(***************************************************************************)
CheckpointSkipped(seq) == TRUE   \* mutated form
Checkpointed(seq) == seq <= durable

RunBody ==
  \E seq \in 1 .. Len(log) :
    /\ live /\ log[seq].type = "tool/call" /\ Checkpointed(seq)
    /\ log[seq].turn = Open.turn /\ log[seq].step = Open.step
    /\ \E i \in 1 .. Len(Open.pending) : Open.pending[i].id = log[seq].id
    /\ ran' = ran \cup {[turn |-> Open.turn, step |-> Open.step, id |-> log[seq].id]}
  /\ UNCHANGED <<log, durable, live>>

\* An append batch becomes durable, complete lines first.
Persist ==
  /\ live /\ durable' \in durable + 1 .. Len(log)
  /\ UNCHANGED <<log, live, ran>>

SurvivesLessOne == SubSeq(log, 1, durable - 1)   \* mutated form
Survives == SubSeq(log, 1, durable)

Crash ==
  /\ live
  /\ log' = Survives
  /\ live' = FALSE
  /\ UNCHANGED <<durable, ran>>

(***************************************************************************)
(* resumeWith(): the closers are appended as one batch before the session  *)
(* is published; a crash meanwhile leaves any part of the batch on disk.   *)
(***************************************************************************)
Resume ==
  /\ ~live
  /\ LET closers == Closers(log, "interrupted") IN
     /\ log' = log \o closers
     /\ durable' = Len(log')
  /\ live' = TRUE
  /\ UNCHANGED ran

CrashWhileResuming ==
  /\ ~live
  /\ LET closers == Closers(log, "interrupted") IN
     \E n \in 1 .. Len(closers) : log' = log \o SubSeq(closers, 1, n)
  /\ durable' = Len(log')
  /\ UNCHANGED <<live, ran>>

(***************************************************************************)
(* A fork is followed into the child, which inherits what the prefix knows *)
(* to have run; its seed is materialised as a whole.                       *)
(***************************************************************************)
Fork ==
  /\ live
  /\ \E boundary \in 1 .. Len(log) :
       /\ log' = ForkSeed(log, boundary)
       /\ Len(log') <= MaxEvents
       /\ ran' = {r \in ran : \E i \in 1 .. boundary :
                    log[i] = Call(r.turn, r.step, r.id)}
  /\ durable' = Len(log')
  /\ UNCHANGED live

Next ==
  \/ StartTurn \/ StartStep \/ AssistantMessage \/ ToolCall \/ ToolResult \/ EndStep
  \/ FailStep \/ EndTurn \/ RunBody \/ Persist \/ Crash \/ Resume \/ CrashWhileResuming
  \/ Fork

Spec == Init /\ [][Next]_vars

-----------------------------------------------------------------------------
(***************************************************************************)
(* Well-formed history, stated on positions and not on the scan: balanced  *)
(* boundaries with matching numbers, and inside every step one result for  *)
(* each call of its message, in the message's order.                       *)
(***************************************************************************)
Boundaries == {"turn/start", "turn/end", "step/start", "step/end"}

Follows(e, f) ==
  CASE e.type \in {"turn/start", "step/end"} ->
         f.type \in {"step/start", "turn/end"} /\ f.turn = e.turn
    [] e.type = "step/start" -> f.type = "step/end" /\ f.turn = e.turn /\ f.step = e.step
    [] e.type = "turn/end" -> f.type = "turn/start" /\ f.turn = e.turn + 1

Balanced(events) ==
  LET at == {i \in 1 .. Len(events) : events[i].type \in Boundaries} IN
  /\ \A i \in at : (\A j \in at : i <= j) => events[i].type = "turn/start"
  /\ \A i \in at : (\A j \in at : j <= i) => events[i].type = "turn/end"
  /\ \A i, j \in at : i < j /\ (\A k \in at : k <= i \/ j <= k) => Follows(events[i], events[j])

\* Where the log holds the events of one type of the step that `start` opened.
InStep(events, start, type) ==
  {j \in 1 .. Len(events) : /\ events[j].type = type
                           /\ events[j].turn = start.turn /\ events[j].step = start.step}

\* place[n] is where the n-th call of the message got its result.
Matches(events, calls, given) ==
  \E place \in [1 .. Len(calls) -> given] :
    /\ given = {place[n] : n \in 1 .. Len(calls)}
    /\ \A n \in 1 .. Len(calls) : events[place[n]].id = calls[n]
    /\ \A m, n \in 1 .. Len(calls) : m < n => place[m] < place[n]

Answered(events, start) ==
  LET asked == InStep(events, start, "assistant/message")
      given == InStep(events, start, "tool/result")
  IN  IF asked = {} THEN given = {}
      ELSE \E m \in asked : asked = {m} /\ Matches(events, events[m].calls, given)

WellFormed(events) ==
  /\ Balanced(events)
  /\ \A i \in 1 .. Len(events) :
       events[i].type = "step/start" => Answered(events, events[i])

(***************************************************************************)
(* Whatever prefix of the log a crash leaves or a fork inherits, its       *)
(* closers make it well-formed history for every reader and provider, and  *)
(* a closed log needs no closing.                                          *)
(***************************************************************************)
RepairCompletes ==
  \A k \in 0 .. Len(log) :
    LET cut == SubSeq(log, 1, k)
        resumed == cut \o Closers(cut, "interrupted")
    IN  /\ WellFormed(resumed) /\ Closers(resumed, "interrupted") = <<>>
        /\ k > 0 => WellFormed(ForkSeed(log, k))

(***************************************************************************)
(* A crash while the closers are written is repaired into the same         *)
(* history the first repair was writing.                                   *)
(***************************************************************************)
RepairConverges ==
  LET closers == Closers(log, "interrupted") IN
  \A k \in 0 .. Len(closers) :
    LET partial == log \o SubSeq(closers, 1, k)
    IN  partial \o Closers(partial, "interrupted") = log \o closers

\* Every cut of the log can be repaired, and a cut of the repair to the same history.
RepairInv == TypeOK /\ RepairCompletes /\ RepairConverges

(***************************************************************************)
(* A recovery result tells the model the truth about the record: "outcome  *)
(* unknown" exactly when the log holds the start of that call of that      *)
(* step, an identity used again in a later step notwithstanding.           *)
(***************************************************************************)
HonestRecovery ==
  \A j \in 1 .. Len(log) :
    LET recorded == \E i \in 1 .. j - 1 : log[i] = Call(log[j].turn, log[j].step, log[j].id)
    IN  /\ log[j].code = "outcome-unknown" => recorded
        /\ log[j].code = "not-started" => ~recorded

(***************************************************************************)
(* No crash makes the log say of a call that it was not started, and may   *)
(* be retried, when its body had been started.                             *)
(***************************************************************************)
StartedNeverDenied ==
  \A j \in 1 .. Len(log) :
    log[j].code = "not-started" =>
      [turn |-> log[j].turn, step |-> log[j].step, id |-> log[j].id] \notin ran
=============================================================================
