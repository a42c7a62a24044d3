----------------------------- MODULE AgentLoop -----------------------------
(***************************************************************************)
(* ReactLoopAgent (packages/core/agent-loop): one agent's driver, its      *)
(* phases, its inbox and its turn and step boundaries, with everything     *)
(* that may interleave with it: messages sent, pending work removed,       *)
(* cancellation, maintenance jobs, whenIdle() callers and disposal.        *)
(*                                                                         *)
(* JavaScript runs one call stack at a time.  `stack` is that stack: the   *)
(* driver is on it while it runs synchronously (its listeners may call     *)
(* back into the agent, and the inner call finishes first) and off it      *)
(* while it awaits.  A settled await continues only on an empty stack.     *)
(***************************************************************************)
EXTENDS Inbox, FiniteSets

CONSTANTS
  NumMessages,  \* messages that can be sent; message m is the m-th one sent
  MaxToolSteps, \* bound: only these first steps of a turn may owe another request
  MaxJobs,      \* bound: maintenance jobs started
  MaxDepth,     \* bound: nesting of calls made by listeners
  LastTurn,     \* turns already in the log of a resumed session
  Waiters       \* whenIdle() callers, disposal's own one excluded

ASSUME AgentLoopConstants ==
  /\ NumMessages \in Nat /\ MaxToolSteps \in Nat /\ MaxJobs \in Nat
  /\ MaxDepth \in Nat /\ LastTurn \in Nat
  /\ "dispose" \notin Waiters

VARIABLES
  phase,      \* idle, maintenance or running, with its abort signal and latch
  pc,         \* where the driver is
  stack,      \* the call stack, innermost call last
  inbox,      \* the two pending-message lists
  batch,      \* messages of the proposed or open step, claimed or rewritten
  decision,   \* what agent/pre-step decided
  fresh,      \* no attempt of this step has begun to log its messages yet
  unlogged,   \* messages of the batch this attempt has still to log
  outcome,    \* how the step ended: "none" while tools owe another request
  turnEnds,   \* the turn's ending so far
  log,        \* projection of the session log: open boundaries and debts
  activity,   \* identity of the promise in activityDone
  settled,    \* activities whose promise has resolved
  waiting,    \* the activity each whenIdle() caller awaits, or none
  disposal,   \* how far dispose() is
  jobs,       \* maintenance jobs started
  sent,       \* messages sent so far
  list,       \* list each message was first inserted in
  delivered,  \* user messages in the log, with their turn
  left        \* history: what each message's wake was left to

driverVars == <<pc, batch, decision, fresh, outcome, turnEnds, log, unlogged, delivered>>
waitVars == <<settled, waiting, disposal>>
inputVars == <<jobs, sent, list, left>>
vars == <<phase, stack, inbox, activity, driverVars, waitVars, inputVars>>

Messages == 1 .. NumMessages
Causes == {"user", "disposed"}  \* "user" stands for user, parent and hook alike
Endings == {"none", "completed", "max-tokens", "blocked", "aborted", "error"}
None == -1

AwaitPcs == {"none", "turn-again", "pre-step", "decided", "request", "prepared", "stream",
             "request-error", "tools", "step-end", "stopping", "retire"}
StackPcs == {"turn", "opened", "admitting", "after-step", "caught", "reported", "drained"}

Frames == [op : {"wake"}, afterAbort : BOOLEAN, message : Messages]
     \cup [op : {"cancel"}, list : Targets \cup {"none"}, cause : Causes]
     \cup [op : {"driver"}]
     \cup [op : {"retire"}, wake : BOOLEAN, activity : Nat]

Phases == [kind : {"idle", "maintenance", "running"}, turn : Nat, step : Nat,
           abort : Causes \cup {"live"}, wake : BOOLEAN]

TypeOK ==
  /\ phase \in Phases
  /\ pc \in AwaitPcs \cup StackPcs
  /\ stack \in Seq(Frames)
  /\ inbox \in [Targets -> Seq(Messages)]
  /\ batch \in Seq(Messages)
  /\ decision \in {"none", "reject", "empty", "enter"}
  /\ fresh \in BOOLEAN
  /\ unlogged \in Seq(Messages)
  /\ outcome \in {"none", "completed", "max-tokens"}
  /\ turnEnds \in Endings
  /\ log \in [turn : Nat, step : Nat, open : {"none", "turn", "step"},
              unanswered : BOOLEAN, owed : BOOLEAN, ending : Endings]
  /\ activity \in Nat
  /\ settled \subseteq Nat
  /\ waiting \in [Waiters \cup {"dispose"} -> Nat \cup {None}]
  /\ disposal \in {"none", "cancelling", "waiting", "closing", "done"}
  /\ jobs \in Nat
  /\ sent \in 0 .. NumMessages
  /\ list \in [Messages -> Targets \cup {"none"}]
  /\ delivered \in Seq([message : Messages, turn : Nat])
  /\ left \in [Messages -> {"none", "driver", "latch"}]

Idle(turn) ==
  [kind |-> "idle", turn |-> turn, step |-> 0, abort |-> "live", wake |-> FALSE]

Active(kind, turn) == [Idle(turn) EXCEPT !.kind = kind]

Aborted == phase.abort # "live"

Init ==
  /\ phase = Idle(LastTurn) /\ pc = "none" /\ stack = <<>>
  /\ inbox = EmptyInbox /\ batch = <<>> /\ decision = "none" /\ fresh = FALSE
  /\ unlogged = <<>> /\ outcome = "none" /\ turnEnds = "none"
  /\ log = [turn |-> LastTurn, step |-> 0, open |-> "none",
            unanswered |-> FALSE, owed |-> FALSE, ending |-> "none"]
  /\ activity = 0 /\ settled = {0}
  /\ waiting = [w \in Waiters \cup {"dispose"} |-> None]
  /\ disposal = "none" /\ jobs = 0 /\ sent = 0
  /\ list = [m \in Messages |-> "none"] /\ delivered = <<>>
  /\ left = [m \in Messages |-> "none"]

-----------------------------------------------------------------------------
(***************************************************************************)
(* The call stack.  A listener of an inbox notification, of agent/status   *)
(* or of agent/error may call anything.  A listener of session/event runs  *)
(* while an append is being published, which rejects a nested append, so   *)
(* it can only make calls that log nothing.                                *)
(***************************************************************************)
Push(s, frame) == Append(s, frame)
Pop(s) == SubSeq(s, 1, Len(s) - 1)
OnTop(op) == stack # <<>> /\ stack[Len(stack)].op = op
Driver == [op |-> "driver"]

\* The model follows the agent until dispose() has taken it off the registries.
Attached == disposal # "done"

Callable == Len(stack) < MaxDepth /\ Attached
Resumed == stack = <<>> /\ Attached   \* an await continues
Publishing == OnTop("driver") /\ pc \notin {"turn", "reported"}
MayLog == Callable /\ ~Publishing

-----------------------------------------------------------------------------
(***************************************************************************)
(* wakeDriver(): an idle agent starts a driver; maintenance and aborted    *)
(* drivers latch the wake for their convergence, unless disposal aborted   *)
(* them; a live driver is left to claim the work itself.                   *)
(***************************************************************************)
StartDriver(turn, rest) ==
  /\ activity' = activity + 1
  /\ phase' = Active("running", turn)
  /\ pc' = "turn"
  /\ stack' = Push(rest, Driver)

LatchesWhileLive(afterAbort) == phase.abort # "disposed"   \* mutated form
LatchesDisposed(afterAbort) == phase.kind = "maintenance" \/ afterAbort   \* mutated form
Latches(afterAbort) ==
  /\ phase.abort # "disposed"
  /\ phase.kind = "maintenance" \/ afterAbort

WakeDriver(afterAbort, rest) ==
  \/ phase.kind = "idle" /\ StartDriver(phase.turn, rest)
  \/ /\ phase.kind # "idle"
     /\ phase' = [phase EXCEPT !.wake = @ \/ Latches(afterAbort)]
     /\ stack' = rest
     /\ UNCHANGED <<pc, activity>>

(***************************************************************************)
(* send(): whether the activity is aborted is read before the insertion,   *)
(* whose listeners may cancel; the wake happens after it.                  *)
(***************************************************************************)
Send(target, wakeup) ==
  LET message == sent + 1
      afterAbort == wakeup /\ Aborted
      resolved == IF afterAbort THEN "next-turn" ELSE target
  IN  /\ MayLog
      /\ sent < NumMessages
      /\ sent' = message
      /\ list' = [list EXCEPT ![message] = resolved]
      /\ inbox' = Inserted(inbox, resolved, message)
      /\ stack' = IF wakeup
                  THEN Push(stack, [op |-> "wake", afterAbort |-> afterAbort,
                                    message |-> message])
                  ELSE stack
      /\ UNCHANGED <<phase, activity, driverVars, waitVars, jobs, left>>

Wake ==
  LET frame == stack[Len(stack)] IN
  /\ OnTop("wake")
  /\ WakeDriver(frame.afterAbort, Pop(stack))
  /\ left' = [left EXCEPT ![frame.message] =
                CASE phase.kind = "running" /\ ~Aborted -> "driver"
                  [] phase.kind # "idle" /\ Latches(frame.afterAbort) -> "latch"
                  [] OTHER -> @]
  /\ UNCHANGED <<inbox, batch, decision, fresh, outcome, turnEnds, log, unlogged, delivered,
                 waitVars, jobs, sent, list>>

\* inbox.remove(): the message is discarded wherever it is pending.
Remove(message) ==
  /\ MayLog
  /\ message \in Pending(inbox)
  /\ inbox' = Without(inbox, message)
  /\ UNCHANGED <<phase, stack, activity, driverVars, waitVars, inputVars>>

(***************************************************************************)
(* cancel(): clears next-step, then next-turn, each with its listeners,    *)
(* then drops the latch and aborts; the first cause wins.  keepInbox skips *)
(* to the abort.                                                           *)
(***************************************************************************)
AbortCleared(cause) == IF phase.kind # "idle" /\ ~Aborted THEN cause ELSE "none"   \* mutated form
Abort(cause) == IF phase.kind # "idle" /\ ~Aborted THEN cause ELSE phase.abort

\* dispose() goes on behind its cancel: it calls whenIdle().
AwaitIdle ==
  /\ disposal' = "waiting"
  /\ waiting' = [waiting EXCEPT !["dispose"] = activity]

FinishCancel(cause, rest) ==
  /\ phase' = [phase EXCEPT !.wake = FALSE, !.abort = Abort(cause)]
  /\ stack' = rest
  /\ UNCHANGED inbox
  /\ IF cause = "disposed" THEN AwaitIdle ELSE UNCHANGED <<disposal, waiting>>

ClearList(target, next, cause, rest) ==
  /\ inbox[target] # <<>>
  /\ inbox' = [inbox EXCEPT ![target] = <<>>]
  /\ stack' = Push(rest, [op |-> "cancel", list |-> next, cause |-> cause])
  /\ disposal' = IF cause = "disposed" THEN "cancelling" ELSE disposal
  /\ UNCHANGED <<phase, waiting>>

ClearTurns(cause, rest) ==
  \/ ClearList("next-turn", "none", cause, rest)
  \/ inbox["next-turn"] = <<>> /\ FinishCancel(cause, rest)

CancelAll(cause) ==
  \/ ClearList("next-step", "next-turn", cause, stack)
  \/ inbox["next-step"] = <<>> /\ ClearTurns(cause, stack)

Cancel(cause) ==
  /\ Callable /\ (Publishing => ~HasPending(inbox))
  /\ CancelAll(cause)
  /\ UNCHANGED <<activity, driverVars, settled, inputVars>>

CancelStep ==
  LET frame == stack[Len(stack)] IN
  /\ OnTop("cancel")
  /\ IF frame.list = "next-turn" THEN ClearTurns(frame.cause, Pop(stack))
                                 ELSE FinishCancel(frame.cause, Pop(stack))
  /\ UNCHANGED <<activity, driverVars, settled, inputVars>>

\* A failing creation job, itself a maintenance job, cancels as disposed.
CancelKeepInbox(cause) ==
  /\ Callable
  /\ phase.kind # "idle" /\ ~Aborted
  /\ cause = "disposed" => phase.kind = "maintenance" /\ stack = <<>>
  /\ phase' = [phase EXCEPT !.abort = cause]
  /\ UNCHANGED <<stack, inbox, activity, driverVars, waitVars, inputVars>>

\* The promise of a driver or of a job resolves, whatever its outcome was.
ResolvedUnlessFailed(id) ==   \* mutated form
  IF log.ending = "error" THEN settled ELSE settled \cup {id}
Resolved(id) == settled \cup {id}

\* The latched wake is replayed if the inbox still holds work.
NeverReplayed(wake) == FALSE   \* mutated form
ReplayDue(wake) == wake /\ HasPending(inbox)

(***************************************************************************)
(* runMaintenance(): a job owns the idle agent until it settles; then the  *)
(* wake latched behind it is replayed if the inbox still holds work.       *)
(***************************************************************************)
RunMaintenance ==
  /\ Callable /\ phase.kind = "idle" /\ jobs < MaxJobs
  /\ phase' = Active("maintenance", phase.turn)
  /\ activity' = activity + 1
  /\ jobs' = jobs + 1
  /\ UNCHANGED <<stack, inbox, driverVars, waitVars, sent, list, left>>

JobSettles ==
  /\ phase.kind = "maintenance" /\ Resumed
  /\ settled' = Resolved(activity)
  /\ IF phase.abort # "disposed" /\ ReplayDue(phase.wake)
     THEN StartDriver(phase.turn, <<>>)
     ELSE phase' = Idle(phase.turn) /\ UNCHANGED <<activity, pc, stack>>
  /\ UNCHANGED <<inbox, batch, decision, fresh, outcome, turnEnds, log, unlogged, delivered,
                 waiting, disposal, inputVars>>

(***************************************************************************)
(* whenIdle(): follow activityDone until it is the promise that settled.   *)
(***************************************************************************)
WhenIdle(w) ==
  /\ Callable /\ waiting[w] = None
  /\ waiting' = [waiting EXCEPT ![w] = activity]
  /\ UNCHANGED <<phase, stack, inbox, activity, driverVars, settled, disposal, inputVars>>

Observed(w) == stack = <<>> /\ waiting[w] # None /\ waiting[w] \in settled

QuiescentAtOnce(w) == TRUE   \* mutated form
Quiescent(w) == waiting[w] = activity

FollowActivity(w) ==
  /\ Observed(w) /\ ~Quiescent(w)
  /\ waiting' = [waiting EXCEPT ![w] = activity]
  /\ UNCHANGED <<phase, stack, inbox, activity, driverVars, settled, disposal, inputVars>>

Quiesce(w) ==
  /\ Observed(w) /\ Quiescent(w)
  /\ waiting' = [waiting EXCEPT ![w] = None]
  /\ disposal' = IF w = "dispose" THEN "done" ELSE disposal
  /\ UNCHANGED <<phase, stack, inbox, activity, driverVars, settled, inputVars>>

(***************************************************************************)
(* dispose() of a published agent runs in its caller, a listener perhaps:  *)
(* it cancels as disposed, awaits whenIdle() and leaves the registries.    *)
(* Inside an append that is being published (the driver's, or any splice)  *)
(* a cancel that has a list to clear throws: dispose() keeps the failure,  *)
(* skips abort and wait, closes the handle and leaves all the same.        *)
(***************************************************************************)
Dispose ==
  /\ Callable /\ (Publishing => ~HasPending(inbox))
  /\ disposal = "none"
  /\ CancelAll("disposed")
  /\ UNCHANGED <<activity, driverVars, settled, inputVars>>

DisposeRejected ==
  /\ Callable /\ HasPending(inbox)
  /\ disposal = "none"
  /\ disposal' = "closing"
  /\ UNCHANGED <<phase, stack, inbox, activity, driverVars, settled, waiting, inputVars>>

Detach ==
  /\ disposal = "closing" /\ stack = <<>>
  /\ disposal' = "done"
  /\ UNCHANGED <<phase, stack, inbox, activity, driverVars, settled, waiting, inputVars>>

-----------------------------------------------------------------------------
(***************************************************************************)
(* The driver: kick(), turn() and step().  Effects first: closing the turn *)
(* (its exits differ in whether the queue is looked at again), a throw     *)
(* caught by the turn, a throw leaving the step, the claim of one step.    *)
(***************************************************************************)
OtherVars == <<activity, waitVars, inputVars>>

\* turn/end; "drained" looks at the queue, "retire" unwinds to the driver.
CloseTurn(ending, at, rest) ==
  /\ log' = [log EXCEPT !.open = "none", !.ending = ending]
  /\ turnEnds' = ending
  /\ pc' = at
  /\ stack' = rest
  /\ batch' = <<>> /\ decision' = "none"

\* catch: the abort cause decides the ending; an error is reported first.
Catch(rest) ==
  \/ Aborted /\ CloseTurn("aborted", "retire", rest)
  \/ /\ ~Aborted
     /\ turnEnds' = "error" /\ pc' = "reported" /\ stack' = Push(rest, Driver)
     /\ batch' = <<>> /\ decision' = "none"
     /\ UNCHANGED log

\* A throw inside the step: missing results are recorded, the step closed.
ClosedUnanswered(l) == [l EXCEPT !.open = "turn"]   \* mutated form
ClosedRecovered(l) == [l EXCEPT !.open = "turn", !.unanswered = FALSE]

FailStep(rest) ==
  /\ log' = ClosedRecovered(log)
  /\ pc' = "caught"
  /\ stack' = Push(rest, Driver)

Claim(target, rest) ==
  \/ Aborted /\ Catch(rest) /\ UNCHANGED inbox
  \/ /\ ~Aborted
     /\ batch' = Batch(inbox, target)
     /\ inbox' = Unclaimed(inbox, target)
     /\ pc' = "pre-step" /\ stack' = rest
     /\ UNCHANGED <<log, turnEnds, decision>>

StartTurn ==
  /\ \/ pc = "turn" /\ OnTop("driver")
     \/ pc = "turn-again" /\ Resumed
  /\ LET rest == IF pc = "turn" THEN Pop(stack) ELSE <<>> IN
     \/ /\ Aborted
        /\ pc' = "retire" /\ stack' = rest
        /\ UNCHANGED <<phase, log, turnEnds>>
     \/ /\ ~Aborted
        /\ phase' = [phase EXCEPT !.turn = @ + 1]
        /\ log' = [log EXCEPT !.turn = phase.turn + 1, !.step = 0, !.open = "turn",
                              !.owed = FALSE]
        /\ turnEnds' = "none"
        /\ pc' = "opened" /\ stack' = Push(rest, Driver)
  /\ UNCHANGED <<inbox, batch, decision, fresh, outcome, unlogged, delivered, OtherVars>>

ClaimTurn ==
  /\ pc = "opened" /\ OnTop("driver")
  /\ Claim("next-turn", Pop(stack))
  /\ UNCHANGED <<phase, fresh, outcome, unlogged, delivered, OtherVars>>

(***************************************************************************)
(* preStep() settles: assembly or a listener fails, or the listeners       *)
(* reject the step or enter it with messages (the claimed ones, others, or *)
(* none).  The turn goes on one microtask later.                           *)
(***************************************************************************)
PreStepSettles ==
  /\ pc = "pre-step" /\ Resumed
  /\ \/ Catch(<<>>)
     \/ /\ ~Aborted
        /\ decision' \in {"reject", "empty", "enter"}
        /\ batch' \in IF decision' = "enter" THEN {batch, <<>>} ELSE {<<>>}
        /\ pc' = "decided"
        /\ UNCHANGED <<stack, log, turnEnds>>
  /\ UNCHANGED <<phase, inbox, fresh, outcome, unlogged, delivered, OtherVars>>

EnterStep ==
  /\ pc = "decided" /\ Resumed
  /\ \/ /\ decision = "reject"
        /\ CloseTurn("blocked", "retire", <<>>)
        /\ UNCHANGED <<phase, fresh>>
     \/ /\ decision = "empty" /\ turnEnds # "none"
        /\ CloseTurn(turnEnds, "drained", <<Driver>>)
        /\ UNCHANGED <<phase, fresh>>
     \/ /\ decision = "empty" /\ turnEnds = "none" /\ phase.step = 0
        /\ CloseTurn("completed", "retire", <<>>)
        /\ UNCHANGED <<phase, fresh>>
     \/ /\ \/ decision = "enter"
           \/ decision = "empty" /\ turnEnds = "none" /\ phase.step > 0
        /\ \/ Aborted /\ Catch(<<>>) /\ UNCHANGED <<phase, fresh>>
           \/ /\ ~Aborted
              /\ phase' = [phase EXCEPT !.step = @ + 1]
              /\ log' = [log EXCEPT !.step = phase.step + 1, !.open = "step"]
              /\ fresh' = TRUE /\ decision' = "none"
              /\ pc' = "request"
              /\ UNCHANGED <<stack, batch, turnEnds>>
  /\ UNCHANGED <<inbox, outcome, unlogged, delivered, OtherVars>>

(***************************************************************************)
(* prepareRequest() awaits agent/request and prepareCall, with a look at   *)
(* the signal behind each; the step goes on one microtask later and does   *)
(* not look again before it has logged its system messages, the batch (by  *)
(* its first attempt only) and the request header.  The observers of each  *)
(* of these appends may cancel.                                            *)
(***************************************************************************)
PreparedUnchecked == TRUE   \* mutated form
Prepared == ~Aborted

RequestSettles ==
  /\ pc = "request" /\ Resumed
  /\ \/ FailStep(<<>>)
     \/ Prepared /\ pc' = "prepared" /\ UNCHANGED <<stack, log>>
  /\ UNCHANGED <<phase, inbox, batch, decision, fresh, outcome, turnEnds, unlogged, delivered,
                 OtherVars>>

ToLogEachAttempt(first) == batch   \* mutated form
ToLog(first) == IF first THEN batch ELSE <<>>

\* No system message to log is the same as one whose observers do nothing.
BeginAdmission ==
  /\ pc = "prepared" /\ Resumed
  /\ unlogged' = ToLog(fresh)
  /\ fresh' = FALSE
  /\ pc' = "admitting" /\ stack' = <<Driver>>
  /\ UNCHANGED <<phase, inbox, batch, decision, outcome, turnEnds, log, delivered, OtherVars>>

Entry(message) == [message |-> message, turn |-> phase.turn]

AdmittedWhileLive(message) ==   \* mutated form
  IF Aborted THEN delivered ELSE Append(delivered, Entry(message))
Admitted(message) == Append(delivered, Entry(message))

AdmitMessage ==
  /\ pc = "admitting" /\ OnTop("driver") /\ unlogged # <<>>
  /\ delivered' = Admitted(Head(unlogged))
  /\ unlogged' = Tail(unlogged)
  /\ UNCHANGED <<phase, pc, stack, inbox, batch, decision, fresh, outcome, turnEnds, log,
                 OtherVars>>

OpenStream ==
  /\ pc = "admitting" /\ OnTop("driver") /\ unlogged = <<>>
  /\ \/ FailStep(Pop(stack))
     \/ /\ ~Aborted
        /\ pc' = "stream" /\ stack' = Pop(stack)
        /\ UNCHANGED log
  /\ UNCHANGED <<phase, inbox, batch, decision, fresh, outcome, turnEnds, unlogged, delivered,
                 OtherVars>>

(***************************************************************************)
(* The stream ends: cut short (its prefix or its attempt is logged), with  *)
(* a failed finish, or with an assistant message that was truncated, is    *)
(* final, or calls tools.                                                  *)
(***************************************************************************)
StreamSettles ==
  /\ pc = "stream" /\ Resumed
  /\ \/ FailStep(<<>>) /\ UNCHANGED outcome
     \/ /\ ~Aborted
        /\ pc' = "request-error"
        /\ UNCHANGED <<stack, log, outcome>>
     \/ /\ ~Aborted
        /\ outcome' \in {"completed", "max-tokens"}
        /\ log' = [log EXCEPT !.owed = FALSE]
        /\ pc' = "step-end"
        /\ UNCHANGED stack
     \/ /\ ~Aborted
        /\ log' = [log EXCEPT !.owed = FALSE, !.unanswered = TRUE]
        /\ pc' = "tools"
        /\ UNCHANGED <<stack, outcome>>
  /\ UNCHANGED <<phase, inbox, batch, decision, fresh, turnEnds, unlogged, delivered, OtherVars>>

\* agent/request-error decides between another attempt and a failed step.
RequestErrorSettles ==
  /\ pc = "request-error" /\ Resumed
  /\ \/ FailStep(<<>>)
     \/ ~Aborted /\ pc' = "request" /\ UNCHANGED <<stack, log>>
  /\ UNCHANGED <<phase, inbox, batch, decision, fresh, outcome, turnEnds, unlogged, delivered,
                 OtherVars>>

(***************************************************************************)
(* executeToolCalls() returns with every call answered, aborted or not, or *)
(* throws and leaves the missing results to the step.  A result may        *)
(* conclude the turn; otherwise the model owes a response to the results.  *)
(* A context a tool adds to next-step is a Send that does not wake.        *)
(***************************************************************************)
ToolsSettle ==
  /\ pc = "tools" /\ Resumed
  /\ \/ FailStep(<<>>) /\ UNCHANGED outcome
     \/ \E concluded \in BOOLEAN :
          /\ concluded \/ Aborted \/ phase.step <= MaxToolSteps
          /\ outcome' = IF concluded THEN "completed" ELSE "none"
          /\ log' = [log EXCEPT !.unanswered = FALSE, !.owed = ~concluded]
          /\ pc' = "step-end"
          /\ UNCHANGED stack
  /\ UNCHANGED <<phase, inbox, batch, decision, fresh, turnEnds, unlogged, delivered, OtherVars>>

\* max-tokens is sticky: a later step does not change the turn's ending.
FirstEndingWins(ending, stepEnd) == IF ending # "none" THEN ending ELSE stepEnd   \* mutated form
EndingAfter(ending, stepEnd) == IF ending = "max-tokens" THEN ending ELSE stepEnd

EndStep ==
  /\ pc = "step-end" /\ Resumed
  /\ turnEnds' = EndingAfter(turnEnds, outcome)
  /\ outcome' = "none"
  /\ log' = [log EXCEPT !.open = "turn"]
  /\ batch' = <<>>
  /\ pc' = "after-step" /\ stack' = <<Driver>>
  /\ UNCHANGED <<phase, inbox, decision, fresh, unlogged, delivered, OtherVars>>

\* A turn that would stop first asks the agent/turn-stopping listeners.
ContinueTurn ==
  /\ pc = "after-step" /\ OnTop("driver")
  /\ \/ /\ ~Aborted /\ turnEnds # "none" /\ inbox["next-step"] = <<>>
        /\ pc' = "stopping" /\ stack' = Pop(stack)
        /\ UNCHANGED <<inbox, batch, decision, turnEnds, log>>
     \/ /\ Aborted \/ turnEnds = "none" \/ inbox["next-step"] # <<>>
        /\ Claim("next-step", Pop(stack))
  /\ UNCHANGED <<phase, fresh, outcome, unlogged, delivered, OtherVars>>

StoppingSettles ==
  /\ pc = "stopping" /\ Resumed
  /\ \/ Catch(<<>>) /\ UNCHANGED inbox
     \/ /\ ~Aborted /\ inbox["next-step"] = <<>>
        /\ CloseTurn(turnEnds, "drained", <<Driver>>)
        /\ UNCHANGED inbox
     \/ /\ ~Aborted /\ inbox["next-step"] # <<>>
        /\ Claim("next-step", <<>>)
  /\ UNCHANGED <<phase, fresh, outcome, unlogged, delivered, OtherVars>>

CatchStep ==
  /\ pc = "caught" /\ OnTop("driver")
  /\ Catch(Pop(stack))
  /\ UNCHANGED <<phase, inbox, fresh, outcome, unlogged, delivered, OtherVars>>

EndFailedTurn ==
  /\ pc = "reported" /\ OnTop("driver")
  /\ CloseTurn("error", "retire", Pop(stack))
  /\ UNCHANGED <<phase, inbox, fresh, outcome, unlogged, delivered, OtherVars>>

\* The phase of the next turn of the same driver.
RenewedLatched(p) == [p EXCEPT !.abort = "live", !.step = 0]   \* mutated form
RenewedCounting(p) == [p EXCEPT !.abort = "live", !.wake = FALSE]   \* mutated form
Renewed(p) == [p EXCEPT !.abort = "live", !.wake = FALSE, !.step = 0]

(***************************************************************************)
(* After a turn that stopped by itself the driver looks at the queue: with *)
(* work pending it continues under a fresh signal, without it retires.     *)
(***************************************************************************)
Drain ==
  /\ pc = "drained" /\ OnTop("driver")
  /\ stack' = Pop(stack)
  /\ \/ /\ HasPending(inbox)
        /\ phase' = Renewed(phase)
        /\ pc' = "turn-again"
     \/ ~HasPending(inbox) /\ pc' = "retire" /\ UNCHANGED phase
  /\ UNCHANGED <<inbox, batch, decision, fresh, outcome, turnEnds, log, unlogged, delivered,
                 OtherVars>>

\* kick()'s finally: idle first (its observers may call), then the replay.
Retire ==
  /\ pc = "retire" /\ Resumed
  /\ phase' = Idle(phase.turn)
  /\ pc' = "none"
  /\ stack' = <<[op |-> "retire", wake |-> phase.wake, activity |-> activity]>>
  /\ UNCHANGED <<inbox, batch, decision, fresh, outcome, turnEnds, log, unlogged, delivered,
                 OtherVars>>

Replay ==
  LET frame == stack[Len(stack)] IN
  /\ OnTop("retire")
  /\ settled' = Resolved(frame.activity)
  /\ \/ ReplayDue(frame.wake) /\ WakeDriver(FALSE, Pop(stack))
     \/ /\ ~ReplayDue(frame.wake)
        /\ stack' = Pop(stack) /\ UNCHANGED <<phase, pc, activity>>
  /\ UNCHANGED <<inbox, batch, decision, fresh, outcome, turnEnds, log, unlogged, delivered,
                 waiting, disposal, inputVars>>

-----------------------------------------------------------------------------
DriverStep ==
  \/ StartTurn \/ ClaimTurn \/ PreStepSettles \/ EnterStep \/ RequestSettles
  \/ BeginAdmission \/ AdmitMessage \/ OpenStream \/ StreamSettles
  \/ RequestErrorSettles \/ ToolsSettle \/ EndStep \/ ContinueTurn
  \/ StoppingSettles \/ CatchStep \/ EndFailedTurn \/ Drain \/ Retire \/ Replay

CallStep == Wake \/ CancelStep

Waiter == \E w \in Waiters \cup {"dispose"} : FollowActivity(w) \/ Quiesce(w)

Call ==
  \/ \E target \in Targets, wakeup \in BOOLEAN : Send(target, wakeup)
  \/ \E message \in Messages : Remove(message)
  \/ Cancel("user")
  \/ \E cause \in Causes : CancelKeepInbox(cause)
  \/ RunMaintenance
  \/ \E w \in Waiters : WhenIdle(w)
  \/ Dispose
  \/ DisposeRejected

Next == Call \/ CallStep \/ DriverStep \/ JobSettles \/ Waiter \/ Detach

Spec == Init /\ [][Next]_vars

(***************************************************************************)
(* Frames on the stack return, awaits of the driver, of jobs and of        *)
(* whenIdle() settle, and a request is not retried for ever (the retry     *)
(* policy gives up).  Nothing says that anybody calls the agent.           *)
(***************************************************************************)
Fairness ==
  /\ WF_vars(CallStep) /\ WF_vars(DriverStep) /\ WF_vars(JobSettles) /\ WF_vars(Detach)
  /\ SF_vars(StreamSettles /\ pc' # "request-error")
  /\ \A w \in Waiters \cup {"dispose"} : WF_vars(FollowActivity(w) \/ Quiesce(w))

FairSpec == Spec /\ Fairness

-----------------------------------------------------------------------------
(***************************************************************************)
(* The log an append would find open at each position of the driver, and   *)
(* the numbers the driver counts with, agree with the durable log however  *)
(* calls, aborts and failures interleave: turn() and step() never append a *)
(* boundary the log does not allow, an idle agent left nothing open.       *)
(***************************************************************************)
OpenAt ==
  CASE pc \in {"opened", "pre-step", "decided", "after-step", "stopping", "caught",
               "reported"} -> "turn"
    [] pc \in {"request", "prepared", "admitting", "stream", "request-error", "tools",
               "step-end"} -> "step"
    [] OTHER -> "none"

BoundariesAgree ==
  /\ log.turn = phase.turn
  /\ log.open = OpenAt
  /\ pc = "none" <=> phase.kind # "running"
  /\ log.open # "none" => log.step = phase.step
  /\ pc \in {"turn", "turn-again"} => phase.step = 0
  /\ log.unanswered => pc = "tools"

(***************************************************************************)
(* A message is in one place only: an inbox list, the claimed batch or the *)
(* log, and in the log once; retries, rejected steps and cancellations     *)
(* neither duplicate nor resurrect it (properties.spec.ts: every message   *)
(* appears exactly once).                                                  *)
(***************************************************************************)
Logged == {delivered[i].message : i \in 1 .. Len(delivered)}

Claimed == IF fresh \/ pc \in {"pre-step", "decided"} THEN batch ELSE unlogged

ExactlyOnce ==
  /\ Cardinality(Logged) = Len(delivered)
  /\ Distinct(inbox["next-turn"] \o inbox["next-step"] \o Claimed)
  /\ Logged \cap (Pending(inbox) \cup {Claimed[i] : i \in 1 .. Len(Claimed)}) = {}

(***************************************************************************)
(* Prompts keep their order, and a turn admits at most one of them         *)
(* (followup(): "the sole ordinary message of its own turn").              *)
(***************************************************************************)
PromptOrder ==
  \A i, j \in 1 .. Len(delivered) :
    /\ i < j
    /\ list[delivered[i].message] = "next-turn"
    /\ list[delivered[j].message] = "next-turn"
    => /\ delivered[i].message < delivered[j].message
       /\ delivered[i].turn < delivered[j].turn

\* The fate of a message: in one place at a time, logged once and in its order.
MessagesInOrder == ExactlyOnce /\ PromptOrder

(***************************************************************************)
(* A latched wake stands behind maintenance or an aborted activity only: a *)
(* live driver is never followed by a stale replay.                        *)
(***************************************************************************)
LatchedBehindBarrier == phase.wake => phase.kind = "maintenance" \/ Aborted

(***************************************************************************)
(* A turn that ends as completed owes the model no response: every tool    *)
(* result of its last step was followed by a request or concluded it.      *)
(***************************************************************************)
CompletedOwesNothing ==
  log.open = "none" /\ log.ending = "completed" => ~log.owed

(***************************************************************************)
(* No message is lost between the inbox and the log.  The driver moves a   *)
(* pending message, it never drops one: only a caller does that, who       *)
(* removes or clears it.  A claimed message is dropped with its batch, by  *)
(* the decision of agent/pre-step or by an abort or failure before the     *)
(* first of the batch is logged; once one is logged the others follow,     *)
(* whoever cancels in between.  And the log takes a message under an       *)
(* aborted signal only behind the last look of prepareRequest() at it.     *)
(***************************************************************************)
Held == Pending(inbox) \cup {Claimed[i] : i \in 1 .. Len(Claimed)} \cup Logged

DroppedByCaller(m) == m \in Pending(inbox) /\ UNCHANGED <<pc, batch, delivered>>

DroppedByStep(m) ==
  /\ m \notin Pending(inbox)
  /\ \/ pc = "pre-step"
     \/ pc = "decided" /\ Aborted
     \/ pc = "caught" /\ \A i \in 1 .. Len(batch) : batch[i] \notin Logged

MessagesAccounted ==
  [][/\ \A m \in Held \ Held' : DroppedByCaller(m) \/ DroppedByStep(m)
     /\ delivered' # delivered /\ Aborted => pc = "admitting"]_vars

(***************************************************************************)
(* An activity aborted by disposal is followed by no replay: no driver is  *)
(* started behind it, and it retires without a latched wake.  In no other  *)
(* case is a wake latched without its barrier.                             *)
(***************************************************************************)
DisposalParksWake ==
  phase.kind # "idle" /\ phase.abort = "disposed"
  => /\ activity' = activity
     /\ pc = "retire" /\ pc' = "none" => ~stack'[Len(stack')].wake

LatchSound == [][LatchedBehindBarrier' /\ DisposalParksWake]_vars

(***************************************************************************)
(* whenIdle() resolves only while no driver and no job owns the agent,     *)
(* replacement work released behind the observed activity included.        *)
(***************************************************************************)
WhenIdleSound ==
  [][\A w \in Waiters \cup {"dispose"} :
       waiting[w] # None /\ waiting'[w] = None => phase.kind = "idle"]_vars

(***************************************************************************)
(* The log the agent writes is a turn log, step by step.                   *)
(***************************************************************************)
TL == INSTANCE TurnLog WITH turn <- log.turn, step <- log.step, open <- log.open,
                            unanswered <- log.unanswered
TurnLogSpec == TL!Spec

(***************************************************************************)
(* A wake latched behind an aborted activity or a job is answered: a live  *)
(* driver runs, unless the inbox empties, or a later cancel or disposal    *)
(* supersedes the wake.                                                    *)
(***************************************************************************)
Cancelling == \E i \in 1 .. Len(stack) : stack[i].op = "cancel"

WakeReplayed ==
  phase.wake ~> \/ phase.kind = "running" /\ ~Aborted
                \/ ~HasPending(inbox)
                \/ Cancelling \/ disposal # "none" \/ phase.abort = "disposed"

(***************************************************************************)
(* dispose() finishes, whatever it interrupted and from wherever it was    *)
(* called, once callers stop giving the agent new work (whenIdle() would   *)
(* follow that; the bounds on messages and jobs say that they stop).       *)
(***************************************************************************)
DisposeCompletes == disposal # "none" ~> disposal = "done"

-----------------------------------------------------------------------------
(***************************************************************************)
(* Statements of the repository that the code does not keep; the README    *)
(* gives the behaviours.                                                   *)
(*                                                                         *)
(* agent.ts: "Live drivers claim queued work themselves": a driver whose   *)
(* turn stopped by itself retires with no wake left to it.                 *)
(***************************************************************************)
LiveDriverClaims ==
  [][pc = "retire" /\ pc' = "none" /\ ~Aborted
     /\ log.ending \in {"completed", "max-tokens"} /\ log.step > 0
     => \A m \in Pending(inbox) : left[m] # "driver"]_vars

(***************************************************************************)
(* agent-loop's README: "Teardown stops and drains the driver, unwinds the *)
(* scope, closes the session's write path, detaches the agent": an agent   *)
(* whose dispose() was called inside an append leaves with a live driver.  *)
(***************************************************************************)
DisposalStopsDriver == disposal \in {"closing", "done"} => phase.kind = "idle"
=============================================================================
