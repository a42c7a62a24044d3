------------------------------- MODULE GoalRounds -------------------------------
(***************************************************************************)
(* The driver that continues a session's goal in automatic rounds           *)
(* (packages/goal/goal-round-driver), with the goal service it serves and   *)
(* with as much of the agent loop as its fences depend on: one agent, its   *)
(* inbox, one turn at a time, the awaits of a step, aborts and their latch, *)
(* and the maintenance jobs that hold an idle agent.                        *)
(*                                                                         *)
(* A handler is an operator from worlds to worlds, and an action is what    *)
(* runs between two awaits. One nesting is an action of its own: while a    *)
(* round is being queued, listeners of the insertion may call anything.     *)
(***************************************************************************)
EXTENDS Inbox, Goal, FiniteSets

CONSTANTS
  MaxRounds,     \* bound: limits a goal may be given
  MaxSent,       \* bound: messages of others
  MaxOps,        \* bound: goal operations
  MaxMishaps     \* bound: failures, cancellations, maintenance jobs

ASSUME GoalRoundsConstants ==
  /\ MaxRounds \in Nat \ {0}
  /\ MaxSent \in Nat /\ MaxOps \in Nat /\ MaxMishaps \in Nat

VARIABLES
  goal,     \* the goal of the session
  agent,    \* the agent's phase, and its turn
  inbox,    \* its pending messages
  driver,   \* DriverState, the loops of requestDrive() and the plugin's life
  past,     \* history: what is durable, and what slipped through
  used      \* the bounds

vars == <<goal, agent, inbox, driver, past, used>>

World == [goal |-> goal, agent |-> agent, inbox |-> inbox, driver |-> driver, past |-> past]

Becomes(w) ==
  /\ goal' = w.goal /\ agent' = w.agent /\ inbox' = w.inbox
  /\ driver' = w.driver /\ past' = w.past

Use(what) == used[what] > 0 /\ used' = [used EXCEPT ![what] = @ - 1]
Free == UNCHANGED used

Sent(n) == [kind |-> "sent", id |-> n, ref |-> 0, round |-> 0]
Round(id, ref, round) == [kind |-> "round", id |-> id, ref |-> ref, round |-> round]
IsRound(m) == m.kind = "round"
HasRound(messages) == \E i \in DOMAIN messages : IsRound(messages[i])
FirstRound(messages) ==
  messages[CHOOSE i \in DOMAIN messages :
             IsRound(messages[i]) /\ \A j \in 1..i - 1 : ~IsRound(messages[j])]

\* Those of the messages that are in a set (as SelectSeq, whose test is an operator).
Kept(messages, S) ==
  LET kept[n \in 0..Len(messages)] ==
        IF n = 0 THEN <<>>
        ELSE IF messages[n] \in S THEN Append(kept[n - 1], messages[n]) ELSE kept[n - 1]
  IN kept[Len(messages)]
Elements(messages) == {messages[i] : i \in DOMAIN messages}
Others(messages) == {m \in Elements(messages) : ~IsRound(m)}

\* `sent` is history: how many messages had been sent when it was claimed.
NoAttempt == [at |-> "none", message |-> Round(0, 0, 0), cancelled |-> FALSE, stale |-> FALSE,
              sent |-> 0]
NoWaker == [loop |-> 0, first |-> FALSE]

Idle == [kind |-> "idle", pc |-> "none", abort |-> FALSE, latch |-> FALSE,
         batch |-> <<>>, guarded |-> FALSE]

Init ==
  /\ goal = NoGoal /\ agent = Idle /\ inbox = EmptyInbox
  /\ driver = [life |-> "loaded", attempt |-> NoAttempt, competing |-> FALSE,
               checkpoint |-> FALSE, requested |-> FALSE, run |-> 0, loops |-> {},
               waker |-> NoWaker, awaits |-> 0, awaitsIdle |-> FALSE]
  /\ past = [logged |-> 0, saved |-> 0, slipped |-> FALSE, orphan |-> FALSE, dropped |-> FALSE]
  /\ used = [sent |-> MaxSent, op |-> MaxOps, mishap |-> MaxMishaps]

Sync == driver.waker = NoWaker      \* no insertion of a round is on the stack
Listens(w) == w.driver.life # "gone"
Aims(w, message) == Continues(w.goal) /\ ~w.goal.failed /\ message.ref = w.goal.ref

\* sameQueued() compares what a message says, not its id.
SameQueued(w, message) ==
  /\ w.driver.attempt.at # "none" /\ message.kind = "round"
  /\ message.ref = w.driver.attempt.message.ref /\ message.round = w.driver.attempt.message.round
AttemptedIn(w, messages) == \E i \in DOMAIN messages : SameQueued(w, messages[i])

FreshId(w) ==
  LET taken == {m.id : m \in {x \in Pending(w.inbox) \cup Elements(w.agent.batch) : IsRound(x)}}
  IN CHOOSE i \in 1..Cardinality(taken) + 1 : i \notin taken

Disarm(w) == IF w.goal.failed THEN w ELSE [w EXCEPT !.goal = Disarmed(@)]

-----------------------------------------------------------------------------
(* requestDrive(), its loops, and drive() up to its first await *)

Loop(id, at, covers) == [id |-> id, at |-> at, covers |-> covers]
LoopAt(w, id, at) ==
  [w EXCEPT !.driver.loops = {l \in @ : l.id # id} \cup {Loop(id, at, 0)}]
FreeId(w) == CHOOSE i \in 1..Cardinality(w.driver.loops) + 1 :
               \A l \in w.driver.loops : l.id # i

ReadyToDrive(w) ==
  w.driver.life = "loaded" /\ w.agent.kind # "running" /\ ~w.driver.competing

ReadyAfterCheckpoint(w) == ReadyToDrive(w) /\ ~w.driver.checkpoint

\* The checkpoint: a flush of all that is logged by now.
Checkpoints(w, id) ==
  [w EXCEPT !.driver.checkpoint = FALSE,
            !.driver.loops = {l \in @ : l.id # id} \cup {Loop(id, "flush", w.past.logged)}]

\* requestDrive() behind a change of the goal, which always owes a checkpoint. A
\* new loop is entered in `run` only when its synchronous part is over.
DriveChanged(w) ==
  IF w.driver.life # "loaded" THEN w
  ELSE IF w.driver.run # 0 THEN [w EXCEPT !.driver.requested = TRUE]
  ELSE LET id == FreeId(w)
           v == [w EXCEPT !.driver.requested = FALSE, !.driver.run = id]
       IN IF ReadyToDrive(v) THEN Checkpoints(v, id) ELSE LoopAt(v, id, "again")

\* A goal operation, with its notification to the driver. A pause by another
\* than the running agent aborts the turn and keeps the inbox.
Change(w, op, limit, byModel) ==
  LET v == [w EXCEPT !.goal = Changed(@, op, limit), !.past.logged = @ + 1,
                     !.past.slipped = @ \/ (w.agent.pc = "preparing" /\ HasRound(w.agent.batch))]
      owing == [v EXCEPT !.driver.checkpoint = TRUE]
  IN IF ~Listens(w) THEN v
     ELSE DriveChanged(
            IF op = "pause" /\ w.agent.kind = "running" /\ ~byModel
            THEN [owing EXCEPT !.agent.abort = TRUE] ELSE owing)

\* Reserve the next round and queue it; followup() goes on in WakeUp.
Reserve(w, id, first) ==
  LET message == Round(FreshId(w), w.goal.ref, w.goal.rounds + 1)
  IN [w EXCEPT !.driver.attempt = [NoAttempt EXCEPT !.at = "queued", !.message = message],
               !.inbox = Inserted(@, "next-turn", message),
               !.driver.waker = [loop |-> id, first |-> first]]

\* drive() behind its checkpoint, or without one to make.
DriveOn(w, id, first) ==
  IF w.driver.attempt.at # "none"
  THEN LoopAt([w EXCEPT !.driver.attempt = NoAttempt, !.driver.checkpoint = TRUE,
                        !.driver.requested = TRUE], id, "again")
  ELSE IF w.goal.failed \/ ~Continues(w.goal) THEN LoopAt(w, id, "again")
  ELSE IF w.goal.rounds >= w.goal.limit
  THEN LoopAt(Change(LoopAt(w, id, "again"), "block", 0, FALSE), id, "again")
  ELSE Reserve(LoopAt(w, id, "again"), id, first)

Drive(w, id, first) ==
  IF ~ReadyToDrive(w) THEN LoopAt(w, id, "again")
  ELSE IF w.driver.checkpoint THEN Checkpoints(w, id)
  ELSE DriveOn(w, id, first)

\* The first drive runs before the loop is known as `run`.
RequestDrive(w) ==
  IF w.driver.life # "loaded" THEN w
  ELSE IF w.driver.run # 0 THEN [w EXCEPT !.driver.requested = TRUE]
  ELSE LET id == FreeId(w)
           v == Drive([w EXCEPT !.driver.requested = FALSE], id, TRUE)
       IN IF v.driver.waker # NoWaker THEN v ELSE [v EXCEPT !.driver.run = id]

LoopContinues(l) ==
  /\ Sync /\ l.at = "again" /\ Free
  /\ Becomes(IF driver.requested /\ driver.life = "loaded"
             THEN Drive([World EXCEPT !.driver.requested = FALSE], l.id, FALSE)
             ELSE LoopAt(World, l.id, "retire"))

RetiresQuietly(l) ==   \* mutated form: a trigger behind the last pass is dropped
  /\ Sync /\ l.at = "retire" /\ Free
  /\ Becomes([World EXCEPT !.driver.run = 0, !.driver.loops = @ \ {l}])
Retires(l) ==
  /\ Sync /\ l.at = "retire" /\ Free
  /\ LET w == [World EXCEPT !.driver.run = 0, !.driver.loops = @ \ {l}]
     IN Becomes(IF w.driver.requested THEN RequestDrive(w) ELSE w)

\* The checkpoint settles; what came in meanwhile gets its own.
CheckpointSettles(l) ==
  /\ Sync /\ l.at = "flush"
  /\ \/ /\ Free
        /\ LET w == [World EXCEPT !.past.saved = IF l.covers > @ THEN l.covers ELSE @]
           IN Becomes(IF ReadyAfterCheckpoint(w)
                      THEN DriveOn(w, l.id, FALSE) ELSE LoopAt(w, l.id, "again"))
     \/ Use("mishap") /\ Becomes(LoopAt(Disarm(World), l.id, "again"))

-----------------------------------------------------------------------------
(* The agent: waking, claiming, ending a turn *)

\* agent/inbox/claimed: what says the same as the reservation claims it.
Claimed(w, batch) ==
  IF ~Listens(w) \/ ~AttemptedIn(w, batch) THEN w.driver.attempt
  ELSE [w.driver.attempt EXCEPT
          !.sent = IF w.driver.attempt.at = "queued" THEN MaxSent - used.sent ELSE @,
          !.at = "claimed"]

\* A turn, or a step in it, claims its batch.
Claims(w, target) ==
  LET batch == Batch(w.inbox, target)
  IN [w EXCEPT !.inbox = Unclaimed(@, target), !.agent.batch = batch,
               !.agent.pc = "assembling", !.agent.guarded = FALSE,
               !.driver.attempt = Claimed(w, batch)]

OpensTurn(w) ==
  Claims([w EXCEPT !.agent = [Idle EXCEPT !.kind = "running"]], "next-turn")

Wakes(w, afterAbort) ==
  IF w.agent.kind = "idle" THEN OpensTurn(w)
  ELSE IF w.agent.kind = "maintenance" \/ afterAbort THEN [w EXCEPT !.agent.latch = TRUE]
  ELSE w

\* The insertion of a round is published, and followup() returns to its loop.
WakeUp ==
  /\ ~Sync /\ Free
  /\ LET w == Wakes(World, FALSE)
     IN Becomes([w EXCEPT !.driver.waker = NoWaker,
                   !.driver.run = IF driver.waker.first THEN driver.waker.loop ELSE @])

\* agent/status idle: a round that did not run is withdrawn, its goal paused.
StatusIdle(w) ==
  LET a == w.driver.attempt
      v == [w EXCEPT !.driver.competing = FALSE]
      pauses == (a.at \in {"queued", "claimed"} \/ a.cancelled) /\ Aims(w, a.message)
      settled == [v EXCEPT !.driver.attempt = NoAttempt,
                           !.inbox = IF a.at = "queued" THEN Without(@, a.message) ELSE @]
  IN IF ~Listens(w) THEN w
     ELSE IF w.goal.failed THEN v
     ELSE RequestDrive(IF a.at # "none" /\ pauses THEN Change(settled, "pause", 0, FALSE)
                       ELSE IF a.at = "queued" THEN settled ELSE v)

\* turn/end, with agent/error before it; only a turn that was not cut short
\* looks at the inbox again.
EndsTurn(w, ending) ==
  LET v == [w EXCEPT !.agent.batch = <<>>, !.agent.guarded = FALSE,
              !.agent.pc = IF ending \in {"completed", "max-tokens"} /\ HasPending(w.inbox)
                           THEN "between" ELSE "retiring"]
  IN IF ~Listens(w) THEN v
     ELSE IF ending = "aborted" /\ w.driver.attempt.at \in {"claimed", "admitted"}
     THEN [v EXCEPT !.driver.attempt.cancelled = TRUE]
     ELSE IF ending \in {"aborted", "max-tokens", "error"} THEN Disarm(v) ELSE v

\* A failure counts as an abort once the signal is set.
Fails == /\ Sync
         /\ IF agent.abort THEN Free /\ Becomes(EndsTurn(World, "aborted"))
            ELSE Use("mishap") /\ Becomes(EndsTurn(World, "error"))

NextTurn == Sync /\ agent.pc = "between" /\ Free /\ Becomes(OpensTurn(World))

Retire ==
  /\ Sync /\ agent.pc = "retiring" /\ Free
  /\ LET w == StatusIdle([World EXCEPT !.agent = Idle])
     IN Becomes(IF agent.latch /\ HasPending(w.inbox) /\ w.driver.waker = NoWaker
                THEN Wakes(w, FALSE) ELSE w)

-----------------------------------------------------------------------------
(* The step: assembly, the pre-step listeners, the request, the stream *)

ReservationHeld(w, message) ==   \* mutated form: the goal is not read again
  w.driver.life = "loaded" /\ w.driver.attempt.at = "claimed" /\ SameQueued(w, message)
\* Only the exact reservation of the live revision may enter.
ValidReservation(w, message) ==
  /\ w.driver.life = "loaded"
  /\ w.driver.attempt.at = "claimed" /\ ~w.driver.attempt.stale
  /\ SameQueued(w, message)
  /\ Aims(w, message) /\ message.round = w.goal.rounds + 1

\* restoreOtherClaimed(): the rest of the batch waits for the next step.
Restores(w, messages) ==
  [w EXCEPT !.inbox["next-step"] =
     Kept(messages, Others(messages) \ Pending(w.inbox)) \o @]

\* The driver's own rejection.
Rejects(w, message) ==
  LET v == IF SameQueued(w, message)
           THEN [w EXCEPT !.driver.attempt = NoAttempt] ELSE w
  IN [RequestDrive(Restores(v, w.agent.batch)) EXCEPT !.agent.pc = "rejected"]

Submitted == FirstRound(agent.batch)

Assembled ==
  /\ Sync /\ agent.pc = "assembling" /\ ~agent.abort /\ Free
  /\ Becomes(IF ~HasRound(agent.batch) \/ ~Listens(World) THEN [World EXCEPT !.agent.pc = "hooks"]
             ELSE IF ValidReservation(World, Submitted)
             THEN [World EXCEPT !.agent.pc = "hooks", !.agent.guarded = TRUE]
             ELSE Rejects(World, Submitted))

\* The listeners downstream of the driver enter the step, perhaps without the
\* round's message; the fence is checked again.
HooksEnter ==
  /\ Sync /\ agent.pc = "hooks" /\ Free
  /\ \E batch \in {agent.batch, IF agent.guarded THEN Kept(agent.batch, Others(agent.batch))
                                ELSE agent.batch} :
       LET w == [World EXCEPT !.agent.batch = batch]
       IN Becomes(IF agent.abort
                  THEN EndsTurn(IF agent.guarded THEN Restores(w, batch) ELSE w, "aborted")
                  ELSE IF agent.guarded /\ ~ValidReservation(w, Submitted)
                  THEN Rejects([w EXCEPT !.driver.attempt = NoAttempt], Submitted)
                  ELSE [w EXCEPT !.agent.pc = "preparing"])

\* They reject it, which blocks the goal the round was for.
HooksReject ==
  /\ Sync /\ agent.pc = "hooks" /\ ~agent.abort /\ Use("mishap")
  /\ LET w == [World EXCEPT !.agent.pc = "rejected"]
         v == [w EXCEPT !.driver.attempt = NoAttempt]
     IN Becomes(IF ~agent.guarded THEN w
                ELSE IF Aims(v, Submitted) THEN Change(v, "block", 0, FALSE) ELSE v)

\* They throw: the round is reserved again later.
HooksFail ==
  /\ agent.pc = "hooks"
  /\ IF agent.guarded /\ ~agent.abort
     THEN Sync /\ Use("mishap")
          /\ Becomes(EndsTurn(RequestDrive([World EXCEPT !.driver.attempt = NoAttempt]), "error"))
     ELSE Fails

Rejected ==
  /\ Sync /\ agent.pc = "rejected" /\ Free
  /\ Becomes(EndsTurn(World, IF agent.abort THEN "aborted" ELSE "blocked"))

\* The request is prepared and the batch logged: a round counts from here.
Prepared ==
  /\ Sync /\ agent.pc = "preparing" /\ ~agent.abort /\ Free
  /\ LET w == [World EXCEPT !.agent.pc = "streaming"]
         counted == [w EXCEPT !.goal = RoundLogged(@, Submitted.ref, Submitted.round)]
     IN Becomes(IF agent.batch = <<>> THEN [EndsTurn(World, "completed") EXCEPT !.agent.pc = "retiring"]
                ELSE IF ~HasRound(agent.batch) THEN w
                ELSE IF Listens(w) /\ SameQueued(w, Submitted)
                        /\ Submitted.id = driver.attempt.message.id
                THEN [counted EXCEPT !.driver.attempt.at = "admitted"]
                ELSE counted)

Streamed ==
  /\ Sync /\ agent.pc = "streaming" /\ ~agent.abort
  /\ \/ Free /\ Becomes(IF inbox["next-step"] # <<>> THEN Claims(World, "next-step")
                        ELSE EndsTurn(World, "completed"))
     \/ inbox["next-step"] = <<>> /\ Use("mishap") /\ Becomes(EndsTurn(World, "max-tokens"))

StepFails == agent.pc \in {"assembling", "preparing", "streaming"} /\ Fails

-----------------------------------------------------------------------------
(* Others: callers, listeners, maintenance, the unloading of the driver *)

\* A foreign message in the queue of turns competes with the driver.
HeardLate(w) == [w EXCEPT !.driver.competing = TRUE]   \* mutated form
Heard(w) ==
  [w EXCEPT !.driver.competing = TRUE,
            !.driver.attempt.stale = @ \/ w.driver.attempt.at = "queued"]

\* A message of a human wakes the agent; a notice waits for the next step.
Prompt ==
  /\ Use("sent")
  /\ LET w == [World EXCEPT !.inbox = Inserted(@, "next-turn", Sent(MaxSent - used.sent + 1))]
     IN Becomes(Wakes(IF Listens(w) THEN Heard(w) ELSE w,
                      agent.kind # "idle" /\ agent.abort))

Notice ==
  /\ Use("sent")
  /\ Becomes([World EXCEPT !.inbox = Inserted(@, "next-step", Sent(MaxSent - used.sent + 1))])

\* A host may change the goal at any time, the model while it streams.
Operate(op, limit, byModel) ==
  /\ Admits(goal, op) /\ (op \in {"create", "edit"} \/ limit = MaxRounds)
  /\ IF byModel THEN agent.pc = "streaming" ELSE op # "block"
  /\ Use("op")
  /\ Becomes(Change(World, op, limit, byModel))

Cancels(w) ==
  [w EXCEPT !.inbox = EmptyInbox,
            !.agent.latch = FALSE, !.agent.abort = w.agent.kind # "idle",
            !.past.dropped = @ \/ w.agent.kind = "maintenance",
            !.driver.attempt.cancelled =
              @ \/ (Listens(w) /\ \E t \in Targets : AttemptedIn(w, w.inbox[t]))]

Cancel == Use("mishap") /\ Becomes(Cancels(World))

StartJob ==
  /\ Sync /\ agent.kind = "idle" /\ Use("mishap")
  /\ Becomes([World EXCEPT !.agent.kind = "maintenance"])

\* The status was idle all along, so nobody is told that the job ended.
EndJob ==
  /\ Sync /\ agent.kind = "maintenance" /\ Free
  /\ LET w == [World EXCEPT !.agent = Idle]
     IN Becomes(IF agent.latch /\ HasPending(inbox) THEN OpensTurn(w) ELSE w)

StopsNothing(w) == w   \* mutated form
StopsRunning(w) == [Cancels(w) EXCEPT !.driver.awaitsIdle = TRUE]

\* The plugin's disposal closes the fence and awaits what runs under it.
Unload ==
  /\ driver.life = "loaded" /\ Use("mishap")
  /\ LET a == driver.attempt.at # "none"
         w == [Disarm(World) EXCEPT !.driver.life = "stopping",
                 !.driver.attempt.stale = a, !.driver.awaits = driver.run,
                 !.past.orphan = ~(a /\ agent.kind = "running") /\
                   (HasRound(agent.batch) \/ HasRound(inbox["next-turn"]))]
     IN Becomes(IF a /\ agent.kind = "running" THEN StopsRunning(w) ELSE w)

Unloaded ==
  /\ Sync /\ driver.life = "stopping" /\ Free
  /\ driver.awaitsIdle => agent.kind # "running"
  /\ driver.awaits = 0 \/ driver.awaits \notin {l.id : l \in driver.loops}
  /\ Becomes([World EXCEPT !.driver.life = "gone", !.driver.attempt = NoAttempt,
                !.driver.competing = FALSE, !.driver.checkpoint = FALSE])

-----------------------------------------------------------------------------
DriverStep == \E l \in driver.loops : LoopContinues(l) \/ Retires(l) \/ CheckpointSettles(l)

AgentStep ==
  \/ WakeUp \/ NextTurn \/ Retire
  \/ Assembled \/ HooksEnter \/ HooksReject \/ HooksFail \/ Rejected
  \/ Prepared \/ Streamed \/ StepFails

Next ==
  \/ DriverStep \/ AgentStep
  \/ Prompt \/ Notice \/ Cancel \/ StartJob \/ EndJob \/ Unload \/ Unloaded
  \/ \E op \in Operations, limit \in 1..MaxRounds, byModel \in BOOLEAN :
       Operate(op, limit, byModel)

Spec == Init /\ [][Next]_vars

\* What an await or a microtask continues does continue.
Fairness ==
  /\ WF_vars(DriverStep) /\ WF_vars(AgentStep) /\ WF_vars(EndJob) /\ WF_vars(Unloaded)
FairSpec == Spec /\ Fairness

-----------------------------------------------------------------------------
(* Properties *)

\* A step with a round in it is logged.
Admission == agent.pc = "preparing" /\ agent'.pc = "streaming" /\ HasRound(agent.batch)

MessageOK(m) ==
  IF m.kind = "sent" THEN m.id \in 1..MaxSent /\ m.ref = 0 /\ m.round = 0
  ELSE m.kind = "round" /\ {m.id, m.ref} \subseteq Nat /\ m.round \in 0..MaxRounds

TypeOK ==
  /\ goal \in Goals /\ goal.rounds <= MaxRounds
  /\ agent.kind \in {"idle", "maintenance", "running"}
  /\ agent.pc \in {"none", "assembling", "hooks", "preparing", "streaming", "rejected",
                   "between", "retiring"}
  /\ agent.pc = "none" <=> agent.kind # "running"
  /\ {agent.abort, agent.latch, agent.guarded} \subseteq BOOLEAN
  /\ \A m \in Pending(inbox) \cup Elements(agent.batch) : MessageOK(m)
  /\ driver.life \in {"loaded", "stopping", "gone"}
  /\ driver.attempt.at \in {"none", "queued", "claimed", "admitted"}
  /\ \A l \in driver.loops : l.at \in {"flush", "again", "retire"}
  /\ used \in [sent : 0..MaxSent, op : 0..MaxOps, mishap : 0..MaxMishaps]

\* The fences of agent/pre-step keep out every round the goal's fold would refuse
\* (src/packages/goal/goal/src/fold.ts:313), so the goal stays readable: but for
\* a goal changed while the request of an admitted round is being prepared, and
\* for a round that outlived the driver. No step has two rounds in it.
RoundsInv ==
  /\ TypeOK
  /\ goal.failed => past.slipped \/ past.orphan
  /\ \A i, j \in DOMAIN agent.batch :
       IsRound(agent.batch[i]) /\ IsRound(agent.batch[j]) => i = j

\* The round the driver has reserved enters its step only behind every message a
\* human had sent when it was claimed: a prompt waiting at the reservation comes
\* first, one queued behind the reservation makes it stale until the claim. (What
\* passes for the reservation, a copy of it that a maintenance job left in the
\* queue, counts as the claim: from then on the fence no longer looks.)
PromptsFirst ==
  [][Admission /\ Submitted = driver.attempt.message =>
       \A i \in DOMAIN inbox["next-turn"] :
         inbox["next-turn"][i].kind = "sent" => inbox["next-turn"][i].id > driver.attempt.sent]_vars

\* A round is queued only when every change of the goal so far has been flushed:
\* a change in the await of a checkpoint owes another one. Two loops at once, the
\* outcome of a change made while a round is being queued, are outside of this.
CheckpointFirst ==
  [][Sync /\ driver'.waker # NoWaker /\ Cardinality(driver'.loops) = 1
     => past'.saved = past'.logged]_vars

\* Once the driver is unloaded no round enters a step, provided the agent was
\* running when the unloading met a reservation, and so was cancelled and awaited.
UnloadFinal ==
  [][Admission /\ driver.life = "gone" => past.orphan]_vars

\* A goal that may continue is carried on, round after round, through every
\* interleaving of prompts, changes, aborts and checkpoints, until it ends, stops
\* or is disarmed: no trigger is lost between two loops of requestDrive(). A
\* cancellation in a maintenance job, whose end nobody is told of, may strand it.
GoalCarried ==
  []<>~(Continues(goal) /\ ~goal.failed /\ driver.life = "loaded" /\ ~past.dropped)

\* The README of goal-round-driver (README.md:72): "a stale, cancelled, or competing
\* prompt is rejected before its step enters", so the log stays one its fold reads.
NeverFails == ~goal.failed

\* The same README on unloading (README.md:57, 127): "No later round starts". A
\* reservation left in the inbox of an agent that was not running does start.
NoLaterRound == [][Admission => driver.life # "gone"]_vars
=============================================================================
