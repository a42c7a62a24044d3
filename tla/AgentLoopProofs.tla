-------------------------- MODULE AgentLoopProofs --------------------------
(***************************************************************************)
(* Proofs about AgentLoop, for every number of messages, jobs and waiters, *)
(* every depth of nested calls and every resumed log.                      *)
(***************************************************************************)
EXTENDS AgentLoop, SequenceTheorems, FiniteSetTheorems, TLAPS

(***************************************************************************)
(* The call stack.                                                         *)
(***************************************************************************)
LEMMA PushType ==
  ASSUME NEW S, NEW s \in Seq(S), NEW e \in S
  PROVE  Push(s, e) \in Seq(S)
BY AppendProperties DEF Push

LEMMA PopType ==
  ASSUME NEW S, NEW s \in Seq(S), s # <<>>
  PROVE  Pop(s) \in Seq(S)
<1>1. Len(s) \in Nat \ {0}  BY EmptySeq
<1>2. \A i \in 1 .. Len(s) - 1 : s[i] \in S  BY <1>1, ElementOfSeq
<1> QED  BY <1>1, <1>2, SubSeqProperties DEF Pop

LEMMA TopType ==
  ASSUME NEW S, NEW s \in Seq(S), s # <<>>
  PROVE  s[Len(s)] \in S
BY EmptySeq, ElementOfSeq

(***************************************************************************)
(* The inbox operations keep two lists of messages.                        *)
(***************************************************************************)
LEMMA EmptyInboxType ==
  ASSUME NEW M
  PROVE  EmptyInbox \in [Targets -> Seq(M)]
BY EmptySeq DEF EmptyInbox

LEMMA InsertedType ==
  ASSUME NEW M, NEW box \in [Targets -> Seq(M)], NEW t \in Targets, NEW m \in M
  PROVE  Inserted(box, t, m) \in [Targets -> Seq(M)]
BY AppendProperties DEF Inserted

LEMMA BatchType ==
  ASSUME NEW M, NEW box \in [Targets -> Seq(M)], NEW t \in Targets
  PROVE  Batch(box, t) \in Seq(M)
<1>1. box["next-step"] \in Seq(M) /\ box["next-turn"] \in Seq(M)  BY DEF Targets
<1>2. CASE t = "next-turn" /\ box["next-turn"] # <<>>
  <2>1. Head(box["next-turn"]) \in M  BY <1>1, <1>2, HeadTailProperties
  <2>2. <<Head(box["next-turn"])>> \in Seq(M)  BY <2>1
  <2> QED  BY <1>1, <1>2, <2>2, ConcatProperties DEF Batch
<1>3. CASE ~(t = "next-turn" /\ box["next-turn"] # <<>>)
  BY <1>1, <1>3, ConcatEmptySeq DEF Batch
<1> QED  BY <1>2, <1>3

LEMMA UnclaimedType ==
  ASSUME NEW M, NEW box \in [Targets -> Seq(M)], NEW t \in Targets
  PROVE  Unclaimed(box, t) \in [Targets -> Seq(M)]
<1>1. <<>> \in Seq(M)  BY EmptySeq
<1>2. box["next-turn"] # <<>> => Tail(box["next-turn"]) \in Seq(M)
  BY HeadTailProperties DEF Targets
<1> QED  BY <1>1, <1>2 DEF Unclaimed, Targets

LEMMA SplicedOutType ==
  ASSUME NEW M, NEW s \in Seq(M), NEW i \in 1 .. Len(s)
  PROVE  Spliced(s, i - 1, 1, <<>>) \in Seq(M)
<1>0. Len(s) \in Nat  BY LenProperties
<1>1. SubSeq(s, 1, i - 1) \in Seq(M)
  <2>1. \A j \in 1 .. i - 1 : s[j] \in M  BY <1>0, ElementOfSeq
  <2> QED  BY <1>0, <2>1, SubSeqProperties
<1>2. SubSeq(s, i - 1 + 1 + 1, Len(s)) \in Seq(M)
  <2>1. \A j \in i - 1 + 1 + 1 .. Len(s) : s[j] \in M  BY <1>0, ElementOfSeq
  <2> QED  BY <1>0, <2>1, SubSeqProperties
<1>3. SubSeq(s, 1, i - 1) \o <<>> \in Seq(M)  BY <1>1, ConcatEmptySeq
<1> QED  BY <1>2, <1>3, ConcatProperties DEF Spliced

LEMMA WithoutType ==
  ASSUME NEW M, NEW box \in [Targets -> Seq(M)], NEW m
  PROVE  Without(box, m) \in [Targets -> Seq(M)]
<1>1. ASSUME NEW t \in Targets, Positions(box[t], m) # {}
      PROVE  Spliced(box[t], (CHOOSE i \in Positions(box[t], m) : TRUE) - 1, 1, <<>>)
               \in Seq(M)
  <2>1. (CHOOSE i \in Positions(box[t], m) : TRUE) \in 1 .. Len(box[t])
    BY <1>1 DEF Positions
  <2> QED  BY <1>1, <2>1, SplicedOutType
<1> QED  BY <1>1 DEF Without

-----------------------------------------------------------------------------
(***************************************************************************)
(* Types of what the actions are built from.                               *)
(***************************************************************************)
LEMMA FrameTypes ==
  /\ Driver \in Frames
  /\ \A a \in BOOLEAN, m \in Messages :
       [op |-> "wake", afterAbort |-> a, message |-> m] \in Frames
  /\ \A l \in Targets \cup {"none"}, c \in Causes :
       [op |-> "cancel", list |-> l, cause |-> c] \in Frames
  /\ \A w \in BOOLEAN, n \in Nat :
       [op |-> "retire", wake |-> w, activity |-> n] \in Frames
  /\ \A f \in Frames :
       /\ f.op = "wake" => f.afterAbort \in BOOLEAN /\ f.message \in Messages
       /\ f.op = "cancel" => f.list \in Targets \cup {"none"} /\ f.cause \in Causes
       /\ f.op = "retire" => f.wake \in BOOLEAN /\ f.activity \in Nat
BY DEF Driver, Frames

LEMMA PhaseTypes ==
  /\ \A n \in Nat : Idle(n) \in Phases
  /\ \A n \in Nat, k \in {"maintenance", "running"} : Active(k, n) \in Phases
  /\ \A p \in Phases : /\ p.kind \in {"idle", "maintenance", "running"}
                       /\ p.turn \in Nat /\ p.step \in Nat /\ p.wake \in BOOLEAN
                       /\ p.abort \in Causes \cup {"live"}
BY DEF Idle, Active, Phases

LEMMA OnTopType ==
  ASSUME TypeOK, NEW op, OnTop(op)
  PROVE  /\ stack # <<>> /\ stack[Len(stack)] \in Frames /\ stack[Len(stack)].op = op
         /\ Pop(stack) \in Seq(Frames)
BY TopType, PopType DEF OnTop, TypeOK

\* The driver's variables and the variables of everything around it.
DriverOK ==
  /\ pc \in AwaitPcs \cup StackPcs
  /\ batch \in Seq(Messages)
  /\ decision \in {"none", "reject", "empty", "enter"}
  /\ fresh \in BOOLEAN
  /\ unlogged \in Seq(Messages)
  /\ outcome \in {"none", "completed", "max-tokens"}
  /\ turnEnds \in Endings
  /\ log \in [turn : Nat, step : Nat, open : {"none", "turn", "step"},
              unanswered : BOOLEAN, owed : BOOLEAN, ending : Endings]
  /\ delivered \in Seq([message : Messages, turn : Nat])

CallsOK ==
  /\ phase \in Phases
  /\ stack \in Seq(Frames)
  /\ inbox \in [Targets -> Seq(Messages)]
  /\ activity \in Nat

OthersOK ==
  /\ settled \subseteq Nat
  /\ waiting \in [Waiters \cup {"dispose"} -> Nat \cup {None}]
  /\ disposal \in {"none", "cancelling", "waiting", "closing", "done"}
  /\ jobs \in Nat
  /\ sent \in 0 .. NumMessages
  /\ list \in [Messages -> Targets \cup {"none"}]
  /\ left \in [Messages -> {"none", "driver", "latch"}]

LEMMA TypeOKParts ==
  /\ TypeOK <=> DriverOK /\ CallsOK /\ OthersOK
  /\ TypeOK' <=> DriverOK' /\ CallsOK' /\ OthersOK'
BY DEF TypeOK, DriverOK, CallsOK, OthersOK

LEMMA InitType == Init => TypeOK
<1> SUFFICES ASSUME Init PROVE TypeOK  OBVIOUS
<1>1. <<>> \in Seq(Frames) /\ <<>> \in Seq(Messages)
      /\ <<>> \in Seq([message : Messages, turn : Nat])
  BY EmptySeq
<1>2. inbox \in [Targets -> Seq(Messages)]  BY EmptyInboxType DEF Init
<1>3. phase \in Phases  BY AgentLoopConstants, PhaseTypes DEF Init
<1>4. DriverOK  BY <1>1, AgentLoopConstants DEF Init, DriverOK, AwaitPcs, Endings
<1>5. activity = 0 /\ stack = <<>>  BY DEF Init
<1>6. CallsOK  BY <1>1, <1>2, <1>3, <1>5 DEF CallsOK
<1>7. OthersOK  BY AgentLoopConstants DEF Init, OthersOK, None
<1> QED  BY <1>4, <1>6, <1>7, TypeOKParts

(***************************************************************************)
(* Type correctness of the calls made into the agent.                      *)
(***************************************************************************)
LEMMA StartDriverType ==
  ASSUME TypeOK, NEW rest \in Seq(Frames), StartDriver(phase.turn, rest)
  PROVE  /\ phase' \in Phases /\ pc' \in AwaitPcs \cup StackPcs
         /\ stack' \in Seq(Frames) /\ activity' \in Nat
<1>1. stack' \in Seq(Frames)  BY FrameTypes, PushType DEF StartDriver
<1>2. phase' \in Phases  BY PhaseTypes DEF StartDriver, TypeOK
<1> QED  BY <1>1, <1>2 DEF StartDriver, TypeOK, StackPcs

LEMMA WakeDriverType ==
  ASSUME TypeOK, NEW rest \in Seq(Frames), NEW a \in BOOLEAN, WakeDriver(a, rest)
  PROVE  /\ phase' \in Phases /\ pc' \in AwaitPcs \cup StackPcs
         /\ stack' \in Seq(Frames) /\ activity' \in Nat
<1>1. CASE phase.kind = "idle"
  BY <1>1, StartDriverType DEF WakeDriver
<1>2. CASE phase.kind # "idle"
  <2>1. phase' = [phase EXCEPT !.wake = @ \/ Latches(a)]  BY <1>2 DEF WakeDriver
  <2>2. phase' \in Phases  BY <2>1 DEF TypeOK, Phases, Latches
  <2> QED  BY <1>2, <2>2 DEF WakeDriver, TypeOK
<1> QED  BY <1>1, <1>2

LEMMA SendType ==
  ASSUME TypeOK, NEW t \in Targets, NEW w \in BOOLEAN, Send(t, w)
  PROVE  TypeOK'
<1> DEFINE afterAbort == w /\ Aborted
           resolved == IF afterAbort THEN "next-turn" ELSE t
<1>1. resolved \in Targets /\ afterAbort \in BOOLEAN  BY DEF Targets
<1>2. sent' = sent + 1 /\ sent' \in Messages
  BY AgentLoopConstants DEF Send, TypeOK, Messages
<1>3. inbox' \in [Targets -> Seq(Messages)]
  BY <1>1, <1>2, InsertedType DEF Send, TypeOK
<1>4. stack' \in Seq(Frames)
  BY <1>1, <1>2, FrameTypes, PushType DEF Send, TypeOK
<1>5. CallsOK'  BY <1>3, <1>4 DEF Send, TypeOK, CallsOK
<1>6. list' \in [Messages -> Targets \cup {"none"}]
  BY <1>1, <1>2 DEF Send, TypeOK
<1>7. OthersOK'  BY <1>2, <1>6 DEF Send, TypeOK, OthersOK, waitVars, Messages
<1>8. DriverOK'  BY DEF Send, TypeOK, DriverOK, driverVars
<1> QED  BY <1>5, <1>7, <1>8, TypeOKParts

LEMMA WakeType ==
  ASSUME TypeOK, Wake
  PROVE  TypeOK'
<1> DEFINE frame == stack[Len(stack)]
<1>1. frame.afterAbort \in BOOLEAN /\ frame.message \in Messages
      /\ Pop(stack) \in Seq(Frames)
  BY OnTopType, FrameTypes DEF Wake
<1>2. WakeDriver(frame.afterAbort, Pop(stack))  BY DEF Wake
<1>3. CallsOK' /\ pc' \in AwaitPcs \cup StackPcs
  BY <1>1, <1>2, WakeDriverType DEF Wake, TypeOK, CallsOK
<1>4. DriverOK'  BY <1>3 DEF Wake, TypeOK, DriverOK
<1>5. left' \in [Messages -> {"none", "driver", "latch"}]
  BY <1>1 DEF Wake, TypeOK
<1>6. OthersOK'  BY <1>5 DEF Wake, TypeOK, OthersOK, waitVars
<1> QED  BY <1>3, <1>4, <1>6, TypeOKParts

LEMMA RemoveType ==
  ASSUME TypeOK, NEW m, Remove(m)
  PROVE  TypeOK'
<1>1. inbox' \in [Targets -> Seq(Messages)]  BY WithoutType DEF Remove, TypeOK
<1> QED  BY <1>1 DEF Remove, TypeOK, driverVars, waitVars, inputVars

\* cancel() changes the phase, the stack and the lists.
LEMMA CancelTypes ==
  ASSUME TypeOK, NEW cause \in Causes, NEW rest \in Seq(Frames),
         ClearTurns(cause, rest) \/ CancelAll(cause) \/ FinishCancel(cause, rest)
  PROVE  /\ phase' \in Phases /\ stack' \in Seq(Frames)
         /\ inbox' \in [Targets -> Seq(Messages)]
         /\ waiting' \in [Waiters \cup {"dispose"} -> Nat \cup {None}]
         /\ disposal' \in {"none", "cancelling", "waiting", "closing", "done"}
<1> DEFINE typed == /\ phase' \in Phases /\ stack' \in Seq(Frames)
                    /\ inbox' \in [Targets -> Seq(Messages)]
                    /\ waiting' \in [Waiters \cup {"dispose"} -> Nat \cup {None}]
                    /\ disposal' \in {"none", "cancelling", "waiting", "closing", "done"}
<1>1. ASSUME NEW r \in Seq(Frames), FinishCancel(cause, r)
      PROVE  typed
  <2>1. phase' = [phase EXCEPT !.wake = FALSE, !.abort = Abort(cause)]
    BY <1>1 DEF FinishCancel
  <2>2. Abort(cause) \in Causes \cup {"live"}  BY DEF TypeOK, Abort, Phases
  <2>3. phase' \in Phases  BY <2>1, <2>2 DEF TypeOK, Phases
  <2>4. waiting' \in [Waiters \cup {"dispose"} -> Nat \cup {None}]
        /\ disposal' \in {"none", "cancelling", "waiting", "closing", "done"}
    BY <1>1 DEF FinishCancel, AwaitIdle, TypeOK
  <2> QED  BY <1>1, <2>3, <2>4 DEF FinishCancel, TypeOK
<1>2. ASSUME NEW r \in Seq(Frames), NEW t \in Targets, NEW n \in Targets \cup {"none"},
             ClearList(t, n, cause, r)
      PROVE  typed
  <2>1. stack' \in Seq(Frames)  BY <1>2, FrameTypes, PushType DEF ClearList
  <2>2. <<>> \in Seq(Messages)  BY EmptySeq
  <2>3. inbox' \in [Targets -> Seq(Messages)]  BY <1>2, <2>2 DEF ClearList, TypeOK
  <2> QED  BY <1>2, <2>1, <2>3 DEF ClearList, TypeOK
<1>3. ASSUME NEW r \in Seq(Frames), ClearTurns(cause, r)
      PROVE  typed
  <2>1. "next-turn" \in Targets  BY DEF Targets
  <2> QED  BY <1>1, <1>2, <1>3, <2>1 DEF ClearTurns
<1>4. stack \in Seq(Frames) /\ "next-step" \in Targets /\ "next-turn" \in Targets
  BY DEF TypeOK, Targets
<1> QED  BY <1>1, <1>2, <1>3, <1>4 DEF CancelAll

LEMMA CancelStepsType ==
  ASSUME TypeOK, (\E cause \in Causes : Cancel(cause)) \/ CancelStep
  PROVE  TypeOK'
<1>1. CASE \E cause \in Causes : Cancel(cause)
  <2>1. <<>> \in Seq(Frames)  BY EmptySeq
  <2> QED  BY <1>1, <2>1, CancelTypes
           DEF Cancel, TypeOK, driverVars, inputVars
<1>2. CASE CancelStep
  <2>1. stack[Len(stack)].cause \in Causes /\ Pop(stack) \in Seq(Frames)
    BY <1>2, OnTopType, FrameTypes DEF CancelStep
  <2> QED  BY <1>2, <2>1, CancelTypes
           DEF CancelStep, TypeOK, driverVars, inputVars
<1> QED  BY <1>1, <1>2

LEMMA CancelKeepInboxType ==
  ASSUME TypeOK, NEW cause \in Causes, CancelKeepInbox(cause)
  PROVE  TypeOK'
<1>1. phase' \in Phases  BY DEF CancelKeepInbox, TypeOK, Phases
<1> QED  BY <1>1 DEF CancelKeepInbox, TypeOK, driverVars, waitVars, inputVars

LEMMA RunMaintenanceType ==
  ASSUME TypeOK, RunMaintenance
  PROVE  TypeOK'
<1>1. phase' \in Phases  BY PhaseTypes DEF RunMaintenance, TypeOK
<1> QED  BY <1>1 DEF RunMaintenance, TypeOK, driverVars, waitVars

LEMMA JobSettlesType ==
  ASSUME TypeOK, JobSettles
  PROVE  TypeOK'
<1>1. settled' \subseteq Nat  BY DEF JobSettles, Resolved, TypeOK
<1>2. CallsOK' /\ pc' \in AwaitPcs \cup StackPcs
  <2>1. <<>> \in Seq(Frames)  BY EmptySeq
  <2>2. CASE StartDriver(phase.turn, <<>>)
    BY <2>1, <2>2, StartDriverType DEF JobSettles, TypeOK, CallsOK
  <2>3. CASE phase' = Idle(phase.turn) /\ UNCHANGED <<activity, pc, stack>>
    BY <2>3, PhaseTypes DEF JobSettles, TypeOK, CallsOK
  <2> QED  BY <2>2, <2>3 DEF JobSettles
<1>3. DriverOK'  BY <1>2 DEF JobSettles, TypeOK, DriverOK
<1>4. OthersOK'  BY <1>1 DEF JobSettles, TypeOK, OthersOK, inputVars
<1> QED  BY <1>2, <1>3, <1>4, TypeOKParts

LEMMA WaiterType ==
  ASSUME TypeOK, (\E w \in Waiters : WhenIdle(w)) \/ Waiter
  PROVE  TypeOK'
<1>1. ASSUME NEW w \in Waiters \cup {"dispose"}, WhenIdle(w) \/ FollowActivity(w) \/ Quiesce(w)
      PROVE  TypeOK'
  <2>1. waiting' \in [Waiters \cup {"dispose"} -> Nat \cup {None}]
    BY <1>1 DEF WhenIdle, FollowActivity, Quiesce, TypeOK
  <2>2. disposal' \in {"none", "cancelling", "waiting", "closing", "done"}
    BY <1>1 DEF WhenIdle, FollowActivity, Quiesce, TypeOK
  <2>3. OthersOK'
    BY <1>1, <2>1, <2>2 DEF WhenIdle, FollowActivity, Quiesce, TypeOK, OthersOK, inputVars
  <2>4. CallsOK'  BY <1>1 DEF WhenIdle, FollowActivity, Quiesce, TypeOK, CallsOK
  <2>5. DriverOK'
    BY <1>1 DEF WhenIdle, FollowActivity, Quiesce, TypeOK, DriverOK, driverVars
  <2> QED  BY <2>3, <2>4, <2>5, TypeOKParts
<1> QED  BY <1>1 DEF Waiter

LEMMA DisposeType ==
  ASSUME TypeOK, Dispose \/ DisposeRejected \/ Detach
  PROVE  TypeOK'
<1>1. CASE Dispose
  <2>1. "disposed" \in Causes /\ stack \in Seq(Frames)  BY DEF Causes, TypeOK
  <2> QED  BY <1>1, <2>1, CancelTypes DEF Dispose, TypeOK, driverVars, inputVars
<1>2. CASE DisposeRejected \/ Detach
  <2>1. disposal' \in {"none", "cancelling", "waiting", "closing", "done"}
    BY <1>2 DEF DisposeRejected, Detach
  <2> QED  BY <1>2, <2>1 DEF DisposeRejected, Detach, TypeOK, driverVars, inputVars
<1> QED  BY <1>1, <1>2

(***************************************************************************)
(* Type correctness of the driver's steps.                                 *)
(***************************************************************************)
\* What a step of the driver may change of the stack and of its own state.
LogType == [turn : Nat, step : Nat, open : {"none", "turn", "step"},
            unanswered : BOOLEAN, owed : BOOLEAN, ending : Endings]

LEMMA LogTypeNow == TypeOK => log \in LogType
BY DEF TypeOK, LogType

LEMMA CloseTurnType ==
  ASSUME TypeOK, NEW rest \in Seq(Frames), NEW ending \in Endings,
         NEW at \in {"drained", "retire"}, CloseTurn(ending, at, rest)
  PROVE  /\ log' \in LogType /\ turnEnds' \in Endings /\ pc' \in AwaitPcs \cup StackPcs
         /\ stack' \in Seq(Frames) /\ batch' \in Seq(Messages)
         /\ decision' \in {"none", "reject", "empty", "enter"}
<1>1. <<>> \in Seq(Messages)  BY EmptySeq
<1>2. log' \in LogType  BY DEF CloseTurn, TypeOK, LogType
<1> QED  BY <1>1, <1>2 DEF CloseTurn, AwaitPcs, StackPcs

LEMMA CatchType ==
  ASSUME TypeOK, NEW rest \in Seq(Frames), Catch(rest)
  PROVE  /\ log' \in LogType /\ turnEnds' \in Endings /\ pc' \in AwaitPcs \cup StackPcs
         /\ stack' \in Seq(Frames) /\ batch' \in Seq(Messages)
         /\ decision' \in {"none", "reject", "empty", "enter"}
<1>1. <<>> \in Seq(Messages) /\ Push(rest, Driver) \in Seq(Frames)
  BY EmptySeq, PushType, FrameTypes
<1>2. "aborted" \in Endings /\ "error" \in Endings  BY DEF Endings
<1>3. CASE CloseTurn("aborted", "retire", rest)  BY <1>2, <1>3, CloseTurnType
<1>4. CASE ~CloseTurn("aborted", "retire", rest)
  BY <1>1, <1>2, <1>4 DEF Catch, TypeOK, LogType, StackPcs
<1> QED  BY <1>3, <1>4

LEMMA FailStepType ==
  ASSUME TypeOK, NEW rest \in Seq(Frames), FailStep(rest)
  PROVE  /\ log' \in LogType /\ pc' \in AwaitPcs \cup StackPcs /\ stack' \in Seq(Frames)
<1>1. stack' \in Seq(Frames)  BY FrameTypes, PushType DEF FailStep
<1>2. log' \in LogType  BY DEF FailStep, ClosedRecovered, TypeOK, LogType
<1> QED  BY <1>1, <1>2 DEF FailStep, StackPcs

LEMMA ClaimType ==
  ASSUME TypeOK, NEW rest \in Seq(Frames), NEW t \in Targets, Claim(t, rest)
  PROVE  /\ log' \in LogType /\ turnEnds' \in Endings /\ pc' \in AwaitPcs \cup StackPcs
         /\ stack' \in Seq(Frames) /\ batch' \in Seq(Messages)
         /\ decision' \in {"none", "reject", "empty", "enter"}
         /\ inbox' \in [Targets -> Seq(Messages)]
<1>1. CASE Catch(rest) /\ UNCHANGED inbox  BY <1>1, CatchType DEF TypeOK
<1>2. CASE ~(Catch(rest) /\ UNCHANGED inbox)
  <2>1. batch' = Batch(inbox, t) /\ inbox' = Unclaimed(inbox, t) /\ pc' = "pre-step"
        /\ stack' = rest /\ UNCHANGED <<log, turnEnds, decision>>
    BY <1>2 DEF Claim
  <2>2. inbox \in [Targets -> Seq(Messages)]  BY DEF TypeOK
  <2>3. inbox' \in [Targets -> Seq(Messages)] /\ batch' \in Seq(Messages)
    BY <2>1, <2>2, BatchType, UnclaimedType
  <2>4. pc' \in AwaitPcs \cup StackPcs  BY <2>1 DEF AwaitPcs
  <2> QED  BY <2>1, <2>3, <2>4, LogTypeNow DEF TypeOK
<1> QED  BY <1>1, <1>2

\* A step of the driver that leaves the calls' own state alone.
LEMMA DriverStepType ==
  ASSUME TypeOK,
         phase' \in Phases, stack' \in Seq(Frames), inbox' \in [Targets -> Seq(Messages)],
         pc' \in AwaitPcs \cup StackPcs, batch' \in Seq(Messages),
         decision' \in {"none", "reject", "empty", "enter"}, fresh' \in BOOLEAN,
         outcome' \in {"none", "completed", "max-tokens"}, turnEnds' \in Endings,
         log' \in LogType, unlogged' \in Seq(Messages),
         delivered' \in Seq([message : Messages, turn : Nat]), UNCHANGED OtherVars
  PROVE  TypeOK'
<1>1. DriverOK'  BY DEF DriverOK, LogType
<1>2. CallsOK'  BY DEF CallsOK, TypeOK, OtherVars
<1>3. OthersOK'  BY DEF OthersOK, TypeOK, OtherVars, waitVars, inputVars
<1> QED  BY <1>1, <1>2, <1>3, TypeOKParts

LEMMA StackTypes ==
  ASSUME TypeOK
  PROVE  /\ <<>> \in Seq(Frames) /\ <<Driver>> \in Seq(Frames)
         /\ \A r \in Seq(Frames) : Push(r, Driver) \in Seq(Frames)
<1>1. <<>> \in Seq(Frames)  BY EmptySeq
<1>2. <<Driver>> \in Seq(Frames)  BY FrameTypes
<1> QED  BY <1>1, <1>2, FrameTypes, PushType

LEMMA StartTurnType ==
  ASSUME TypeOK, StartTurn
  PROVE  TypeOK'
<1> DEFINE rest == IF pc = "turn" THEN Pop(stack) ELSE <<>>
<1>1. rest \in Seq(Frames) /\ Push(rest, Driver) \in Seq(Frames)
  BY OnTopType, StackTypes DEF StartTurn
<1>2. stack' \in Seq(Frames)  BY <1>1 DEF StartTurn
<1>3. phase' \in Phases
  <2>1. phase' = phase \/ phase' = [phase EXCEPT !.turn = @ + 1]  BY DEF StartTurn
  <2>2. phase \in Phases  BY DEF TypeOK
  <2> QED  BY <2>1, <2>2 DEF Phases
<1>4. log' \in LogType
  <2>1. phase.turn + 1 \in Nat  BY PhaseTypes DEF TypeOK
  <2>2. \/ log' = log
        \/ log' = [log EXCEPT !.turn = phase.turn + 1, !.step = 0, !.open = "turn",
                              !.owed = FALSE]
    BY DEF StartTurn
  <2>3. log \in LogType  BY LogTypeNow
  <2>4. ASSUME NEW n \in Nat,
               log' = [log EXCEPT !.turn = n, !.step = 0, !.open = "turn", !.owed = FALSE]
        PROVE  log' \in LogType
    BY <2>3, <2>4 DEF LogType
  <2> QED  BY <2>1, <2>2, <2>3, <2>4
<1>5. pc' \in AwaitPcs \cup StackPcs  BY DEF StartTurn, AwaitPcs, StackPcs
<1>6. turnEnds' \in Endings  BY DEF StartTurn, TypeOK, Endings
<1>7. UNCHANGED <<inbox, batch, decision, fresh, outcome, unlogged, delivered, OtherVars>>
  BY DEF StartTurn
<1> QED  BY <1>2, <1>3, <1>4, <1>5, <1>6, <1>7, DriverStepType DEF TypeOK
LEMMA ClaimTurnType ==
  ASSUME TypeOK, ClaimTurn
  PROVE  TypeOK'
<1>1. Pop(stack) \in Seq(Frames)  BY OnTopType DEF ClaimTurn
<1>2. "next-turn" \in Targets  BY DEF Targets
<1>3. Claim("next-turn", Pop(stack))
      /\ UNCHANGED <<phase, fresh, outcome, unlogged, delivered, OtherVars>>
  BY DEF ClaimTurn
<1> QED  BY <1>1, <1>2, <1>3, ClaimType, DriverStepType DEF TypeOK
LEMMA PreStepSettlesType ==
  ASSUME TypeOK, PreStepSettles
  PROVE  TypeOK'
<1>1. UNCHANGED <<phase, inbox, fresh, outcome, unlogged, delivered,
                  OtherVars>>  BY DEF PreStepSettles
<1>2. CASE Catch(<<>>)
  BY <1>1, <1>2, StackTypes, CatchType, DriverStepType DEF TypeOK
<1>3. CASE ~Catch(<<>>)
  <2>1. <<>> \in Seq(Messages)  BY EmptySeq
  <2>2. batch' \in Seq(Messages)  BY <1>3, <2>1 DEF PreStepSettles, TypeOK
  <2>3. pc' \in AwaitPcs \cup StackPcs  BY <1>3 DEF PreStepSettles, AwaitPcs
  <2>4. decision' \in {"none", "reject", "empty", "enter"} /\ UNCHANGED <<stack, log, turnEnds>>
    BY <1>3 DEF PreStepSettles
  <2> QED  BY <1>1, <2>2, <2>3, <2>4, LogTypeNow, DriverStepType DEF TypeOK
<1> QED  BY <1>2, <1>3
LEMMA EnterStepType ==
  ASSUME TypeOK, EnterStep
  PROVE  TypeOK'
<1>1. UNCHANGED <<inbox, outcome, unlogged, delivered, OtherVars>>  BY DEF EnterStep
<1>2. ASSUME NEW ending \in Endings, NEW at \in {"drained", "retire"},
             NEW rest \in Seq(Frames), CloseTurn(ending, at, rest),
             UNCHANGED <<phase, fresh>>
      PROVE  TypeOK'
  <2>1. /\ log' \in LogType /\ turnEnds' \in Endings /\ pc' \in AwaitPcs \cup StackPcs
        /\ stack' \in Seq(Frames) /\ batch' \in Seq(Messages)
        /\ decision' \in {"none", "reject", "empty", "enter"}
    BY <1>2, CloseTurnType
  <2>2. phase' \in Phases /\ fresh' \in BOOLEAN  BY <1>2 DEF TypeOK
  <2> QED  BY <1>1, <2>1, <2>2, DriverStepType DEF TypeOK
<1>3. CASE CloseTurn("blocked", "retire", <<>>) /\ UNCHANGED <<phase, fresh>>
  BY <1>2, <1>3, StackTypes DEF Endings
<1>4. CASE CloseTurn(turnEnds, "drained", <<Driver>>) /\ UNCHANGED <<phase, fresh>>
  BY <1>2, <1>4, StackTypes DEF TypeOK
<1>5. CASE CloseTurn("completed", "retire", <<>>) /\ UNCHANGED <<phase, fresh>>
  BY <1>2, <1>5, StackTypes DEF Endings
<1>6. CASE Catch(<<>>) /\ UNCHANGED <<phase, fresh>>
  BY <1>1, <1>6, StackTypes, CatchType, DriverStepType DEF TypeOK
<1>7. CASE /\ phase' = [phase EXCEPT !.step = @ + 1]
           /\ log' = [log EXCEPT !.step = phase.step + 1, !.open = "step"]
           /\ fresh' = TRUE /\ decision' = "none"
           /\ pc' = "request"
           /\ UNCHANGED <<stack, batch, turnEnds>>
  <2>1. phase' \in Phases
    <3>1. phase' = [phase EXCEPT !.step = @ + 1] /\ phase \in Phases  BY <1>7 DEF TypeOK
    <3> QED  BY <3>1 DEF Phases
  <2>2. phase.step + 1 \in Nat  BY PhaseTypes DEF TypeOK
  <2>3. log' \in LogType  BY <1>7, <2>2, LogTypeNow DEF LogType
  <2>4. pc' \in AwaitPcs \cup StackPcs  BY <1>7 DEF AwaitPcs
  <2> QED  BY <1>1, <1>7, <2>1, <2>3, <2>4, DriverStepType DEF TypeOK
<1> QED  BY <1>3, <1>4, <1>5, <1>6, <1>7 DEF EnterStep
LEMMA RequestSettlesType ==
  ASSUME TypeOK, RequestSettles
  PROVE  TypeOK'
<1>1. UNCHANGED <<phase, inbox, batch, decision, fresh, outcome, turnEnds, unlogged, delivered,
                  OtherVars>>
  BY DEF RequestSettles
<1>2. CASE FailStep(<<>>)
  BY <1>1, <1>2, StackTypes, FailStepType, DriverStepType DEF TypeOK
<1>3. CASE ~FailStep(<<>>)
  <2>1. pc' \in AwaitPcs \cup StackPcs /\ UNCHANGED <<stack, log>>
    BY <1>3 DEF RequestSettles, AwaitPcs
  <2> QED  BY <1>1, <2>1, LogTypeNow, DriverStepType DEF TypeOK
<1> QED  BY <1>2, <1>3
LEMMA BeginAdmissionType ==
  ASSUME TypeOK, BeginAdmission
  PROVE  TypeOK'
<1>1. UNCHANGED <<phase, inbox, batch, decision, outcome, turnEnds, log, delivered, OtherVars>>
      /\ fresh' \in BOOLEAN
  BY DEF BeginAdmission
<1>2. unlogged' \in Seq(Messages)  BY EmptySeq DEF BeginAdmission, ToLog, TypeOK
<1>3. pc' \in AwaitPcs \cup StackPcs /\ stack' \in Seq(Frames)
  BY StackTypes DEF BeginAdmission, StackPcs
<1> QED  BY <1>1, <1>2, <1>3, LogTypeNow, DriverStepType DEF TypeOK
LEMMA AdmittedType ==
  ASSUME TypeOK, NEW message \in Messages
  PROVE  Admitted(message) \in Seq([message : Messages, turn : Nat])
<1>1. phase.turn \in Nat  BY PhaseTypes DEF TypeOK
<1>2. Entry(message) \in [message : Messages, turn : Nat]  BY <1>1 DEF Entry
<1> QED  BY <1>2, AppendProperties DEF Admitted, TypeOK
LEMMA AdmitMessageType ==
  ASSUME TypeOK, AdmitMessage
  PROVE  TypeOK'
<1>1. UNCHANGED <<phase, pc, stack, inbox, batch, decision, fresh, outcome, turnEnds, log,
                  OtherVars>>
  BY DEF AdmitMessage
<1>2. unlogged \in Seq(Messages) /\ unlogged # <<>>  BY DEF AdmitMessage, TypeOK
<1>3. Head(unlogged) \in Messages /\ Tail(unlogged) \in Seq(Messages)
  BY <1>2, HeadTailProperties
<1>4. unlogged' \in Seq(Messages) /\ delivered' \in Seq([message : Messages, turn : Nat])
  BY <1>3, AdmittedType DEF AdmitMessage
<1> QED  BY <1>1, <1>4, LogTypeNow, DriverStepType DEF TypeOK
LEMMA OpenStreamType ==
  ASSUME TypeOK, OpenStream
  PROVE  TypeOK'
<1>1. UNCHANGED <<phase, inbox, batch, decision, fresh, outcome, turnEnds, unlogged, delivered,
                  OtherVars>>
  BY DEF OpenStream
<1>2. Pop(stack) \in Seq(Frames)  BY OnTopType DEF OpenStream
<1>3. CASE FailStep(Pop(stack))
  BY <1>1, <1>2, <1>3, FailStepType, DriverStepType DEF TypeOK
<1>4. CASE ~FailStep(Pop(stack))
  <2>1. pc' = "stream" /\ stack' = Pop(stack) /\ UNCHANGED log  BY <1>4 DEF OpenStream
  <2>2. pc' \in AwaitPcs \cup StackPcs  BY <2>1 DEF AwaitPcs
  <2> QED  BY <1>1, <1>2, <2>1, <2>2, LogTypeNow, DriverStepType DEF TypeOK
<1> QED  BY <1>3, <1>4
LEMMA StreamSettlesType ==
  ASSUME TypeOK, StreamSettles
  PROVE  TypeOK'
<1>1. UNCHANGED <<phase, inbox, batch, decision, fresh, turnEnds, unlogged, delivered, OtherVars>>
  BY DEF StreamSettles
<1>2. CASE FailStep(<<>>) /\ UNCHANGED outcome
  BY <1>1, <1>2, StackTypes, FailStepType, DriverStepType DEF TypeOK
<1>3. CASE ~(FailStep(<<>>) /\ UNCHANGED outcome)
  <2>1. pc' \in AwaitPcs \cup StackPcs /\ UNCHANGED stack
    BY <1>3 DEF StreamSettles, AwaitPcs
  <2>2. log' \in LogType  BY <1>3, LogTypeNow DEF StreamSettles, LogType
  <2>3. outcome' \in {"none", "completed", "max-tokens"}  BY <1>3 DEF StreamSettles, TypeOK
  <2> QED  BY <1>1, <2>1, <2>2, <2>3, DriverStepType DEF TypeOK
<1> QED  BY <1>2, <1>3
LEMMA RequestErrorSettlesType ==
  ASSUME TypeOK, RequestErrorSettles
  PROVE  TypeOK'
<1>1. UNCHANGED <<phase, inbox, batch, decision, fresh, outcome, turnEnds, unlogged, delivered,
                  OtherVars>>
  BY DEF RequestErrorSettles
<1>2. CASE FailStep(<<>>)
  BY <1>1, <1>2, StackTypes, FailStepType, DriverStepType DEF TypeOK
<1>3. CASE ~FailStep(<<>>)
  <2>1. pc' \in AwaitPcs \cup StackPcs /\ UNCHANGED <<stack, log>>
    BY <1>3 DEF RequestErrorSettles, AwaitPcs
  <2> QED  BY <1>1, <2>1, LogTypeNow, DriverStepType DEF TypeOK
<1> QED  BY <1>2, <1>3
LEMMA ToolsSettleType ==
  ASSUME TypeOK, ToolsSettle
  PROVE  TypeOK'
<1>1. UNCHANGED <<phase, inbox, batch, decision, fresh, turnEnds, unlogged, delivered, OtherVars>>
  BY DEF ToolsSettle
<1>2. CASE FailStep(<<>>) /\ UNCHANGED outcome
  BY <1>1, <1>2, StackTypes, FailStepType, DriverStepType DEF TypeOK
<1>3. ASSUME NEW concluded \in BOOLEAN,
             outcome' = IF concluded THEN "completed" ELSE "none",
             log' = [log EXCEPT !.unanswered = FALSE, !.owed = ~concluded],
             pc' = "step-end", UNCHANGED stack
      PROVE  TypeOK'
  <2>1. pc' \in AwaitPcs \cup StackPcs  BY <1>3 DEF AwaitPcs
  <2>2. log' \in LogType  BY <1>3, LogTypeNow DEF LogType
  <2>3. outcome' \in {"none", "completed", "max-tokens"}  BY <1>3
  <2> QED  BY <1>1, <1>3, <2>1, <2>2, <2>3, DriverStepType DEF TypeOK
<1> QED  BY <1>2, <1>3 DEF ToolsSettle
LEMMA EndStepType ==
  ASSUME TypeOK, EndStep
  PROVE  TypeOK'
<1>1. UNCHANGED <<phase, inbox, decision, fresh, unlogged, delivered, OtherVars>>  BY DEF EndStep
<1>2. turnEnds' \in Endings  BY DEF EndStep, EndingAfter, TypeOK, Endings
<1>3. log' \in LogType  BY LogTypeNow DEF EndStep, LogType
<1>4. batch' \in Seq(Messages)  BY EmptySeq DEF EndStep
<1>5. pc' \in AwaitPcs \cup StackPcs  BY DEF EndStep, StackPcs
<1>6. stack' \in Seq(Frames) /\ outcome' \in {"none", "completed", "max-tokens"}
  BY StackTypes DEF EndStep
<1> QED  BY <1>1, <1>2, <1>3, <1>4, <1>5, <1>6, DriverStepType DEF TypeOK
LEMMA ContinueTurnType ==
  ASSUME TypeOK, ContinueTurn
  PROVE  TypeOK'
<1>1. UNCHANGED <<phase, fresh, outcome, unlogged, delivered, OtherVars>>  BY DEF ContinueTurn
<1>2. Pop(stack) \in Seq(Frames)  BY OnTopType DEF ContinueTurn
<1>3. CASE Claim("next-step", Pop(stack))
  <2>1. "next-step" \in Targets  BY DEF Targets
  <2> QED  BY <1>1, <1>2, <1>3, <2>1, ClaimType, DriverStepType DEF TypeOK
<1>4. CASE ~Claim("next-step", Pop(stack))
  <2>1. pc' = "stopping" /\ stack' = Pop(stack)
        /\ UNCHANGED <<inbox, batch, decision, turnEnds, log>>
    BY <1>4 DEF ContinueTurn
  <2>2. pc' \in AwaitPcs \cup StackPcs  BY <2>1 DEF AwaitPcs
  <2> QED  BY <1>1, <1>2, <2>1, <2>2, LogTypeNow, DriverStepType DEF TypeOK
<1> QED  BY <1>3, <1>4
LEMMA StoppingSettlesType ==
  ASSUME TypeOK, StoppingSettles
  PROVE  TypeOK'
<1>1. UNCHANGED <<phase, fresh, outcome, unlogged, delivered, OtherVars>>  BY DEF StoppingSettles
<1>2. CASE Catch(<<>>) /\ UNCHANGED inbox
  BY <1>1, <1>2, StackTypes, CatchType, DriverStepType DEF TypeOK
<1>3. CASE CloseTurn(turnEnds, "drained", <<Driver>>) /\ UNCHANGED inbox
  BY <1>1, <1>3, StackTypes, CloseTurnType, DriverStepType DEF TypeOK
<1>4. CASE Claim("next-step", <<>>)
  <2>1. "next-step" \in Targets  BY DEF Targets
  <2> QED  BY <1>1, <1>4, <2>1, StackTypes, ClaimType, DriverStepType DEF TypeOK
<1> QED  BY <1>2, <1>3, <1>4 DEF StoppingSettles
LEMMA CatchStepType ==
  ASSUME TypeOK, CatchStep
  PROVE  TypeOK'
<1>1. Pop(stack) \in Seq(Frames)  BY OnTopType DEF CatchStep
<1>2. Catch(Pop(stack)) /\ UNCHANGED <<phase, inbox, fresh, outcome, unlogged, delivered,
                                       OtherVars>>
  BY DEF CatchStep
<1> QED  BY <1>1, <1>2, CatchType, DriverStepType DEF TypeOK
LEMMA EndFailedTurnType ==
  ASSUME TypeOK, EndFailedTurn
  PROVE  TypeOK'
<1>1. Pop(stack) \in Seq(Frames)  BY OnTopType DEF EndFailedTurn
<1>2. CloseTurn("error", "retire", Pop(stack))
      /\ UNCHANGED <<phase, inbox, fresh, outcome, unlogged, delivered, OtherVars>>
  BY DEF EndFailedTurn
<1>3. "error" \in Endings  BY DEF Endings
<1> QED  BY <1>1, <1>2, <1>3, CloseTurnType, DriverStepType DEF TypeOK
LEMMA DrainType ==
  ASSUME TypeOK, Drain
  PROVE  TypeOK'
<1>1. UNCHANGED <<inbox, batch, decision, fresh, outcome, turnEnds, log, unlogged, delivered,
                  OtherVars>>
  BY DEF Drain
<1>2. OnTop("driver") /\ stack' = Pop(stack)  BY DEF Drain
<1>3. pc' \in AwaitPcs \cup StackPcs  BY DEF Drain, AwaitPcs
<1>4. phase' \in Phases
  <2>1. phase' = phase \/ phase' = Renewed(phase)  BY DEF Drain
  <2>2. \A p \in Phases : Renewed(p) \in Phases  BY DEF Renewed, Phases, Causes
  <2>3. phase \in Phases  BY DEF TypeOK
  <2> QED  BY <2>1, <2>2, <2>3
<1>5. stack' \in Seq(Frames)  BY <1>2, OnTopType
<1> QED  BY <1>1, <1>3, <1>4, <1>5, LogTypeNow, DriverStepType DEF TypeOK
LEMMA RetireType ==
  ASSUME TypeOK, Retire
  PROVE  TypeOK'
<1>1. UNCHANGED <<inbox, batch, decision, fresh, outcome, turnEnds, log, unlogged, delivered,
                  OtherVars>>
  BY DEF Retire
<1>2. phase.turn \in Nat /\ phase.wake \in BOOLEAN /\ activity \in Nat
  BY PhaseTypes DEF TypeOK
<1>3. [op |-> "retire", wake |-> phase.wake, activity |-> activity] \in Frames
  BY <1>2, FrameTypes
<1>4. stack' \in Seq(Frames)  BY <1>3 DEF Retire
<1>5. phase' \in Phases  BY <1>2, PhaseTypes DEF Retire
<1>6. pc' \in AwaitPcs \cup StackPcs  BY DEF Retire, AwaitPcs
<1> QED  BY <1>1, <1>4, <1>5, <1>6, LogTypeNow, DriverStepType DEF TypeOK
LEMMA ReplayType ==
  ASSUME TypeOK, Replay
  PROVE  TypeOK'
<1> DEFINE frame == stack[Len(stack)]
<1>1. frame.activity \in Nat /\ Pop(stack) \in Seq(Frames)
  BY OnTopType, FrameTypes DEF Replay
<1>2. CallsOK' /\ pc' \in AwaitPcs \cup StackPcs
  <2>1. CASE WakeDriver(FALSE, Pop(stack))
    BY <1>1, <2>1, WakeDriverType DEF Replay, TypeOK, CallsOK
  <2>2. CASE stack' = Pop(stack) /\ UNCHANGED <<phase, pc, activity>>
    BY <1>1, <2>2 DEF Replay, TypeOK, CallsOK
  <2> QED  BY <2>1, <2>2 DEF Replay
<1>3. DriverOK'  BY <1>2 DEF Replay, TypeOK, DriverOK
<1>4. OthersOK'  BY <1>1 DEF Replay, Resolved, TypeOK, OthersOK, inputVars
<1> QED  BY <1>2, <1>3, <1>4, TypeOKParts
(***************************************************************************)
(* TypeOK holds in every behaviour: in particular the driver and its       *)
(* callers only ever push and pop the frames of calls in progress.         *)
(***************************************************************************)
THEOREM TypeCorrect == Spec => []TypeOK
<1>1. Init => TypeOK  BY InitType
<1>2. TypeOK /\ [Next]_vars => TypeOK'
  <2> SUFFICES ASSUME TypeOK, [Next]_vars PROVE TypeOK'  OBVIOUS
  <2>1. CASE UNCHANGED vars
    BY <2>1 DEF vars, driverVars, waitVars, inputVars, TypeOK
  <2>2. CASE Call
    <3>1. "user" \in Causes  BY DEF Causes
    <3> QED  BY <2>2, <3>1, SendType, RemoveType, CancelStepsType, CancelKeepInboxType,
                RunMaintenanceType, WaiterType, DisposeType DEF Call
  <2>3. CASE CallStep  BY <2>3, WakeType, CancelStepsType DEF CallStep
  <2>4. CASE DriverStep
    BY <2>4, StartTurnType, ClaimTurnType, PreStepSettlesType, EnterStepType,
       RequestSettlesType, BeginAdmissionType, AdmitMessageType, OpenStreamType,
       StreamSettlesType, RequestErrorSettlesType, ToolsSettleType, EndStepType,
       ContinueTurnType, StoppingSettlesType, CatchStepType,
       EndFailedTurnType, DrainType, RetireType, ReplayType DEF DriverStep
  <2>5. CASE JobSettles  BY <2>5, JobSettlesType
  <2>6. CASE Waiter  BY <2>6, WaiterType
  <2>7. CASE Detach  BY <2>7, DisposeType
  <2> QED  BY <2>1, <2>2, <2>3, <2>4, <2>5, <2>6, <2>7 DEF Next
<1> QED  BY <1>1, <1>2, PTL DEF Spec

-----------------------------------------------------------------------------
(***************************************************************************)
(* BoundariesAgree is inductive on top of TypeOK.  Calls and jobs leave    *)
(* what it speaks of alone, or start a driver on an idle agent; the steps  *)
(* of the driver move the log and the position together.                   *)
(***************************************************************************)
LEMMA BoundaryUntouched ==
  ASSUME BoundariesAgree, UNCHANGED <<pc, log>>,
         phase'.turn = phase.turn, phase'.step = phase.step,
         phase'.kind = "running" <=> phase.kind = "running"
  PROVE  BoundariesAgree'
BY DEF BoundariesAgree, OpenAt

LEMMA PhaseUpdates ==
  ASSUME NEW p \in Phases, NEW w \in BOOLEAN, NEW a \in Causes \cup {"live"}
  PROVE  /\ LET q == [p EXCEPT !.wake = w]
            IN q.turn = p.turn /\ q.step = p.step /\ q.kind = p.kind
         /\ LET q == [p EXCEPT !.abort = a]
            IN q.turn = p.turn /\ q.step = p.step /\ q.kind = p.kind
         /\ LET q == [p EXCEPT !.wake = w, !.abort = a]
            IN q.turn = p.turn /\ q.step = p.step /\ q.kind = p.kind
BY DEF Phases

LEMMA ActivePhases ==
  ASSUME NEW n \in Nat, NEW k \in {"maintenance", "running"}
  PROVE  /\ Idle(n).turn = n /\ Idle(n).step = 0 /\ Idle(n).kind = "idle"
         /\ Active(k, n).turn = n /\ Active(k, n).step = 0 /\ Active(k, n).kind = k
BY DEF Idle, Active

\* A driver starts when none runs, on a log with nothing open.
LEMMA StartDriverBoundary ==
  ASSUME TypeOK, BoundariesAgree, phase.kind # "running", UNCHANGED log,
         NEW rest, StartDriver(phase.turn, rest)
  PROVE  BoundariesAgree'
<1>1. phase.turn \in Nat  BY PhaseTypes DEF TypeOK
<1>2. phase'.turn = phase.turn /\ phase'.step = 0 /\ phase'.kind = "running" /\ pc' = "turn"
  BY <1>1, ActivePhases DEF StartDriver
<1>3. log.open = "none" /\ log.turn = phase.turn /\ ~log.unanswered
  BY DEF BoundariesAgree, OpenAt
<1> QED  BY <1>2, <1>3 DEF BoundariesAgree, OpenAt

LEMMA WakeDriverBoundary ==
  ASSUME TypeOK, BoundariesAgree, UNCHANGED log,
         NEW a \in BOOLEAN, NEW rest, WakeDriver(a, rest)
  PROVE  BoundariesAgree'
<1>1. CASE phase.kind = "idle"  BY <1>1, StartDriverBoundary DEF WakeDriver
<1>2. CASE phase.kind # "idle"
  <2>1. phase' = [phase EXCEPT !.wake = @ \/ Latches(a)] /\ UNCHANGED pc
    BY <1>2 DEF WakeDriver
  <2>2. phase'.turn = phase.turn /\ phase'.step = phase.step /\ phase'.kind = phase.kind
    BY <2>1 DEF TypeOK, Phases
  <2> QED  BY <2>1, <2>2, BoundaryUntouched
<1> QED  BY <1>1, <1>2

LEMMA CancelBoundary ==
  ASSUME TypeOK, BoundariesAgree, UNCHANGED <<pc, log>>, NEW cause, NEW rest,
         ClearTurns(cause, rest) \/ CancelAll(cause) \/ FinishCancel(cause, rest)
  PROVE  BoundariesAgree'
<1>1. \/ phase' = [phase EXCEPT !.wake = FALSE, !.abort = Abort(cause)]
      \/ phase' = phase
  BY DEF ClearTurns, CancelAll, FinishCancel, ClearList
<1>2. phase'.turn = phase.turn /\ phase'.step = phase.step /\ phase'.kind = phase.kind
  BY <1>1 DEF TypeOK, Phases
<1> QED  BY <1>2, BoundaryUntouched

LEMMA CallBoundary ==
  ASSUME TypeOK, BoundariesAgree, Call \/ CallStep \/ JobSettles \/ Waiter \/ Detach
  PROVE  BoundariesAgree'
<1>1. ASSUME NEW t, NEW w, Send(t, w) PROVE BoundariesAgree'
  BY <1>1, BoundaryUntouched DEF Send, driverVars
<1>2. ASSUME NEW m, Remove(m) PROVE BoundariesAgree'
  BY <1>2, BoundaryUntouched DEF Remove, driverVars
<1>3. CASE Cancel("user") \/ CancelStep \/ Dispose
  <2>1. UNCHANGED <<pc, log>>  BY <1>3 DEF Cancel, CancelStep, Dispose, driverVars
  <2> QED  BY <1>3, <2>1, CancelBoundary DEF Cancel, CancelStep, Dispose
<1>4. ASSUME NEW c, CancelKeepInbox(c) PROVE BoundariesAgree'
  <2>1. phase'.turn = phase.turn /\ phase'.step = phase.step /\ phase'.kind = phase.kind
    BY <1>4 DEF CancelKeepInbox, TypeOK, Phases
  <2> QED  BY <1>4, <2>1, BoundaryUntouched DEF CancelKeepInbox, driverVars
<1>5. CASE RunMaintenance
  <2>1. phase.turn \in Nat  BY PhaseTypes DEF TypeOK
  <2>2. phase'.turn = phase.turn /\ phase'.step = 0 /\ phase'.kind = "maintenance"
    BY <1>5, <2>1, ActivePhases DEF RunMaintenance
  <2>3. log.open = "none" /\ pc = "none" /\ UNCHANGED <<pc, log>>
    BY <1>5 DEF RunMaintenance, BoundariesAgree, OpenAt, driverVars
  <2> QED  BY <2>2, <2>3 DEF BoundariesAgree, OpenAt
<1>6. ASSUME NEW w, WhenIdle(w) \/ FollowActivity(w) \/ Quiesce(w) PROVE BoundariesAgree'
  BY <1>6, BoundaryUntouched DEF WhenIdle, FollowActivity, Quiesce, driverVars
<1>9. CASE DisposeRejected \/ Detach
  BY <1>9, BoundaryUntouched DEF DisposeRejected, Detach, driverVars
<1>7. CASE Wake
  <2>1. stack[Len(stack)].afterAbort \in BOOLEAN  BY <1>7, OnTopType, FrameTypes DEF Wake
  <2> QED  BY <1>7, <2>1, WakeDriverBoundary DEF Wake
<1>8. CASE JobSettles
  <2>1. CASE StartDriver(phase.turn, <<>>)
    BY <1>8, <2>1, StartDriverBoundary DEF JobSettles
  <2>2. CASE phase' = Idle(phase.turn) /\ UNCHANGED <<activity, pc, stack>>
    <3>1. phase.turn \in Nat  BY PhaseTypes DEF TypeOK
    <3>2. phase'.turn = phase.turn /\ phase'.step = 0 /\ phase'.kind = "idle"
      BY <2>2, <3>1, ActivePhases
    <3>3. log.open = "none" /\ pc = "none" /\ UNCHANGED <<pc, log>>
      BY <1>8, <2>2 DEF JobSettles, BoundariesAgree, OpenAt
    <3> QED  BY <3>2, <3>3 DEF BoundariesAgree, OpenAt
  <2> QED  BY <1>8, <2>1, <2>2 DEF JobSettles
<1> QED
  BY <1>1, <1>2, <1>3, <1>4, <1>5, <1>6, <1>7, <1>8, <1>9 DEF Call, CallStep, Waiter

(***************************************************************************)
(* The driver's steps.                                                     *)
(***************************************************************************)
\* A step that leaves the phase alone and moves the log within the turn.
LEMMA MoveBoundary ==
  ASSUME BoundariesAgree, UNCHANGED phase, pc # "none", pc' # "none",
         log'.turn = log.turn, log'.step = log.step, log'.open = OpenAt',
         log.open = "none" => log'.open = "none",
         log'.unanswered => pc' = "tools",
         pc' \in {"turn", "turn-again"} => phase.step = 0
  PROVE  BoundariesAgree'
BY DEF BoundariesAgree

LEMMA ClosedTurn ==
  ASSUME TypeOK, BoundariesAgree, NEW ending, NEW rest, NEW at \in {"drained", "retire"},
         UNCHANGED phase, pc # "none", pc # "tools", CloseTurn(ending, at, rest)
  PROVE  BoundariesAgree'
<1>1. /\ log'.turn = log.turn /\ log'.step = log.step /\ log'.open = "none"
      /\ log'.unanswered = log.unanswered /\ pc' = at
  BY DEF CloseTurn, TypeOK
<1>2. OpenAt' = "none"  BY <1>1 DEF OpenAt
<1>3. ~log.unanswered  BY DEF BoundariesAgree
<1> QED  BY <1>1, <1>2, <1>3, MoveBoundary

LEMMA Caught ==
  ASSUME TypeOK, BoundariesAgree, NEW rest, UNCHANGED phase, pc # "none", pc # "tools",
         log.open = "turn", Catch(rest)
  PROVE  BoundariesAgree'
<1>1. CASE CloseTurn("aborted", "retire", rest)  BY <1>1, ClosedTurn
<1>2. CASE ~CloseTurn("aborted", "retire", rest)
  <2>1. pc' = "reported" /\ UNCHANGED log  BY <1>2 DEF Catch
  <2>2. OpenAt' = "turn"  BY <2>1 DEF OpenAt
  <2>3. ~log.unanswered  BY DEF BoundariesAgree
  <2> QED  BY <2>1, <2>2, <2>3, MoveBoundary
<1> QED  BY <1>1, <1>2

LEMMA FailedStep ==
  ASSUME TypeOK, BoundariesAgree, NEW rest, UNCHANGED phase, log.open = "step",
         FailStep(rest)
  PROVE  BoundariesAgree'
<1>1. /\ log'.turn = log.turn /\ log'.step = log.step /\ log'.open = "turn"
      /\ log'.unanswered = FALSE /\ pc' = "caught"
  BY DEF FailStep, ClosedRecovered, TypeOK
<1>2. OpenAt' = "turn"  BY <1>1 DEF OpenAt
<1>3. pc # "none"  BY DEF BoundariesAgree, OpenAt
<1> QED  BY <1>1, <1>2, <1>3, MoveBoundary

LEMMA ClaimedStep ==
  ASSUME TypeOK, BoundariesAgree, NEW t, NEW rest, UNCHANGED phase, pc # "none", pc # "tools",
         log.open = "turn", Claim(t, rest)
  PROVE  BoundariesAgree'
<1>1. CASE Catch(rest)  BY <1>1, Caught
<1>2. CASE ~Catch(rest)
  <2>1. pc' = "pre-step" /\ UNCHANGED log  BY <1>2 DEF Claim
  <2>2. OpenAt' = "turn"  BY <2>1 DEF OpenAt
  <2>3. ~log.unanswered  BY DEF BoundariesAgree
  <2> QED  BY <2>1, <2>2, <2>3, MoveBoundary
<1> QED  BY <1>1, <1>2

\* A step inside the open step: the log keeps its boundaries.
LEMMA MovedInStep ==
  ASSUME TypeOK, BoundariesAgree, UNCHANGED phase, log.open = "step",
         log'.turn = log.turn, log'.step = log.step, log'.open = log.open,
         pc' \in {"request", "prepared", "admitting", "stream", "request-error", "tools",
                  "step-end"},
         log'.unanswered => pc' = "tools"
  PROVE  BoundariesAgree'
<1>1. OpenAt' = "step"  BY DEF OpenAt
<1>2. pc # "none"  BY DEF BoundariesAgree, OpenAt
<1> QED  BY <1>1, <1>2, MoveBoundary

LEMMA StartTurnBoundary ==
  ASSUME TypeOK, BoundariesAgree, StartTurn
  PROVE  BoundariesAgree'
<1>1. /\ pc \in {"turn", "turn-again"} /\ log.open = "none" /\ phase.step = 0
      /\ ~log.unanswered /\ phase.kind = "running"
  BY DEF StartTurn, BoundariesAgree, OpenAt
<1>2. CASE pc' = "retire" /\ UNCHANGED <<phase, log, turnEnds>>
  BY <1>1, <1>2 DEF BoundariesAgree, OpenAt
<1>3. CASE /\ phase' = [phase EXCEPT !.turn = @ + 1]
           /\ log' = [log EXCEPT !.turn = phase.turn + 1, !.step = 0, !.open = "turn",
                                 !.owed = FALSE]
           /\ pc' = "opened"
  <2>1. phase'.turn = phase.turn + 1 /\ phase'.step = phase.step /\ phase'.kind = phase.kind
    BY <1>3 DEF TypeOK, Phases
  <2>2. /\ log'.turn = phase.turn + 1 /\ log'.step = 0 /\ log'.open = "turn"
        /\ log'.unanswered = log.unanswered
    BY <1>3 DEF TypeOK
  <2> QED  BY <1>1, <1>3, <2>1, <2>2 DEF BoundariesAgree, OpenAt
<1> QED  BY <1>2, <1>3 DEF StartTurn

LEMMA EnterStepBoundary ==
  ASSUME TypeOK, BoundariesAgree, EnterStep
  PROVE  BoundariesAgree'
<1>1. pc = "decided" /\ log.open = "turn" /\ ~log.unanswered /\ phase.kind = "running"
  BY DEF EnterStep, BoundariesAgree, OpenAt
<1>2. CASE CloseTurn("blocked", "retire", <<>>) /\ UNCHANGED <<phase, fresh>>
  BY <1>1, <1>2, ClosedTurn
<1>3. CASE CloseTurn(turnEnds, "drained", <<Driver>>) /\ UNCHANGED <<phase, fresh>>
  BY <1>1, <1>3, ClosedTurn
<1>4. CASE CloseTurn("completed", "retire", <<>>) /\ UNCHANGED <<phase, fresh>>
  BY <1>1, <1>4, ClosedTurn
<1>5. CASE Catch(<<>>) /\ UNCHANGED <<phase, fresh>>
  BY <1>1, <1>5, Caught
<1>6. CASE /\ phase' = [phase EXCEPT !.step = @ + 1]
           /\ log' = [log EXCEPT !.step = phase.step + 1, !.open = "step"]
           /\ pc' = "request"
  <2>1. phase'.turn = phase.turn /\ phase'.step = phase.step + 1 /\ phase'.kind = phase.kind
    BY <1>6 DEF TypeOK, Phases
  <2>2. /\ log'.turn = log.turn /\ log'.step = phase.step + 1 /\ log'.open = "step"
        /\ log'.unanswered = log.unanswered
    BY <1>6 DEF TypeOK
  <2> QED  BY <1>1, <1>6, <2>1, <2>2 DEF BoundariesAgree, OpenAt
<1> QED  BY <1>2, <1>3, <1>4, <1>5, <1>6 DEF EnterStep

LEMMA StepBoundary ==
  ASSUME TypeOK, BoundariesAgree,
         RequestSettles \/ BeginAdmission \/ AdmitMessage \/ OpenStream \/ StreamSettles
           \/ RequestErrorSettles \/ ToolsSettle \/ EndStep
  PROVE  BoundariesAgree'
<1>1. log.open = "step" /\ UNCHANGED phase /\ pc # "none"
  BY DEF RequestSettles, BeginAdmission, AdmitMessage, OpenStream, StreamSettles,
         RequestErrorSettles, ToolsSettle, EndStep, BoundariesAgree, OpenAt
<1>2. CASE \E rest : FailStep(rest)  BY <1>1, <1>2, FailedStep
<1>3. CASE ~ \E rest : FailStep(rest)
  <2>1. CASE RequestSettles \/ BeginAdmission \/ AdmitMessage \/ OpenStream
               \/ RequestErrorSettles
    <3>1. UNCHANGED log /\ pc' \in {"prepared", "admitting", "stream", "request"}
          /\ ~log.unanswered
      BY <1>3, <2>1 DEF RequestSettles, BeginAdmission, AdmitMessage, OpenStream,
                        RequestErrorSettles, BoundariesAgree
    <3> QED  BY <1>1, <3>1, MovedInStep
  <2>2. CASE StreamSettles
    <3>1. CASE pc' = "request-error" /\ UNCHANGED <<stack, log, outcome>>
      BY <1>1, <2>2, <3>1, MovedInStep DEF StreamSettles, BoundariesAgree
    <3>2. CASE log' = [log EXCEPT !.owed = FALSE] /\ pc' = "step-end"
      <4>1. /\ log'.turn = log.turn /\ log'.step = log.step /\ log'.open = log.open
            /\ log'.unanswered = log.unanswered
        BY <3>2 DEF TypeOK
      <4> QED  BY <1>1, <2>2, <3>2, <4>1, MovedInStep DEF StreamSettles, BoundariesAgree
    <3>3. CASE log' = [log EXCEPT !.owed = FALSE, !.unanswered = TRUE] /\ pc' = "tools"
      <4>1. log'.turn = log.turn /\ log'.step = log.step /\ log'.open = log.open
        BY <3>3 DEF TypeOK
      <4> QED  BY <1>1, <3>3, <4>1, MovedInStep
    <3> QED  BY <1>3, <2>2, <3>1, <3>2, <3>3 DEF StreamSettles
  <2>3. CASE ToolsSettle
    <3>1. /\ log'.turn = log.turn /\ log'.step = log.step /\ log'.open = log.open
          /\ log'.unanswered = FALSE /\ pc' = "step-end"
      BY <1>3, <2>3 DEF ToolsSettle, TypeOK
    <3> QED  BY <1>1, <3>1, MovedInStep
  <2>4. CASE EndStep
    <3>1. /\ log'.turn = log.turn /\ log'.step = log.step /\ log'.open = "turn"
          /\ log'.unanswered = log.unanswered /\ pc' = "after-step" /\ pc = "step-end"
      BY <2>4 DEF EndStep, TypeOK
    <3>2. ~log.unanswered  BY <3>1 DEF BoundariesAgree
    <3>3. OpenAt' = "turn"  BY <3>1 DEF OpenAt
    <3> QED  BY <1>1, <3>1, <3>2, <3>3, MoveBoundary
  <2> QED  BY <2>1, <2>2, <2>3, <2>4
<1> QED  BY <1>2, <1>3

LEMMA TurnBoundary ==
  ASSUME TypeOK, BoundariesAgree,
         ClaimTurn \/ PreStepSettles \/ ContinueTurn \/ StoppingSettles \/ CatchStep
           \/ EndFailedTurn
  PROVE  BoundariesAgree'
<1>1. log.open = "turn" /\ ~log.unanswered /\ UNCHANGED phase /\ pc # "none" /\ pc # "tools"
  BY DEF ClaimTurn, PreStepSettles, ContinueTurn, StoppingSettles, CatchStep, EndFailedTurn,
         BoundariesAgree, OpenAt
<1>2. CASE (\E t, rest : Claim(t, rest)) \/ (\E rest : Catch(rest))
  BY <1>1, <1>2, ClaimedStep, Caught
<1>3. CASE \E ending, rest : \E at \in {"drained", "retire"} : CloseTurn(ending, at, rest)
  BY <1>1, <1>3, ClosedTurn
<1>4. CASE pc' \in {"decided", "stopping"} /\ UNCHANGED log
  <2>1. OpenAt' = "turn"  BY <1>4 DEF OpenAt
  <2> QED  BY <1>1, <1>4, <2>1, MoveBoundary
<1> QED  BY <1>2, <1>3, <1>4
         DEF ClaimTurn, PreStepSettles, ContinueTurn, StoppingSettles, CatchStep, EndFailedTurn

LEMMA RetireBoundary ==
  ASSUME TypeOK, BoundariesAgree, Drain \/ Retire \/ Replay
  PROVE  BoundariesAgree'
<1>1. CASE Drain
  <2>1. pc = "drained" /\ UNCHANGED log /\ log.open = "none" /\ ~log.unanswered
        /\ phase.kind = "running"
    BY <1>1 DEF Drain, BoundariesAgree, OpenAt
  <2>2. CASE phase' = Renewed(phase) /\ pc' = "turn-again"
    <3>1. phase'.turn = phase.turn /\ phase'.step = 0 /\ phase'.kind = phase.kind
      BY <2>2 DEF Renewed, TypeOK, Phases
    <3> QED  BY <2>1, <2>2, <3>1 DEF BoundariesAgree, OpenAt
  <2>3. CASE pc' = "retire" /\ UNCHANGED phase
    BY <2>1, <2>3 DEF BoundariesAgree, OpenAt
  <2> QED  BY <1>1, <2>2, <2>3 DEF Drain
<1>2. CASE Retire
  <2>1. phase.turn \in Nat  BY PhaseTypes DEF TypeOK
  <2>2. phase'.turn = phase.turn /\ phase'.step = 0 /\ phase'.kind = "idle" /\ pc' = "none"
    BY <1>2, <2>1, ActivePhases DEF Retire
  <2>3. UNCHANGED log /\ log.open = "none" /\ ~log.unanswered
    BY <1>2 DEF Retire, BoundariesAgree, OpenAt
  <2> QED  BY <2>2, <2>3 DEF BoundariesAgree, OpenAt
<1>3. CASE Replay
  <2>1. CASE WakeDriver(FALSE, Pop(stack))
    BY <1>3, <2>1, WakeDriverBoundary DEF Replay
  <2>2. CASE stack' = Pop(stack) /\ UNCHANGED <<phase, pc, activity>>
    BY <1>3, <2>2, BoundaryUntouched DEF Replay
  <2> QED  BY <1>3, <2>1, <2>2 DEF Replay
<1> QED  BY <1>1, <1>2, <1>3

(***************************************************************************)
(* turn() and step() never append a boundary the log does not allow, for   *)
(* any number of messages, turns, jobs and nested calls.                   *)
(***************************************************************************)
THEOREM BoundariesCorrect == Spec => []BoundariesAgree
<1>1. Init => BoundariesAgree
  <2> SUFFICES ASSUME Init PROVE BoundariesAgree  OBVIOUS
  <2>1. phase.turn = LastTurn /\ phase.step = 0 /\ phase.kind = "idle"
    BY AgentLoopConstants, ActivePhases DEF Init
  <2> QED  BY <2>1 DEF Init, BoundariesAgree, OpenAt
<1>2. TypeOK /\ BoundariesAgree /\ [Next]_vars => BoundariesAgree'
  <2> SUFFICES ASSUME TypeOK, BoundariesAgree, [Next]_vars PROVE BoundariesAgree'  OBVIOUS
  <2>1. CASE UNCHANGED vars
    BY <2>1, BoundaryUntouched DEF vars, driverVars
  <2>2. CASE Call \/ CallStep \/ JobSettles \/ Waiter \/ Detach  BY <2>2, CallBoundary
  <2>3. CASE DriverStep
    BY <2>3, StartTurnBoundary, EnterStepBoundary, StepBoundary, TurnBoundary,
       RetireBoundary DEF DriverStep
  <2> QED  BY <2>1, <2>2, <2>3 DEF Next
<1> QED  BY <1>1, <1>2, TypeCorrect, PTL DEF Spec

-----------------------------------------------------------------------------
(***************************************************************************)
(* AgentLoop implements TurnLog.                                           *)
(***************************************************************************)
LEMMA SameLog ==
  ASSUME UNCHANGED <<log.turn, log.step, log.open, log.unanswered>>
  PROVE  [TL!Next]_(TL!vars)
BY DEF TL!vars

LEMMA ClosedIsEndTurn ==
  ASSUME TypeOK, log.open = "turn", NEW ending, NEW at, NEW rest, CloseTurn(ending, at, rest)
  PROVE  [TL!Next]_(TL!vars)
<1>1. /\ log'.turn = log.turn /\ log'.step = log.step /\ log'.open = "none"
      /\ log'.unanswered = log.unanswered
  BY DEF CloseTurn, TypeOK
<1>2. TL!EndTurn  BY <1>1 DEF TL!EndTurn
<1> QED  BY <1>2 DEF TL!Next

LEMMA CaughtIsEndTurn ==
  ASSUME TypeOK, log.open = "turn", NEW rest, Catch(rest)
  PROVE  [TL!Next]_(TL!vars)
<1>1. CASE CloseTurn("aborted", "retire", rest)  BY <1>1, ClosedIsEndTurn
<1>2. CASE UNCHANGED log  BY <1>2, SameLog
<1> QED  BY <1>1, <1>2 DEF Catch

LEMMA FailedIsRecoverStep ==
  ASSUME TypeOK, log.open = "step", NEW rest, FailStep(rest)
  PROVE  [TL!Next]_(TL!vars)
<1>1. /\ log'.turn = log.turn /\ log'.step = log.step /\ log'.open = "turn"
      /\ log'.unanswered = FALSE
  BY DEF FailStep, ClosedRecovered, TypeOK
<1>2. TL!RecoverStep  BY <1>1 DEF TL!RecoverStep
<1> QED  BY <1>2 DEF TL!Next

LEMMA ImplementsTurn ==
  ASSUME TypeOK, BoundariesAgree,
         StartTurn \/ ClaimTurn \/ PreStepSettles \/ EnterStep \/ ContinueTurn
           \/ StoppingSettles \/ CatchStep \/ EndFailedTurn
  PROVE  [TL!Next]_(TL!vars)
<1>1. pc \in {"turn", "turn-again"} \/ log.open = "turn"
  BY DEF StartTurn, ClaimTurn, PreStepSettles, EnterStep, ContinueTurn, StoppingSettles,
         CatchStep, EndFailedTurn, BoundariesAgree, OpenAt
<1>2. CASE StartTurn
  <2>1. log.open = "none" /\ log.turn = phase.turn
    BY <1>2 DEF StartTurn, BoundariesAgree, OpenAt
  <2>2. CASE UNCHANGED log  BY <2>2, SameLog
  <2>3. CASE log' = [log EXCEPT !.turn = phase.turn + 1, !.step = 0, !.open = "turn",
                                !.owed = FALSE]
    <3>1. /\ log'.turn = log.turn + 1 /\ log'.step = 0 /\ log'.open = "turn"
          /\ log'.unanswered = log.unanswered
      BY <2>1, <2>3 DEF TypeOK
    <3>2. TL!StartTurn  BY <2>1, <3>1 DEF TL!StartTurn
    <3> QED  BY <3>2 DEF TL!Next
  <2> QED  BY <1>2, <2>2, <2>3 DEF StartTurn
<1>3. CASE ~StartTurn
  <2>0. log.open = "turn"
    BY <1>1, <1>3 DEF ClaimTurn, PreStepSettles, EnterStep, ContinueTurn, StoppingSettles,
                      CatchStep, EndFailedTurn
  <2>1. CASE (\E rest : Catch(rest)) \/ (\E ending, at, rest : CloseTurn(ending, at, rest))
    BY <2>0, <2>1, CaughtIsEndTurn, ClosedIsEndTurn
  <2>2. CASE UNCHANGED log  BY <2>2, SameLog
  <2>3. CASE log' = [log EXCEPT !.step = phase.step + 1, !.open = "step"]
    <3>1. log.step = phase.step  BY <2>0 DEF BoundariesAgree
    <3>2. /\ log'.turn = log.turn /\ log'.step = log.step + 1 /\ log'.open = "step"
          /\ log'.unanswered = log.unanswered
      BY <2>3, <3>1 DEF TypeOK
    <3>3. TL!StartStep  BY <2>0, <3>2 DEF TL!StartStep
    <3> QED  BY <3>3 DEF TL!Next
  <2> QED  BY <1>3, <2>1, <2>2, <2>3
           DEF ClaimTurn, PreStepSettles, EnterStep, ContinueTurn, StoppingSettles, CatchStep,
               EndFailedTurn, Claim
<1> QED  BY <1>2, <1>3

LEMMA ImplementsStep ==
  ASSUME TypeOK, BoundariesAgree,
         RequestSettles \/ BeginAdmission \/ AdmitMessage \/ OpenStream \/ StreamSettles
           \/ RequestErrorSettles \/ ToolsSettle \/ EndStep
  PROVE  [TL!Next]_(TL!vars)
<1>1. log.open = "step"
  BY DEF RequestSettles, BeginAdmission, AdmitMessage, OpenStream, StreamSettles,
         RequestErrorSettles, ToolsSettle, EndStep, BoundariesAgree, OpenAt
<1>2. CASE \E rest : FailStep(rest)  BY <1>1, <1>2, FailedIsRecoverStep
<1>3. CASE UNCHANGED log  BY <1>3, SameLog
<1>4. CASE log' = [log EXCEPT !.owed = FALSE]
  <2>1. UNCHANGED <<log.turn, log.step, log.open, log.unanswered>>  BY <1>4 DEF TypeOK
  <2> QED  BY <2>1, SameLog
<1>5. CASE log' = [log EXCEPT !.owed = FALSE, !.unanswered = TRUE]
  <2>1. TL!Call  BY <1>1, <1>5 DEF TL!Call, TypeOK
  <2> QED  BY <2>1 DEF TL!Next
<1>6. ASSUME NEW concluded,
             log' = [log EXCEPT !.unanswered = FALSE, !.owed = ~concluded]
      PROVE  [TL!Next]_(TL!vars)
  <2>1. TL!Answer  BY <1>1, <1>6 DEF TL!Answer, TypeOK
  <2> QED  BY <2>1 DEF TL!Next
<1>7. CASE EndStep
  <2>1. ~log.unanswered  BY <1>7 DEF EndStep, BoundariesAgree
  <2>2. /\ log'.turn = log.turn /\ log'.step = log.step /\ log'.open = "turn"
        /\ log'.unanswered = log.unanswered
    BY <1>7 DEF EndStep, TypeOK
  <2>3. TL!EndStep  BY <1>1, <2>1, <2>2 DEF TL!EndStep
  <2> QED  BY <2>3 DEF TL!Next
<1> QED  BY <1>2, <1>3, <1>4, <1>5, <1>6, <1>7
         DEF RequestSettles, BeginAdmission, AdmitMessage, OpenStream, StreamSettles,
             RequestErrorSettles, ToolsSettle

LEMMA ImplementsOther ==
  ASSUME Call \/ CallStep \/ JobSettles \/ Waiter \/ Detach \/ Drain \/ Retire \/ Replay
           \/ UNCHANGED vars
  PROVE  [TL!Next]_(TL!vars)
<1>1. UNCHANGED log
  BY DEF Call, CallStep, JobSettles, Waiter, Drain, Retire, Replay, vars, driverVars,
         Send, Remove, Cancel, CancelKeepInbox, RunMaintenance, WhenIdle, Dispose,
         DisposeRejected, Detach, Wake, CancelStep, FollowActivity, Quiesce
<1> QED  BY <1>1, SameLog

(***************************************************************************)
(* The log of an agent is a turn log: turns and steps are numbered and     *)
(* nested, and no step closes on an unanswered call, whatever was sent,    *)
(* cancelled, disposed of or failed meanwhile.                             *)
(***************************************************************************)
THEOREM ImplementsTurnLog == Spec => TurnLogSpec
<1>1. Init => TL!Init
  BY AgentLoopConstants DEF Init, TL!Init
<1>2. TypeOK /\ BoundariesAgree /\ [Next]_vars => [TL!Next]_(TL!vars)
  <2> SUFFICES ASSUME TypeOK, BoundariesAgree, [Next]_vars PROVE [TL!Next]_(TL!vars)
    OBVIOUS
  <2>1. CASE Call \/ CallStep \/ JobSettles \/ Waiter \/ Detach \/ UNCHANGED vars
    BY <2>1, ImplementsOther
  <2>2. CASE DriverStep
    BY <2>2, ImplementsTurn, ImplementsStep, ImplementsOther DEF DriverStep
  <2> QED  BY <2>1, <2>2 DEF Next
<1> QED  BY <1>1, <1>2, TypeCorrect, BoundariesCorrect, PTL DEF Spec, TurnLogSpec, TL!Spec

-----------------------------------------------------------------------------
(***************************************************************************)
(* What AgentLoop promises its callers: latched wakes stand behind a       *)
(* barrier, whenIdle() is honest, a completed turn owes nothing, and every *)
(* message keeps its place and its order.  These rest on the type          *)
(* correctness and the boundary invariant above.                           *)
(***************************************************************************)

(***************************************************************************)
(* The call stack, frame by frame.                                         *)
(***************************************************************************)
LEMMA PushFrames ==
  ASSUME NEW s \in Seq(Frames), NEW f \in Frames
  PROVE  /\ Push(s, f) \in Seq(Frames) /\ Len(Push(s, f)) = Len(s) + 1
         /\ \A i \in 1 .. Len(s) : Push(s, f)[i] = s[i]
         /\ Push(s, f)[Len(s) + 1] = f
BY AppendProperties DEF Push

LEMMA PopFrames ==
  ASSUME NEW s \in Seq(Frames), s # <<>>
  PROVE  /\ Pop(s) \in Seq(Frames) /\ Len(Pop(s)) = Len(s) - 1
         /\ \A i \in 1 .. Len(Pop(s)) : Pop(s)[i] = s[i]
<1>1. Len(s) \in Nat \ {0}  BY EmptySeq
<1>2. \A i \in 1 .. Len(s) - 1 : s[i] \in Frames  BY <1>1, ElementOfSeq
<1> DEFINE n == Len(s) - 1
<1>3. n \in Nat  BY <1>1
<1> HIDE DEF n
<1>4. \A i \in 1 .. n : s[i] \in Frames  BY <1>2 DEF n
<1>5. /\ Len(SubSeq(s, 1, n)) = IF 1 <= n THEN n - 1 + 1 ELSE 0
      /\ \A i \in 1 .. n - 1 + 1 : SubSeq(s, 1, n)[i] = s[1 + i - 1]
  BY <1>3, <1>4, SubSeqProperties
<1>6. Len(SubSeq(s, 1, n)) = n /\ \A i \in 1 .. n : SubSeq(s, 1, n)[i] = s[i]
  BY <1>3, <1>5
<1> QED  BY <1>6, PopType DEF Pop, n

LEMMA EmptyStack == <<>> \in Seq(Frames) /\ Len(<<>>) = 0
BY EmptySeq

LEMMA OnlyDriver == <<Driver>> = Push(<<>>, Driver)
BY DEF Push

\* A wake that waits behind the insertion it belongs to, into an aborted activity.
Late(f) == f.op = "wake" /\ f.afterAbort
HasLate(s) == \E i \in 1 .. Len(s) : Late(s[i])
NoDriverAbove(s) ==
  \A i, k \in 1 .. Len(s) : Late(s[i]) /\ i < k => s[k].op # "driver"

\* Replays on the stack belong to activities older than n.
Older(s, n) == \A i \in 1 .. Len(s) : s[i].op = "retire" => s[i].activity < n

LEMMA EmptyStackKeeps ==
  ~HasLate(<<>>) /\ NoDriverAbove(<<>>) /\ \A n : Older(<<>>, n)
BY EmptyStack DEF HasLate, NoDriverAbove, Older

LEMMA PushKeeps ==
  ASSUME NEW s \in Seq(Frames), NEW f \in Frames
  PROVE  /\ HasLate(Push(s, f)) => HasLate(s) \/ Late(f)
         /\ NoDriverAbove(s) /\ (f.op # "driver" \/ ~HasLate(s))
              => NoDriverAbove(Push(s, f))
         /\ \A n \in Nat : Older(s, n) /\ (f.op = "retire" => f.activity < n)
              => Older(Push(s, f), n)
<1> DEFINE p == Push(s, f)
<1>0. Len(s) \in Nat  BY LenProperties
<1>1. Len(p) = Len(s) + 1 /\ p[Len(s) + 1] = f /\ \A i \in 1 .. Len(s) : p[i] = s[i]
  BY PushFrames
<1> HIDE DEF p
<1>2. HasLate(p) => HasLate(s) \/ Late(f)  BY <1>0, <1>1 DEF HasLate
<1>3. NoDriverAbove(s) /\ (f.op # "driver" \/ ~HasLate(s)) => NoDriverAbove(p)
  <2> SUFFICES ASSUME NoDriverAbove(s), f.op # "driver" \/ ~HasLate(s),
                      NEW i \in 1 .. Len(p), NEW k \in 1 .. Len(p), Late(p[i]), i < k
               PROVE  p[k].op # "driver"
    BY DEF NoDriverAbove
  <2>1. i \in 1 .. Len(s) /\ p[i] = s[i]  BY <1>0, <1>1
  <2>2. CASE k \in 1 .. Len(s)  BY <1>1, <2>1, <2>2 DEF NoDriverAbove
  <2>3. CASE k = Len(s) + 1  BY <1>1, <2>1, <2>3 DEF HasLate
  <2> QED  BY <1>0, <1>1, <2>2, <2>3
<1>4. \A n \in Nat : Older(s, n) /\ (f.op = "retire" => f.activity < n) => Older(p, n)
  BY <1>0, <1>1 DEF Older
<1> QED  BY <1>2, <1>3, <1>4 DEF p

LEMMA PopKeeps ==
  ASSUME NEW s \in Seq(Frames), s # <<>>
  PROVE  /\ HasLate(Pop(s)) => HasLate(s)
         /\ NoDriverAbove(s) => NoDriverAbove(Pop(s))
         /\ \A n : Older(s, n) => Older(Pop(s), n)
         /\ NoDriverAbove(s) /\ s[Len(s)].op \in {"driver", "retire"} /\ HasLate(s)
              => s[Len(s)].op = "retire"
<1> DEFINE p == Pop(s)
<1>1. Len(s) \in Nat \ {0}  BY EmptySeq
<1>2. Len(p) = Len(s) - 1 /\ \A i \in 1 .. Len(p) : p[i] = s[i]  BY PopFrames
<1> HIDE DEF p
<1>3. \A i \in 1 .. Len(p) : i \in 1 .. Len(s)  BY <1>1, <1>2
<1>4. HasLate(p) => HasLate(s)  BY <1>2, <1>3 DEF HasLate
<1>5. NoDriverAbove(s) => NoDriverAbove(p)  BY <1>2, <1>3 DEF NoDriverAbove
<1>6. \A n : Older(s, n) => Older(p, n)  BY <1>2, <1>3 DEF Older
<1>7. ASSUME NoDriverAbove(s), s[Len(s)].op = "driver" PROVE ~HasLate(s)
  <2> SUFFICES ASSUME NEW i \in 1 .. Len(s), Late(s[i]) PROVE FALSE  BY DEF HasLate
  <2>1. CASE i = Len(s)  BY <1>7, <2>1 DEF Late
  <2>2. CASE i < Len(s)  BY <1>1, <1>7, <2>2 DEF NoDriverAbove
  <2> QED  BY <1>1, <2>1, <2>2
<1> QED  BY <1>4, <1>5, <1>6, <1>7 DEF p

-----------------------------------------------------------------------------
(***************************************************************************)
(* What the driver does to the stack and to the phase: it runs on top of   *)
(* the stack or starts from an empty one, and leaves at most itself there; *)
(* it keeps the latch and the abort signal or renews both.                 *)
(***************************************************************************)
Below == IF stack = <<>> THEN <<>> ELSE Pop(stack)

Running ==
  \/ StartTurn \/ ClaimTurn \/ PreStepSettles \/ EnterStep \/ RequestSettles
  \/ BeginAdmission \/ AdmitMessage \/ OpenStream \/ StreamSettles \/ RequestErrorSettles
  \/ ToolsSettle \/ EndStep
  \/ ContinueTurn \/ StoppingSettles \/ CatchStep \/ EndFailedTurn \/ Drain

LEMMA RunningStack ==
  ASSUME Running
  PROVE  /\ stack = <<>> \/ OnTop("driver")
         /\ \/ stack' = Below \/ stack' = Push(Below, Driver)
            \/ stack' = stack /\ OnTop("driver")
         /\ pc \notin {"none", "retire"} /\ UNCHANGED OtherVars
<1>1. CASE StartTurn \/ Drain
  BY <1>1 DEF StartTurn, Drain, Below, OnTop, Resumed
<1>2. CASE ClaimTurn \/ ContinueTurn \/ StoppingSettles
  BY <1>2, OnlyDriver
     DEF ClaimTurn, ContinueTurn, StoppingSettles, Claim, Catch, CloseTurn, Below, OnTop, Resumed
<1>3. CASE PreStepSettles \/ EnterStep \/ CatchStep \/ EndFailedTurn
  BY <1>3, OnlyDriver
     DEF PreStepSettles, EnterStep, CatchStep, EndFailedTurn, Catch, CloseTurn, Below, OnTop,
         Resumed
<1>4. CASE RequestSettles \/ BeginAdmission \/ AdmitMessage \/ OpenStream \/ StreamSettles
             \/ RequestErrorSettles \/ ToolsSettle \/ EndStep
  BY <1>4, OnlyDriver
     DEF RequestSettles, BeginAdmission, AdmitMessage, OpenStream, StreamSettles,
         RequestErrorSettles, ToolsSettle, EndStep, FailStep, Below, OnTop, Resumed
<1> QED  BY <1>1, <1>2, <1>3, <1>4 DEF Running

LEMMA RunningPhase ==
  ASSUME TypeOK, BoundariesAgree, Running
  PROVE  /\ phase.kind = "running" /\ phase'.kind = "running"
         /\ \/ phase'.wake = phase.wake /\ phase'.abort = phase.abort
            \/ phase'.wake = FALSE /\ phase'.abort = "live"
         /\ phase'.turn \in {phase.turn, phase.turn + 1}
<1>1. phase.kind = "running"  BY RunningStack DEF BoundariesAgree
<1>2. \/ UNCHANGED phase
      \/ phase' = [phase EXCEPT !.turn = @ + 1]
      \/ phase' = [phase EXCEPT !.step = @ + 1]
      \/ phase' = Renewed(phase)
  BY DEF Running, StartTurn, ClaimTurn, PreStepSettles, EnterStep, RequestSettles,
         BeginAdmission, AdmitMessage, OpenStream, StreamSettles, RequestErrorSettles,
         ToolsSettle, EndStep, ContinueTurn, StoppingSettles, CatchStep, EndFailedTurn, Drain
<1> QED  BY <1>1, <1>2 DEF Renewed, TypeOK, Phases

-----------------------------------------------------------------------------
(***************************************************************************)
(* Latched wakes.  A wake in an aborted activity is remembered by its      *)
(* frame while the insertion's observers run, so the invariant says of     *)
(* every such frame that its activity is still aborted: no driver can have *)
(* run above it.                                                           *)
(***************************************************************************)
Barrier(p) == p.kind # "idle" /\ p.abort # "live"

PhaseSound(p) ==
  /\ p.wake => p.kind = "maintenance" \/ p.abort # "live"
  /\ p.kind = "idle" => p.abort = "live" /\ ~p.wake
  /\ p.kind = "running" /\ p.abort = "disposed" => ~p.wake

LatchInv ==
  /\ PhaseSound(phase)
  /\ HasLate(stack) => Barrier(phase)
  /\ NoDriverAbove(stack)

LEMMA NoLateWake ==
  ASSUME NEW s, ~HasLate(s)
  PROVE  NoDriverAbove(s)
BY DEF HasLate, NoDriverAbove

\* The phases an activity begins and ends with are sound.
LEMMA FreshPhases ==
  ASSUME NEW n, NEW k \in {"maintenance", "running"}
  PROVE  PhaseSound(Idle(n)) /\ PhaseSound(Active(k, n))
BY DEF PhaseSound, Idle, Active

LEMMA AbortedPhases ==
  ASSUME NEW p \in Phases, PhaseSound(p), NEW c \in Causes
  PROVE  /\ LET q == [p EXCEPT !.wake = FALSE,
                               !.abort = IF p.kind # "idle" /\ p.abort = "live" THEN c
                                         ELSE p.abort]
            IN  PhaseSound(q) /\ (Barrier(p) => Barrier(q))
         /\ p.kind # "idle" /\ p.abort = "live" /\ (c = "disposed" => p.kind = "maintenance")
            => PhaseSound([p EXCEPT !.abort = c]) /\ Barrier([p EXCEPT !.abort = c])
BY DEF PhaseSound, Barrier, Phases, Causes

LEMMA WokenPhases ==
  ASSUME NEW p \in Phases, PhaseSound(p), p.kind # "idle",
         NEW l \in BOOLEAN, l => p.abort # "disposed",
         l => p.kind = "maintenance" \/ p.abort # "live"
  PROVE  LET q == [p EXCEPT !.wake = p.wake \/ l]
         IN  PhaseSound(q) /\ (Barrier(p) => Barrier(q))
BY DEF PhaseSound, Barrier, Phases

LEMMA StartedLatch ==
  ASSUME TypeOK, NEW rest \in Seq(Frames), ~HasLate(rest), NEW n \in Nat,
         StartDriver(n, rest)
  PROVE  LatchInv'
<1>1. ~HasLate(Push(rest, Driver))
  BY PushKeeps, FrameTypes DEF Driver, Late
<1>2. NoDriverAbove(Push(rest, Driver))  BY <1>1, NoLateWake
<1>3. PhaseSound(phase')  BY FreshPhases DEF StartDriver
<1> QED  BY <1>1, <1>2, <1>3 DEF LatchInv, StartDriver

LEMMA WokenLatch ==
  ASSUME TypeOK, LatchInv, stack # <<>>, NEW a \in BOOLEAN, a => Barrier(phase),
         WakeDriver(a, Pop(stack))
  PROVE  LatchInv'
<1>1. Pop(stack) \in Seq(Frames)  BY PopType DEF TypeOK
<1>2. (HasLate(Pop(stack)) => Barrier(phase)) /\ NoDriverAbove(Pop(stack))
  BY PopKeeps DEF TypeOK, LatchInv
<1>3. CASE phase.kind = "idle"
  <2>1. ~HasLate(Pop(stack))  BY <1>2, <1>3 DEF Barrier
  <2>2. StartDriver(phase.turn, Pop(stack))  BY <1>3 DEF WakeDriver
  <2>3. phase.turn \in Nat  BY PhaseTypes DEF TypeOK
  <2> QED  BY <1>1, <2>1, <2>2, <2>3, StartedLatch
<1>4. CASE phase.kind # "idle"
  <2>1. phase' = [phase EXCEPT !.wake = phase.wake \/ Latches(a)] /\ stack' = Pop(stack)
    BY <1>4 DEF WakeDriver
  <2>2. /\ Latches(a) \in BOOLEAN /\ (Latches(a) => phase.abort # "disposed")
        /\ Latches(a) => phase.kind = "maintenance" \/ phase.abort # "live"
    BY DEF Latches, Barrier
  <2>3. PhaseSound(phase') /\ (Barrier(phase) => Barrier(phase'))
    <3> DEFINE l == Latches(a)
    <3>1. l \in BOOLEAN /\ (l => phase.abort # "disposed")
          /\ (l => phase.kind = "maintenance" \/ phase.abort # "live")
          /\ phase' = [phase EXCEPT !.wake = phase.wake \/ l]
      BY <2>1, <2>2
    <3> HIDE DEF l
    <3> QED  BY <1>4, <3>1, WokenPhases DEF TypeOK, LatchInv
  <2> QED  BY <1>2, <2>1, <2>3 DEF LatchInv
<1> QED  BY <1>3, <1>4

\* cancel(): the phase is aborted at the end, the stack grows or returns.
LEMMA FinishedLatch ==
  ASSUME TypeOK, LatchInv, NEW cause \in Causes, NEW rest \in {stack, Pop(stack)},
         rest = stack \/ stack # <<>>, FinishCancel(cause, rest)
  PROVE  LatchInv'
<1>1. phase' = [phase EXCEPT !.wake = FALSE,
                             !.abort = IF phase.kind # "idle" /\ phase.abort = "live"
                                       THEN cause ELSE phase.abort]
  BY DEF FinishCancel, Abort, Aborted
<1>2. PhaseSound(phase') /\ (Barrier(phase) => Barrier(phase'))
  BY <1>1, AbortedPhases DEF TypeOK, LatchInv
<1>3. (HasLate(rest) => HasLate(stack)) /\ NoDriverAbove(rest)
  BY PopKeeps DEF TypeOK, LatchInv
<1> QED  BY <1>2, <1>3 DEF FinishCancel, LatchInv

LEMMA ClearedLatch ==
  ASSUME TypeOK, LatchInv, NEW cause \in Causes, NEW rest \in {stack, Pop(stack)},
         rest = stack \/ stack # <<>>, NEW t, NEW next \in Targets \cup {"none"},
         ClearList(t, next, cause, rest)
  PROVE  LatchInv'
<1> DEFINE frame == [op |-> "cancel", list |-> next, cause |-> cause]
<1>1. frame \in Frames /\ frame.op = "cancel"  BY FrameTypes
<1>2. stack' = Push(rest, frame) /\ phase' = phase  BY DEF ClearList
<1> HIDE DEF frame
<1>3. rest \in Seq(Frames)  BY PopType DEF TypeOK
<1>4. (HasLate(rest) => HasLate(stack)) /\ NoDriverAbove(rest)
  BY PopKeeps DEF TypeOK, LatchInv
<1>5. (HasLate(Push(rest, frame)) => HasLate(rest)) /\ NoDriverAbove(Push(rest, frame))
  BY <1>1, <1>3, <1>4, PushKeeps DEF Late
<1> QED  BY <1>2, <1>4, <1>5 DEF LatchInv

LEMMA CancelLatch ==
  ASSUME TypeOK, LatchInv, Cancel("user") \/ CancelStep \/ Dispose
  PROVE  LatchInv'
<1>1. ASSUME NEW cause \in Causes, CancelAll(cause) PROVE LatchInv'
  BY <1>1, FinishedLatch, ClearedLatch DEF CancelAll, ClearTurns, Targets
<1>2. "user" \in Causes /\ "disposed" \in Causes  BY DEF Causes
<1>3. CASE CancelStep
  <2>1. stack # <<>> /\ stack[Len(stack)].cause \in Causes
    BY <1>3, OnTopType, FrameTypes DEF CancelStep
  <2> QED  BY <1>3, <2>1, FinishedLatch, ClearedLatch DEF CancelStep, ClearTurns, Targets
<1> QED  BY <1>1, <1>2, <1>3 DEF Cancel, Dispose

LEMMA SendLatch ==
  ASSUME TypeOK, LatchInv, NEW t \in Targets, NEW w \in BOOLEAN, Send(t, w)
  PROVE  LatchInv'
<1> DEFINE late == w /\ Aborted
           frame == [op |-> "wake", afterAbort |-> late, message |-> sent + 1]
<1>1. sent + 1 \in Messages  BY AgentLoopConstants DEF Send, TypeOK, Messages
<1>2. frame \in Frames /\ frame.op = "wake" /\ frame.afterAbort = late
  BY <1>1, FrameTypes
<1>3. UNCHANGED phase /\ stack' = IF w THEN Push(stack, frame) ELSE stack  BY DEF Send
<1>4. late => Barrier(phase)  BY DEF LatchInv, PhaseSound, Barrier, Aborted
<1> HIDE DEF frame, late
<1>5. (HasLate(Push(stack, frame)) => HasLate(stack) \/ late) /\ NoDriverAbove(Push(stack, frame))
  BY <1>2, PushKeeps DEF TypeOK, LatchInv, Late
<1> QED  BY <1>3, <1>4, <1>5 DEF LatchInv

LEMMA CallLatch ==
  ASSUME TypeOK, LatchInv, Call \/ CallStep \/ JobSettles \/ Waiter \/ Detach \/ UNCHANGED vars
  PROVE  LatchInv'
<1>1. ASSUME NEW m, Remove(m) PROVE LatchInv'  BY <1>1 DEF Remove, LatchInv
<1>2. ASSUME NEW c \in Causes, CancelKeepInbox(c) PROVE LatchInv'
  <2>1. PhaseSound(phase') /\ Barrier(phase') /\ UNCHANGED stack
    BY <1>2, AbortedPhases DEF CancelKeepInbox, TypeOK, LatchInv, Aborted
  <2> QED  BY <2>1 DEF LatchInv
<1>3. CASE RunMaintenance
  <2>1. ~HasLate(stack) /\ UNCHANGED stack  BY <1>3 DEF RunMaintenance, LatchInv, Barrier
  <2>2. PhaseSound(phase')  BY <1>3, FreshPhases DEF RunMaintenance
  <2> QED  BY <2>1, <2>2 DEF LatchInv
<1>4. ASSUME NEW w, WhenIdle(w) \/ FollowActivity(w) \/ Quiesce(w) PROVE LatchInv'
  BY <1>4 DEF WhenIdle, FollowActivity, Quiesce, LatchInv
<1>8. CASE DisposeRejected \/ Detach  BY <1>8 DEF DisposeRejected, Detach, LatchInv
<1>5. CASE Wake
  <2> DEFINE frame == stack[Len(stack)]
  <2>1. /\ stack # <<>> /\ frame \in Frames /\ frame.op = "wake"
        /\ frame.afterAbort \in BOOLEAN /\ WakeDriver(frame.afterAbort, Pop(stack))
    BY <1>5, OnTopType, FrameTypes DEF Wake
  <2>2. frame.afterAbort => HasLate(stack)  BY <2>1, EmptySeq DEF HasLate, Late, TypeOK
  <2>3. frame.afterAbort => Barrier(phase)  BY <2>2 DEF LatchInv
  <2> QED  BY <2>1, <2>3, WokenLatch
<1>6. CASE JobSettles
  <2>1. ~HasLate(<<>>) /\ <<>> \in Seq(Frames) /\ stack = <<>>
    BY <1>6, EmptyStackKeeps, EmptyStack DEF JobSettles, Resumed
  <2>2. phase.turn \in Nat  BY PhaseTypes DEF TypeOK
  <2>3. CASE StartDriver(phase.turn, <<>>)  BY <2>1, <2>2, <2>3, StartedLatch
  <2>4. CASE phase' = Idle(phase.turn) /\ UNCHANGED stack
    BY <2>1, <2>4, FreshPhases, NoLateWake DEF LatchInv
  <2> QED  BY <1>6, <2>3, <2>4 DEF JobSettles
<1>7. CASE UNCHANGED vars  BY <1>7 DEF vars, LatchInv
<1> QED  BY <1>1, <1>2, <1>3, <1>4, <1>5, <1>6, <1>7, <1>8, SendLatch, CancelLatch
         DEF Call, CallStep, Waiter

LEMMA DriverLatch ==
  ASSUME TypeOK, BoundariesAgree, LatchInv, DriverStep
  PROVE  LatchInv'
<1>1. CASE Running
  <2>1. stack = <<>> \/ (stack # <<>> /\ stack[Len(stack)].op = "driver")
    BY <1>1, RunningStack DEF OnTop
  <2>2. Below \in Seq(Frames) /\ ~HasLate(Below)
    BY <2>1, EmptyStack, EmptyStackKeeps, PopKeeps, PopType DEF Below, TypeOK, LatchInv
  <2>3. ~HasLate(Push(Below, Driver))  BY <2>2, PushKeeps, FrameTypes DEF Driver, Late
  <2>4. ~HasLate(stack')
    <3>1. OnTop("driver") => ~HasLate(stack)
      BY <2>1, PopKeeps DEF OnTop, TypeOK, LatchInv
    <3> QED  BY <1>1, <2>2, <2>3, <3>1, RunningStack
  <2>5. PhaseSound(phase')  BY <1>1, RunningPhase DEF LatchInv, PhaseSound
  <2> QED  BY <2>4, <2>5, NoLateWake DEF LatchInv
<1>2. CASE Retire
  <2>1. stack' = <<[op |-> "retire", wake |-> phase.wake, activity |-> activity]>>
        /\ phase' = Idle(phase.turn)
    BY <1>2 DEF Retire
  <2>2. ~HasLate(stack')  BY <2>1 DEF HasLate, Late
  <2> QED  BY <2>1, <2>2, FreshPhases, NoLateWake DEF LatchInv
<1>3. CASE Replay
  <2>1. stack # <<>>  BY <1>3 DEF Replay, OnTop
  <2>2. CASE WakeDriver(FALSE, Pop(stack))  BY <2>1, <2>2, WokenLatch
  <2>3. CASE stack' = Pop(stack) /\ UNCHANGED phase
    BY <2>1, <2>3, PopKeeps DEF TypeOK, LatchInv
  <2> QED  BY <1>3, <2>2, <2>3 DEF Replay
<1> QED  BY <1>1, <1>2, <1>3 DEF DriverStep, Running

LEMMA LatchInvariant == Spec => []LatchInv
<1>1. Init => LatchInv
  BY FreshPhases, EmptyStackKeeps, EmptySeq DEF Init, LatchInv, PhaseSound, Idle
<1>2. TypeOK /\ BoundariesAgree /\ LatchInv /\ [Next]_vars => LatchInv'
  BY CallLatch, DriverLatch DEF Next
<1> QED  BY <1>1, <1>2, TypeCorrect, BoundariesCorrect, PTL DEF Spec

\* What an activity aborted by disposal may still do.
LEMMA ParkedWake ==
  ASSUME TypeOK, BoundariesAgree, LatchInv, Next
  PROVE  DisposalParksWake
<1> SUFFICES ASSUME phase.kind # "idle", phase.abort = "disposed"
             PROVE  /\ activity' = activity
                    /\ pc = "retire" /\ pc' = "none" => ~stack'[Len(stack')].wake
  BY DEF DisposalParksWake
<1>1. CASE Running  BY <1>1, RunningStack DEF OtherVars
<1>2. CASE Retire
  <2>1. phase.kind = "running" /\ ~phase.wake
    BY <1>2 DEF Retire, BoundariesAgree, LatchInv, PhaseSound
  <2> QED  BY <1>2, <2>1 DEF Retire, OtherVars
<1>3. CASE Replay \/ Wake
  BY <1>3 DEF Replay, Wake, WakeDriver, BoundariesAgree
<1>4. CASE JobSettles  BY <1>4 DEF JobSettles, BoundariesAgree
<1>5. CASE Call \/ CancelStep \/ Waiter \/ Detach
  BY <1>5 DEF Call, Send, Remove, Cancel, CancelKeepInbox, RunMaintenance, WhenIdle, Dispose,
              DisposeRejected, Detach, CancelStep, Waiter, FollowActivity, Quiesce, driverVars
<1> QED  BY <1>1, <1>2, <1>3, <1>4, <1>5 DEF Next, CallStep, DriverStep, Running

(***************************************************************************)
(* A latched wake stands behind maintenance or an aborted activity, and no *)
(* activity that disposal aborted is followed by a replay, whatever the    *)
(* observers of its notifications call and however deep they nest.         *)
(***************************************************************************)
THEOREM LatchCorrect == Spec => LatchSound
<1>1. TypeOK /\ BoundariesAgree /\ LatchInv /\ [Next]_vars
      => [LatchedBehindBarrier' /\ DisposalParksWake]_vars
  <2> SUFFICES ASSUME TypeOK, BoundariesAgree, LatchInv, Next
               PROVE  LatchedBehindBarrier' /\ DisposalParksWake
    OBVIOUS
  <2>1. LatchInv'  BY CallLatch, DriverLatch DEF Next
  <2>2. LatchedBehindBarrier'
    BY <2>1 DEF LatchInv, PhaseSound, LatchedBehindBarrier, Aborted
  <2> QED  BY <2>2, ParkedWake
<1> QED  BY <1>1, TypeCorrect, BoundariesCorrect, LatchInvariant, PTL DEF Spec, LatchSound

-----------------------------------------------------------------------------
(***************************************************************************)
(* whenIdle().  The promise of the current activity is pending while a     *)
(* driver or a job owns the agent; a driver that has become idle but whose *)
(* observers still run resolves an older promise.                          *)
(***************************************************************************)
ActivityInv ==
  /\ settled \subseteq 0 .. activity
  /\ phase.kind # "idle" => activity \notin settled
  /\ Older(stack, activity + 1)
  /\ phase.kind # "idle" => Older(stack, activity)

\* The stack keeps its replays, the phase its kind and the promises theirs.
LEMMA SameActivity ==
  ASSUME TypeOK, ActivityInv, UNCHANGED <<activity, settled>>,
         phase'.kind # "idle" => phase.kind # "idle",
         \A n : Older(stack, n) => Older(stack', n)
  PROVE  ActivityInv'
BY DEF ActivityInv

LEMMA OlderMonotonic ==
  ASSUME NEW s \in Seq(Frames), NEW m \in Nat, NEW n \in Nat, m <= n, Older(s, m)
  PROVE  Older(s, n)
<1>1. \A i \in 1 .. Len(s) : s[i] \in Frames  BY ElementOfSeq
<1>2. \A i \in 1 .. Len(s) : s[i].op = "retire" => s[i].activity \in Nat
  BY <1>1, FrameTypes
<1> QED  BY <1>2 DEF Older

\* A new activity takes the next promise.
LEMMA NextActivity ==
  ASSUME TypeOK, settled \subseteq 0 .. activity, Older(stack', activity + 1),
         activity' = activity + 1, settled' \subseteq 0 .. activity,
         stack' \in Seq(Frames)
  PROVE  ActivityInv'
<1>1. activity \in Nat  BY DEF TypeOK
<1>2. Older(stack', activity + 1 + 1)  BY <1>1, OlderMonotonic
<1>3. settled' \subseteq 0 .. activity + 1 /\ activity + 1 \notin settled'  BY <1>1
<1> QED  BY <1>2, <1>3 DEF ActivityInv

LEMMA PushOlder ==
  ASSUME NEW s \in Seq(Frames), NEW f \in Frames, f.op # "retire"
  PROVE  \A n : Older(s, n) => Older(Push(s, f), n)
<1>1. Len(s) \in Nat  BY LenProperties
<1>2. /\ Len(Push(s, f)) = Len(s) + 1 /\ Push(s, f)[Len(s) + 1] = f
      /\ \A i \in 1 .. Len(s) : Push(s, f)[i] = s[i]
  BY PushFrames
<1> QED  BY <1>1, <1>2 DEF Older

LEMMA CancelActivity ==
  ASSUME TypeOK, ActivityInv, Cancel("user") \/ CancelStep \/ Dispose
  PROVE  ActivityInv'
<1>0. UNCHANGED <<activity, settled>>  BY DEF Cancel, CancelStep, Dispose
<1>1. ASSUME NEW cause \in Causes, NEW rest \in {stack, Pop(stack)},
             rest = stack \/ stack # <<>>, FinishCancel(cause, rest)
      PROVE  ActivityInv'
  <2>1. phase'.kind = phase.kind  BY <1>1 DEF FinishCancel, TypeOK, Phases
  <2>2. \A n : Older(stack, n) => Older(stack', n)
    BY <1>1, PopKeeps DEF FinishCancel, TypeOK
  <2> QED  BY <1>0, <2>1, <2>2, SameActivity
<1>2. ASSUME NEW cause \in Causes, NEW rest \in {stack, Pop(stack)},
             rest = stack \/ stack # <<>>, NEW t, NEW next \in Targets \cup {"none"},
             ClearList(t, next, cause, rest)
      PROVE  ActivityInv'
  <2> DEFINE frame == [op |-> "cancel", list |-> next, cause |-> cause]
  <2>1. frame \in Frames /\ frame.op # "retire"  BY FrameTypes
  <2>2. stack' = Push(rest, frame) /\ phase' = phase  BY <1>2 DEF ClearList
  <2> HIDE DEF frame
  <2>3. rest \in Seq(Frames)  BY <1>2, PopType DEF TypeOK
  <2>4. \A n : Older(stack, n) => Older(rest, n)  BY <1>2, PopKeeps DEF TypeOK
  <2>5. \A n : Older(rest, n) => Older(Push(rest, frame), n)  BY <2>1, <2>3, PushOlder
  <2> QED  BY <1>0, <2>2, <2>4, <2>5, SameActivity
<1>3. ASSUME NEW cause \in Causes, CancelAll(cause) PROVE ActivityInv'
  BY <1>1, <1>2, <1>3 DEF CancelAll, ClearTurns, Targets
<1>4. "user" \in Causes /\ "disposed" \in Causes  BY DEF Causes
<1>5. CASE CancelStep
  <2>1. stack # <<>> /\ stack[Len(stack)].cause \in Causes
    BY <1>5, OnTopType, FrameTypes DEF CancelStep
  <2> QED  BY <1>1, <1>2, <1>5, <2>1 DEF CancelStep, ClearTurns, Targets
<1> QED  BY <1>3, <1>4, <1>5 DEF Cancel, Dispose

LEMMA SendActivity ==
  ASSUME TypeOK, ActivityInv, NEW t \in Targets, NEW w \in BOOLEAN, Send(t, w)
  PROVE  ActivityInv'
<1> DEFINE late == w /\ Aborted
           frame == [op |-> "wake", afterAbort |-> late, message |-> sent + 1]
<1>1. sent + 1 \in Messages  BY AgentLoopConstants DEF Send, TypeOK, Messages
<1>2. frame \in Frames /\ frame.op # "retire"  BY <1>1, FrameTypes
<1>3. UNCHANGED <<phase, activity, settled>> /\ stack' = IF w THEN Push(stack, frame) ELSE stack
  BY DEF Send, waitVars
<1> HIDE DEF frame, late
<1>4. \A n : Older(stack, n) => Older(Push(stack, frame), n)  BY <1>2, PushOlder DEF TypeOK
<1> QED  BY <1>3, <1>4, SameActivity

\* A wake starts an activity on an idle agent and latches, or waits, otherwise.
LEMMA WokenActivity ==
  ASSUME TypeOK, ActivityInv, stack # <<>>, NEW a \in BOOLEAN,
         settled' \subseteq 0 .. activity,
         phase.kind # "idle" => activity \notin settled',
         WakeDriver(a, Pop(stack))
  PROVE  ActivityInv'
<1>1. Pop(stack) \in Seq(Frames) /\ \A n : Older(stack, n) => Older(Pop(stack), n)
  BY PopType, PopKeeps DEF TypeOK
<1>2. CASE phase.kind = "idle"
  <2>1. activity' = activity + 1 /\ stack' = Push(Pop(stack), Driver)
    BY <1>2 DEF WakeDriver, StartDriver
  <2>2. Driver \in Frames /\ Driver.op # "retire"  BY FrameTypes DEF Driver
  <2>3. Older(stack', activity + 1) /\ stack' \in Seq(Frames)
    BY <1>1, <2>1, <2>2, PushOlder, PushFrames DEF ActivityInv
  <2> QED  BY <2>1, <2>3, NextActivity DEF ActivityInv
<1>3. CASE phase.kind # "idle"
  <2>1. phase' = [phase EXCEPT !.wake = @ \/ Latches(a)]
        /\ stack' = Pop(stack) /\ activity' = activity
    BY <1>3 DEF WakeDriver
  <2> QED  BY <1>1, <1>3, <2>1 DEF ActivityInv
<1> QED  BY <1>2, <1>3

LEMMA CallActivity ==
  ASSUME TypeOK, ActivityInv, Call \/ CallStep \/ JobSettles \/ Waiter \/ Detach \/ UNCHANGED vars
  PROVE  ActivityInv'
<1>1. ASSUME NEW m, Remove(m) PROVE ActivityInv'
  BY <1>1 DEF Remove, ActivityInv, waitVars
<1>2. ASSUME NEW c \in Causes, CancelKeepInbox(c) PROVE ActivityInv'
  BY <1>2, SameActivity DEF CancelKeepInbox, waitVars
<1>3. CASE RunMaintenance
  BY <1>3, NextActivity DEF RunMaintenance, ActivityInv, waitVars, TypeOK
<1>4. ASSUME NEW w, WhenIdle(w) \/ FollowActivity(w) \/ Quiesce(w) PROVE ActivityInv'
  BY <1>4 DEF WhenIdle, FollowActivity, Quiesce, ActivityInv
<1>8. CASE DisposeRejected \/ Detach  BY <1>8 DEF DisposeRejected, Detach, ActivityInv
<1>5. CASE Wake
  <2>1. stack # <<>> /\ stack[Len(stack)].afterAbort \in BOOLEAN
    BY <1>5, OnTopType, FrameTypes DEF Wake
  <2>2. UNCHANGED settled /\ WakeDriver(stack[Len(stack)].afterAbort, Pop(stack))
    BY <1>5 DEF Wake, waitVars
  <2> QED  BY <2>1, <2>2, WokenActivity DEF ActivityInv
<1>6. CASE JobSettles
  <2>0. activity \in Nat /\ phase.turn \in Nat  BY PhaseTypes DEF TypeOK
  <2>1. settled' \subseteq 0 .. activity
    BY <1>6, <2>0 DEF JobSettles, Resolved, ActivityInv
  <2>2. CASE StartDriver(phase.turn, <<>>)
    <3>1. activity' = activity + 1 /\ stack' = Push(<<>>, Driver)  BY <2>2 DEF StartDriver
    <3>2. Driver \in Frames /\ Driver.op # "retire"  BY FrameTypes DEF Driver
    <3>3. Older(stack', activity + 1) /\ stack' \in Seq(Frames)
      BY <3>1, <3>2, PushOlder, PushFrames, EmptyStack, EmptyStackKeeps
    <3> QED  BY <2>1, <3>1, <3>3, NextActivity DEF ActivityInv
  <2>3. CASE phase' = Idle(phase.turn) /\ UNCHANGED <<activity, stack>>
    BY <2>0, <2>1, <2>3, ActivePhases DEF ActivityInv
  <2> QED  BY <1>6, <2>2, <2>3 DEF JobSettles
<1>7. CASE UNCHANGED vars  BY <1>7 DEF vars, waitVars, ActivityInv
<1> QED  BY <1>1, <1>2, <1>3, <1>4, <1>5, <1>6, <1>7, <1>8, SendActivity, CancelActivity
         DEF Call, CallStep, Waiter

LEMMA DriverActivity ==
  ASSUME TypeOK, BoundariesAgree, ActivityInv, DriverStep
  PROVE  ActivityInv'
<1>1. CASE Running
  <2>1. Below \in Seq(Frames) /\ \A n : Older(stack, n) => Older(Below, n)
    BY EmptyStack, EmptyStackKeeps, PopKeeps, PopType DEF Below, TypeOK
  <2>2. Driver \in Frames /\ Driver.op # "retire"  BY FrameTypes DEF Driver
  <2>3. \A n : Older(stack, n) => Older(stack', n)
    BY <1>1, <2>1, <2>2, PushOlder, RunningStack
  <2> QED  BY <1>1, <2>3, RunningStack, RunningPhase, SameActivity DEF OtherVars, waitVars
<1>2. CASE Retire
  <2>0. activity \in Nat /\ phase.turn \in Nat  BY PhaseTypes DEF TypeOK
  <2>1. stack' = <<[op |-> "retire", wake |-> phase.wake, activity |-> activity]>>
        /\ phase' = Idle(phase.turn) /\ UNCHANGED <<activity, settled>>
    BY <1>2 DEF Retire, OtherVars, waitVars
  <2>2. Older(stack', activity + 1)  BY <2>0, <2>1 DEF Older
  <2>3. phase'.kind = "idle"  BY <2>0, <2>1, ActivePhases
  <2> QED  BY <2>1, <2>2, <2>3 DEF ActivityInv
<1>3. CASE Replay
  <2> DEFINE frame == stack[Len(stack)]
  <2>1. stack # <<>> /\ frame \in Frames /\ frame.op = "retire"
    BY <1>3, OnTopType DEF Replay
  <2>2. frame.activity \in Nat /\ Len(stack) \in 1 .. Len(stack) /\ activity \in Nat
    BY <2>1, FrameTypes, EmptySeq DEF TypeOK
  <2>3. settled' = settled \cup {frame.activity}  BY <1>3 DEF Replay, Resolved
  <2>4. frame.activity < activity + 1 /\ (phase.kind # "idle" => frame.activity < activity)
    BY <2>1, <2>2 DEF ActivityInv, Older
  <2>5. settled' \subseteq 0 .. activity /\ (phase.kind # "idle" => activity \notin settled')
    <3>1. PICK n \in Nat : n = frame.activity  BY <2>2
    <3>2. settled' = settled \cup {n} /\ n <= activity /\ (phase.kind # "idle" => n # activity)
      BY <2>2, <2>3, <2>4, <3>1
    <3>3. n \in 0 .. activity  BY <2>2, <3>2
    <3> QED  BY <3>2, <3>3 DEF ActivityInv
  <2>6. CASE WakeDriver(FALSE, Pop(stack))  BY <2>1, <2>5, <2>6, WokenActivity
  <2>7. CASE stack' = Pop(stack) /\ UNCHANGED <<phase, activity>>
    <3>1. \A n : Older(stack, n) => Older(stack', n)
      BY <2>1, <2>7, PopKeeps DEF TypeOK
    <3> QED  BY <2>5, <2>7, <3>1 DEF ActivityInv
  <2> QED  BY <1>3, <2>6, <2>7 DEF Replay
<1> QED  BY <1>1, <1>2, <1>3 DEF DriverStep, Running

LEMMA ActivityInvariant == Spec => []ActivityInv
<1>1. Init => ActivityInv
  BY EmptyStackKeeps DEF Init, ActivityInv, Idle
<1>2. TypeOK /\ BoundariesAgree /\ ActivityInv /\ [Next]_vars => ActivityInv'
  BY CallActivity, DriverActivity DEF Next
<1> QED  BY <1>1, <1>2, TypeCorrect, BoundariesCorrect, PTL DEF Spec

(***************************************************************************)
(* whenIdle(), and dispose() through it, resolves only while no driver and *)
(* no job owns the agent, for any number of callers and however often the  *)
(* activity they observe is replaced by released work.                     *)
(***************************************************************************)
THEOREM WhenIdleCorrect == Spec => WhenIdleSound
<1>1. TypeOK /\ ActivityInv /\ [Next]_vars
      => [\A w \in Waiters \cup {"dispose"} :
            waiting[w] # None /\ waiting'[w] = None => phase.kind = "idle"]_vars
  <2> SUFFICES ASSUME TypeOK, ActivityInv, Next,
                      NEW w \in Waiters \cup {"dispose"},
                      waiting[w] # None, waiting'[w] = None
               PROVE  phase.kind = "idle"
    OBVIOUS
  <2>1. activity # None  BY DEF TypeOK, None
  <2>2. ASSUME NEW u \in Waiters \cup {"dispose"}, Quiesce(u) PROVE phase.kind = "idle"
    <3>1. (waiting[u] \in settled /\ waiting[u] = activity) \/ waiting'[w] = waiting[w]
      BY <2>2 DEF Quiesce, Observed, Quiescent
    <3> QED  BY <3>1 DEF ActivityInv
  <2>3. ASSUME NEW u \in Waiters \cup {"dispose"}, WhenIdle(u) \/ FollowActivity(u)
        PROVE  FALSE
    BY <2>1, <2>3 DEF WhenIdle, FollowActivity, TypeOK
  <2>4. CASE Cancel("user") \/ CancelStep \/ Dispose
    <3>1. UNCHANGED waiting \/ waiting' = [waiting EXCEPT !["dispose"] = activity]
      BY <2>4 DEF Cancel, CancelStep, Dispose, CancelAll, ClearTurns, ClearList, FinishCancel,
                  AwaitIdle
    <3> QED  BY <2>1, <3>1 DEF TypeOK
  <2>5. CASE UNCHANGED waiting  BY <2>5
  <2>6. Running => UNCHANGED waiting  BY RunningStack DEF OtherVars, waitVars
  <2> QED
    BY <2>2, <2>3, <2>4, <2>5, <2>6
       DEF Next, Call, Send, Remove, CancelKeepInbox, RunMaintenance, DisposeRejected, Detach,
           CallStep, Wake, JobSettles, Waiter, DriverStep, Running, Retire, Replay,
           OtherVars, waitVars
<1> QED  BY <1>1, TypeCorrect, ActivityInvariant, PTL DEF Spec, WhenIdleSound

-----------------------------------------------------------------------------
(***************************************************************************)
(* What the model is owed.  A turn closes as completed at three places:    *)
(* before its first step, or with the ending its last step left.  The      *)
(* invariant follows the debt to each of them.                             *)
(***************************************************************************)
OwesInv ==
  /\ turnEnds = "completed" /\ log.open # "none" /\ pc # "step-end" => ~log.owed
  /\ pc = "step-end" /\ outcome = "completed" => ~log.owed
  /\ log.open = "turn" /\ phase.step = 0 => ~log.owed
  /\ log.open = "step" => phase.step > 0
  /\ CompletedOwesNothing

LEMMA OwesUntouched ==
  ASSUME OwesInv, UNCHANGED <<pc, outcome, turnEnds, log>>, phase'.step = phase.step
  PROVE  OwesInv'
BY DEF OwesInv, CompletedOwesNothing

LEMMA OwesBetweenTurns ==
  ASSUME OwesInv, UNCHANGED log, log.open = "none", pc' # "step-end"
  PROVE  OwesInv'
BY DEF OwesInv, CompletedOwesNothing

LEMMA OwesClosed ==
  ASSUME TypeOK, OwesInv, NEW ending, NEW at \in {"drained", "retire"}, NEW rest,
         ending = "completed" => ~log.owed, CloseTurn(ending, at, rest)
  PROVE  OwesInv'
<1>1. log'.open = "none" /\ log'.ending = ending /\ log'.owed = log.owed /\ pc' = at
  BY DEF CloseTurn, TypeOK
<1> QED  BY <1>1 DEF OwesInv, CompletedOwesNothing

LEMMA OwesMoved ==
  ASSUME OwesInv, UNCHANGED <<phase, log>>, pc # "step-end", pc' # "step-end",
         turnEnds' \in {turnEnds, "error"}
  PROVE  OwesInv'
BY DEF OwesInv, CompletedOwesNothing

LEMMA OwesCaught ==
  ASSUME TypeOK, OwesInv, UNCHANGED phase, pc # "step-end", NEW rest, Catch(rest)
  PROVE  OwesInv'
<1>1. CASE CloseTurn("aborted", "retire", rest)  BY <1>1, OwesClosed
<1>2. CASE turnEnds' = "error" /\ pc' = "reported" /\ UNCHANGED log
  BY <1>2, OwesMoved
<1> QED  BY <1>1, <1>2 DEF Catch

LEMMA OwesFailed ==
  ASSUME TypeOK, OwesInv, UNCHANGED <<phase, turnEnds>>, log.open = "step",
         pc # "step-end", NEW rest, FailStep(rest)
  PROVE  OwesInv'
<1>1. log'.open = "turn" /\ log'.owed = log.owed /\ pc' = "caught"
  BY DEF FailStep, ClosedRecovered, TypeOK
<1>2. phase.step \in Nat  BY PhaseTypes DEF TypeOK
<1> QED  BY <1>1, <1>2 DEF OwesInv, CompletedOwesNothing

LEMMA OwesClaimed ==
  ASSUME TypeOK, OwesInv, UNCHANGED phase, pc # "step-end", NEW t, NEW rest, Claim(t, rest)
  PROVE  OwesInv'
<1>1. CASE Catch(rest)  BY <1>1, OwesCaught
<1>2. CASE pc' = "pre-step" /\ UNCHANGED <<log, turnEnds>>  BY <1>2, OwesMoved
<1> QED  BY <1>1, <1>2 DEF Claim

LEMMA OwesCalls ==
  ASSUME TypeOK, BoundariesAgree, OwesInv,
         Call \/ CallStep \/ JobSettles \/ Waiter \/ Detach \/ Replay \/ UNCHANGED vars
  PROVE  OwesInv'
<1>0. UNCHANGED <<outcome, turnEnds, log>>
  BY DEF Call, Send, Remove, Cancel, CancelKeepInbox, RunMaintenance, WhenIdle, Dispose,
         DisposeRejected, Detach,
         CallStep, Wake, CancelStep, JobSettles, Waiter, FollowActivity, Quiesce, Replay,
         driverVars, vars
<1>1. CASE phase.kind # "running"
  <2>1. pc' # "step-end"
    BY <1>1 DEF BoundariesAgree, Call, Send, Remove, Cancel, CancelKeepInbox, RunMaintenance,
         WhenIdle, Dispose, DisposeRejected, Detach,
         CallStep, Wake, CancelStep, JobSettles, Waiter, FollowActivity,
         Quiesce, Replay, WakeDriver, StartDriver, driverVars, vars
  <2>2. log.open = "none"  BY <1>1 DEF BoundariesAgree, OpenAt
  <2> QED  BY <1>0, <2>1, <2>2, OwesBetweenTurns
<1>2. CASE phase.kind = "running"
  <2>1. UNCHANGED pc
    BY <1>2 DEF Call, Send, Remove, Cancel, CancelKeepInbox, RunMaintenance,
         WhenIdle, Dispose, DisposeRejected, Detach,
         CallStep, Wake, CancelStep, JobSettles, Waiter, FollowActivity,
         Quiesce, Replay, WakeDriver, driverVars, vars
  <2>2. \/ UNCHANGED phase
        \/ \E w : phase' = [phase EXCEPT !.wake = w]
        \/ \E c : phase' = [phase EXCEPT !.abort = c]
        \/ \E w, c : phase' = [phase EXCEPT !.wake = w, !.abort = c]
    BY <1>2 DEF Call, Send, Remove, Cancel, CancelKeepInbox, RunMaintenance,
         WhenIdle, Dispose, DisposeRejected, Detach,
         CallStep, Wake, CancelStep, JobSettles, Waiter, FollowActivity,
         Quiesce, Replay, WakeDriver, CancelAll, ClearTurns, ClearList, FinishCancel, vars
  <2>3. phase'.step = phase.step  BY <2>2 DEF TypeOK, Phases
  <2> QED  BY <1>0, <2>1, <2>3, OwesUntouched
<1> QED  BY <1>1, <1>2

\* The steps of the driver between the turns and between the steps of a turn.
LEMMA OwesTurns ==
  ASSUME TypeOK, BoundariesAgree, OwesInv,
         StartTurn \/ ClaimTurn \/ PreStepSettles \/ EnterStep \/ ContinueTurn
           \/ StoppingSettles \/ CatchStep \/ EndFailedTurn \/ Drain \/ Retire
  PROVE  OwesInv'
<1>0. phase.step \in Nat  BY PhaseTypes DEF TypeOK
<1>1. CASE StartTurn
  <2>1. log.open = "none"  BY <1>1 DEF StartTurn, BoundariesAgree, OpenAt
  <2>2. CASE pc' = "retire" /\ UNCHANGED log  BY <2>1, <2>2, OwesBetweenTurns
  <2>3. CASE /\ log' = [log EXCEPT !.turn = phase.turn + 1, !.step = 0, !.open = "turn",
                                   !.owed = FALSE]
             /\ turnEnds' = "none" /\ pc' = "opened"
    <3>1. log'.open = "turn" /\ log'.owed = FALSE  BY <2>3 DEF TypeOK
    <3> QED  BY <2>3, <3>1 DEF OwesInv, CompletedOwesNothing
  <2> QED  BY <1>1, <2>2, <2>3 DEF StartTurn
<1>2. CASE Drain \/ Retire
  BY <1>2, OwesBetweenTurns DEF Drain, Retire, BoundariesAgree, OpenAt
<1>3. CASE ClaimTurn \/ ContinueTurn
  <2>1. CASE pc' = "stopping" /\ UNCHANGED <<turnEnds, log>>
    BY <1>3, <2>1, OwesMoved DEF ClaimTurn, ContinueTurn
  <2> QED  BY <1>3, <2>1, OwesClaimed DEF ClaimTurn, ContinueTurn
<1>4. CASE PreStepSettles \/ CatchStep
  <2>1. CASE \E rest : Catch(rest)  BY <1>4, <2>1, OwesCaught DEF PreStepSettles, CatchStep
  <2>2. CASE pc' = "decided" /\ UNCHANGED <<log, turnEnds>>
    BY <1>4, <2>2, OwesMoved DEF PreStepSettles, CatchStep
  <2> QED  BY <1>4, <2>1, <2>2 DEF PreStepSettles, CatchStep
<1>5. CASE EndFailedTurn  BY <1>5, OwesClosed DEF EndFailedTurn
<1>6. CASE StoppingSettles
  <2>1. log.open = "turn" /\ pc = "stopping"
    BY <1>6 DEF StoppingSettles, BoundariesAgree, OpenAt
  <2>2. turnEnds = "completed" => ~log.owed  BY <2>1 DEF OwesInv
  <2> QED  BY <1>6, <2>1, <2>2, OwesCaught, OwesClosed, OwesClaimed DEF StoppingSettles
<1>7. CASE EnterStep
  <2>1. log.open = "turn" /\ pc = "decided"  BY <1>7 DEF EnterStep, BoundariesAgree, OpenAt
  <2>2. turnEnds = "completed" => ~log.owed  BY <2>1 DEF OwesInv
  <2>3. phase.step = 0 => ~log.owed  BY <2>1 DEF OwesInv
  <2>4. CASE CloseTurn("blocked", "retire", <<>>)  BY <2>4, OwesClosed
  <2>5. CASE CloseTurn(turnEnds, "drained", <<Driver>>)  BY <2>2, <2>5, OwesClosed
  <2>6. CASE phase.step = 0 /\ CloseTurn("completed", "retire", <<>>)
    BY <2>3, <2>6, OwesClosed
  <2>7. CASE Catch(<<>>) /\ UNCHANGED phase  BY <2>1, <2>7, OwesCaught
  <2>8. CASE /\ phase' = [phase EXCEPT !.step = @ + 1]
             /\ log' = [log EXCEPT !.step = phase.step + 1, !.open = "step"]
             /\ pc' = "request" /\ UNCHANGED turnEnds
    <3>1. phase'.step = phase.step + 1 /\ log'.open = "step" /\ log'.owed = log.owed
      BY <2>8 DEF TypeOK, Phases
    <3>2. phase'.step > 0  BY <1>0, <3>1
    <3> QED  BY <2>2, <2>8, <3>1, <3>2 DEF OwesInv, CompletedOwesNothing
  <2> QED  BY <1>7, <2>4, <2>5, <2>6, <2>7, <2>8 DEF EnterStep
<1> QED  BY <1>1, <1>2, <1>3, <1>4, <1>5, <1>6, <1>7

LEMMA OwesSteps ==
  ASSUME TypeOK, BoundariesAgree, OwesInv,
         RequestSettles \/ BeginAdmission \/ AdmitMessage \/ OpenStream \/ StreamSettles
           \/ RequestErrorSettles \/ ToolsSettle \/ EndStep
  PROVE  OwesInv'
<1>0. phase.step \in Nat  BY PhaseTypes DEF TypeOK
<1>1. log.open = "step" /\ phase.step > 0 /\ UNCHANGED phase
  BY DEF RequestSettles, BeginAdmission, AdmitMessage, OpenStream, StreamSettles,
         RequestErrorSettles, ToolsSettle, EndStep, BoundariesAgree, OpenAt, OwesInv
<1>2. CASE \E rest : FailStep(rest)
  <2>1. pc # "step-end" /\ UNCHANGED turnEnds
    BY <1>2 DEF RequestSettles, BeginAdmission, AdmitMessage, OpenStream, StreamSettles,
           RequestErrorSettles, ToolsSettle, EndStep, FailStep
  <2> QED  BY <1>1, <1>2, <2>1, OwesFailed
<1>3. CASE RequestSettles \/ BeginAdmission \/ AdmitMessage \/ OpenStream
             \/ RequestErrorSettles
  <2>1. CASE UNCHANGED <<log, turnEnds>> /\ pc' # "step-end"
    BY <1>3, <2>1, OwesMoved DEF RequestSettles, BeginAdmission, AdmitMessage, OpenStream,
                                      RequestErrorSettles
  <2> QED  BY <1>2, <1>3, <2>1 DEF RequestSettles, BeginAdmission, AdmitMessage, OpenStream,
                                      RequestErrorSettles
<1>4. CASE StreamSettles
  <2>1. CASE pc' = "request-error" /\ UNCHANGED <<log, turnEnds>>
    BY <1>4, <2>1, OwesMoved DEF StreamSettles
  <2>2. CASE log' = [log EXCEPT !.owed = FALSE]
    <3>1. log'.owed = FALSE /\ log'.open = "step"  BY <1>1, <2>2 DEF TypeOK
    <3> QED  BY <1>1, <3>1 DEF OwesInv, CompletedOwesNothing
  <2>3. CASE log' = [log EXCEPT !.owed = FALSE, !.unanswered = TRUE]
    <3>1. log'.owed = FALSE /\ log'.open = "step"  BY <1>1, <2>3 DEF TypeOK
    <3> QED  BY <1>1, <3>1 DEF OwesInv, CompletedOwesNothing
  <2> QED  BY <1>2, <1>4, <2>1, <2>2, <2>3 DEF StreamSettles
<1>5. CASE ToolsSettle
  <2>1. CASE \E concluded \in BOOLEAN :
                /\ outcome' = IF concluded THEN "completed" ELSE "none"
                /\ log' = [log EXCEPT !.unanswered = FALSE, !.owed = ~concluded]
                /\ pc' = "step-end"
    <3>1. PICK concluded \in BOOLEAN :
                /\ outcome' = IF concluded THEN "completed" ELSE "none"
                /\ log' = [log EXCEPT !.unanswered = FALSE, !.owed = ~concluded]
                /\ pc' = "step-end"
      BY <2>1
    <3>2. log'.owed = ~concluded /\ log'.open = "step"  BY <1>1, <3>1 DEF TypeOK
    <3> QED  BY <1>1, <3>1, <3>2 DEF OwesInv, CompletedOwesNothing
  <2> QED  BY <1>2, <1>5, <2>1 DEF ToolsSettle
<1>6. CASE EndStep
  <2>1. log'.open = "turn" /\ log'.owed = log.owed /\ pc' = "after-step" /\ pc = "step-end"
    BY <1>6 DEF EndStep, TypeOK
  <2>2. turnEnds' = "completed" => outcome = "completed"
    BY <1>6 DEF EndStep, EndingAfter
  <2>3. turnEnds' = "completed" => ~log.owed  BY <2>1, <2>2 DEF OwesInv
  <2> QED  BY <1>0, <1>1, <2>1, <2>3 DEF OwesInv, CompletedOwesNothing
<1> QED  BY <1>3, <1>4, <1>5, <1>6

LEMMA OwesInvariant == Spec => []OwesInv
<1>1. Init => OwesInv
  BY DEF Init, OwesInv, CompletedOwesNothing
<1>2. TypeOK /\ BoundariesAgree /\ OwesInv /\ [Next]_vars => OwesInv'
  BY OwesCalls, OwesTurns, OwesSteps DEF Next, DriverStep
<1> QED  BY <1>1, <1>2, TypeCorrect, BoundariesCorrect, PTL DEF Spec

(***************************************************************************)
(* A turn that ends as completed owes the model no response to a tool      *)
(* result, whichever steps its listeners add, fail or abort on the way.    *)
(***************************************************************************)
THEOREM CompletedCorrect == Spec => []CompletedOwesNothing
<1>1. OwesInv => CompletedOwesNothing  BY DEF OwesInv
<1> QED  BY <1>1, OwesInvariant, PTL

-----------------------------------------------------------------------------
(***************************************************************************)
(* The fate of a message.  The numbers of the messages give the order in   *)
(* which they were sent, so a pending list is increasing; what has been    *)
(* claimed or logged was taken from the front.                             *)
(***************************************************************************)
Items(s) == {s[i] : i \in 1 .. Len(s)}
Told(entries) == {entries[i].message : i \in 1 .. Len(entries)}
Increasing(s) == \A i, j \in 1 .. Len(s) : i < j => s[i] < s[j]

Entries == [message : Messages, turn : Nat]
Lists == [Messages -> Targets \cup {"none"}]

Fate(box, claimed, entries, lists, last) ==
  /\ \A t \in Targets :
       /\ Increasing(box[t])
       /\ \A m \in Items(box[t]) :
            lists[m] = t /\ m <= last /\ m \notin Items(claimed) /\ m \notin Told(entries)
  /\ Distinct(claimed)
  /\ \A m \in Items(claimed) : m <= last /\ m \notin Told(entries)
  /\ \A i, j \in 1 .. Len(entries) : entries[i].message = entries[j].message => i = j
  /\ \A m \in Told(entries) : m <= last
  /\ \A m \in Items(claimed) \cup Told(entries), q \in Items(box["next-turn"]) :
       lists[m] = "next-turn" => m < q
  /\ \A m, n \in Items(claimed) : lists[m] = "next-turn" /\ lists[n] = "next-turn" => m = n
  /\ \A m \in Items(claimed), n \in Told(entries) :
       lists[m] = "next-turn" /\ lists[n] = "next-turn" => n < m

\* A prompt is logged in a later turn than the ones before it.
Turns ==
  \A e \in 1 .. Len(delivered) :
    list[delivered[e].message] = "next-turn"
    => /\ delivered[e].turn <= phase.turn
       /\ pc = "opened" => delivered[e].turn < phase.turn
       /\ \A m \in Items(Claimed) : list[m] = "next-turn" => delivered[e].turn < phase.turn

MessageInv ==
  /\ Fate(inbox, Claimed, delivered, list, sent)
  /\ Turns
  /\ PromptOrder

(***************************************************************************)
(* Where the claimed batch is.  It is held from its claim to the end of    *)
(* its step; what is still to log is held while the step logs it, and only *)
(* an attempt that has not begun to log stands for the whole batch.        *)
(***************************************************************************)
BatchInv ==
  /\ batch # <<>> => pc \in {"pre-step", "decided", "request", "prepared", "admitting",
                             "stream", "request-error", "tools", "step-end", "caught"}
  /\ pc = "decided" /\ decision # "enter" => batch = <<>>
  /\ unlogged # <<>> => pc = "admitting"
  /\ pc \in {"admitting", "stream", "request-error", "tools", "step-end"} => ~fresh

LEMMA BatchUntouched ==
  ASSUME BatchInv, UNCHANGED <<batch, decision, fresh, unlogged>>,
         UNCHANGED pc \/ (pc = "none" /\ pc' = "turn")
  PROVE  BatchInv'
BY DEF BatchInv

\* What calls, jobs and replays leave alone.
LEMMA BatchCalls ==
  ASSUME TypeOK, BoundariesAgree,
         Call \/ CallStep \/ JobSettles \/ Waiter \/ Detach \/ Replay \/ UNCHANGED vars
  PROVE  /\ UNCHANGED <<batch, decision, fresh, unlogged, delivered>>
         /\ UNCHANGED pc \/ (pc = "none" /\ pc' = "turn")
<1>1. UNCHANGED <<batch, decision, fresh, unlogged, delivered>>
  BY DEF Call, Send, Remove, Cancel, CancelKeepInbox, RunMaintenance, WhenIdle, Dispose,
         DisposeRejected, Detach, CallStep, Wake, CancelStep, JobSettles, Waiter,
         FollowActivity, Quiesce, Replay, driverVars, vars
<1>2. UNCHANGED pc \/ (phase.kind # "running" /\ pc' = "turn")
  BY DEF BoundariesAgree, Call, Send, Remove, Cancel, CancelKeepInbox, RunMaintenance,
         WhenIdle, Dispose, DisposeRejected, Detach, CallStep, Wake, CancelStep, JobSettles,
         Waiter, FollowActivity, Quiesce, Replay, WakeDriver, StartDriver, driverVars, vars
<1> QED  BY <1>1, <1>2 DEF BoundariesAgree

LEMMA BatchTurns ==
  ASSUME BatchInv,
         StartTurn \/ ClaimTurn \/ PreStepSettles \/ EnterStep \/ ContinueTurn
           \/ StoppingSettles \/ CatchStep \/ EndFailedTurn \/ Drain \/ Retire
  PROVE  BatchInv'
<1>1. CASE StartTurn \/ Drain \/ Retire
  BY <1>1 DEF StartTurn, Drain, Retire, BatchInv
<1>2. CASE ClaimTurn \/ ContinueTurn \/ StoppingSettles
  BY <1>2 DEF ClaimTurn, ContinueTurn, StoppingSettles, Claim, Catch, CloseTurn, BatchInv
<1>3. CASE PreStepSettles \/ CatchStep \/ EndFailedTurn
  BY <1>3 DEF PreStepSettles, CatchStep, EndFailedTurn, Catch, CloseTurn, BatchInv
<1>4. CASE EnterStep
  BY <1>4 DEF EnterStep, Catch, CloseTurn, BatchInv
<1> QED  BY <1>1, <1>2, <1>3, <1>4

LEMMA BatchSteps ==
  ASSUME BatchInv,
         RequestSettles \/ BeginAdmission \/ AdmitMessage \/ OpenStream \/ StreamSettles
           \/ RequestErrorSettles \/ ToolsSettle \/ EndStep
  PROVE  BatchInv'
<1>1. CASE RequestSettles \/ BeginAdmission \/ OpenStream
  BY <1>1 DEF RequestSettles, BeginAdmission, OpenStream, FailStep, BatchInv
<1>2. CASE AdmitMessage  BY <1>2 DEF AdmitMessage, BatchInv
<1>3. CASE StreamSettles  BY <1>3 DEF StreamSettles, FailStep, BatchInv
<1>4. CASE RequestErrorSettles  BY <1>4 DEF RequestErrorSettles, FailStep, BatchInv
<1>5. CASE ToolsSettle  BY <1>5 DEF ToolsSettle, FailStep, BatchInv
<1>6. CASE EndStep  BY <1>6 DEF EndStep, BatchInv
<1> QED  BY <1>1, <1>2, <1>3, <1>4, <1>5, <1>6

LEMMA BatchInvariant == Spec => []BatchInv
<1>1. Init => BatchInv  BY DEF Init, BatchInv
<1>2. TypeOK /\ BoundariesAgree /\ BatchInv /\ [Next]_vars => BatchInv'
  BY BatchCalls, BatchUntouched, BatchTurns, BatchSteps DEF Next, DriverStep
<1> QED  BY <1>1, <1>2, TypeCorrect, BoundariesCorrect, PTL DEF Spec

(***************************************************************************)
(* Lists and what is taken from them.                                      *)
(***************************************************************************)
LEMMA MessagesAreNumbers == Messages \subseteq Int
BY AgentLoopConstants DEF Messages

LEMMA ItemsType ==
  ASSUME NEW s \in Seq(Messages)
  PROVE  Items(s) \subseteq Messages /\ Items(s) \subseteq Int
BY ElementOfSeq, MessagesAreNumbers DEF Items

LEMMA ToldType ==
  ASSUME NEW e \in Seq(Entries)
  PROVE  Told(e) \subseteq Messages /\ Told(e) \subseteq Int
<1>1. \A i \in 1 .. Len(e) : e[i] \in Entries  BY ElementOfSeq
<1> QED  BY <1>1, MessagesAreNumbers DEF Told, Entries

LEMMA NothingClaimed ==
  /\ Items(<<>>) = {} /\ Increasing(<<>>) /\ Distinct(<<>>) /\ Told(<<>>) = {}
BY DEF Items, Increasing, Distinct, Told

\* r holds some of the messages of s, in their order.
Within(r, s) == Items(r) \subseteq Items(s) /\ (Increasing(s) => Increasing(r))

LEMMA TailWithin ==
  ASSUME NEW s \in Seq(Messages), s # <<>>
  PROVE  /\ Within(Tail(s), s)
         /\ Head(s) \in Items(s)
         /\ Increasing(s) => \A m \in Items(Tail(s)) : Head(s) < m
         /\ Items(s) = Items(Tail(s)) \cup {Head(s)}
         /\ Distinct(s) => Distinct(Tail(s)) /\ Head(s) \notin Items(Tail(s))
<1>1. Len(s) \in Nat \ {0} /\ Head(s) = s[1]  BY EmptySeq
<1>2. Len(Tail(s)) = Len(s) - 1 /\ \A i \in 1 .. Len(Tail(s)) : Tail(s)[i] = s[i + 1]
  BY HeadTailProperties
<1>3. \A i \in 1 .. Len(Tail(s)) : i + 1 \in 1 .. Len(s) /\ 1 < i + 1  BY <1>1, <1>2
<1>4. Items(Tail(s)) \subseteq Items(s)  BY <1>2, <1>3 DEF Items
<1>5. Increasing(s) => Increasing(Tail(s))
  BY <1>1, <1>2, <1>3 DEF Increasing
<1>6. 1 \in 1 .. Len(s)  BY <1>1
<1>7. Increasing(s) => \A m \in Items(Tail(s)) : Head(s) < m
  BY <1>1, <1>2, <1>3, <1>6 DEF Increasing, Items
<1>8. Items(s) \subseteq Items(Tail(s)) \cup {Head(s)}
  <2> SUFFICES ASSUME NEW i \in 1 .. Len(s), i # 1 PROVE s[i] \in Items(Tail(s))
    BY <1>1 DEF Items
  <2>1. i - 1 \in 1 .. Len(Tail(s)) /\ i - 1 + 1 = i  BY <1>1, <1>2
  <2>2. Tail(s)[i - 1] = s[i]  BY <1>2, <2>1
  <2> QED  BY <2>1, <2>2 DEF Items
<1>9. Distinct(s) => Distinct(Tail(s)) /\ Head(s) \notin Items(Tail(s))
  <2> SUFFICES ASSUME Distinct(s)
               PROVE  Distinct(Tail(s)) /\ Head(s) \notin Items(Tail(s))
    OBVIOUS
  <2>1. ASSUME NEW i \in 1 .. Len(Tail(s)), NEW j \in 1 .. Len(Tail(s)),
               Tail(s)[i] = Tail(s)[j]
        PROVE  i = j
    <3>1. s[i + 1] = s[j + 1] /\ i + 1 \in 1 .. Len(s) /\ j + 1 \in 1 .. Len(s)
      BY <1>2, <1>3, <2>1
    <3>2. i + 1 = j + 1  BY <3>1 DEF Distinct
    <3> QED  BY <3>2
  <2>2. \A i \in 1 .. Len(Tail(s)) : Tail(s)[i] # s[1]
    <3> SUFFICES ASSUME NEW i \in 1 .. Len(Tail(s)), Tail(s)[i] = s[1] PROVE FALSE  OBVIOUS
    <3>1. s[i + 1] = s[1] /\ i + 1 \in 1 .. Len(s)  BY <1>2, <1>3
    <3>2. i + 1 = 1  BY <1>6, <3>1 DEF Distinct
    <3> QED  BY <3>2
  <2> QED  BY <1>1, <2>1, <2>2 DEF Distinct, Items
<1> QED  BY <1>1, <1>4, <1>5, <1>6, <1>7, <1>8, <1>9 DEF Within, Items

LEMMA RemovedWithin ==
  ASSUME NEW s \in Seq(Messages), NEW at \in 1 .. Len(s)
  PROVE  Within(Spliced(s, at - 1, 1, <<>>), s)
<1>0. Len(s) \in Nat /\ at \in Nat  BY LenProperties
<1> DEFINE a == SubSeq(s, 1, at - 1)
           b == SubSeq(s, at + 1, Len(s))
<1>1. \A i \in 1 .. Len(s) : s[i] \in Messages  BY ElementOfSeq
<1>2. /\ a \in Seq(Messages) /\ Len(a) = at - 1
      /\ \A i \in 1 .. at - 1 : a[i] = s[i]
  <2> DEFINE n == at - 1
  <2>1. n \in Nat /\ \A i \in 1 .. n : s[i] \in Messages  BY <1>0, <1>1
  <2> HIDE DEF n
  <2>2. /\ SubSeq(s, 1, n) \in Seq(Messages)
        /\ Len(SubSeq(s, 1, n)) = IF 1 <= n THEN n - 1 + 1 ELSE 0
        /\ \A i \in 1 .. n - 1 + 1 : SubSeq(s, 1, n)[i] = s[1 + i - 1]
    BY <2>1, SubSeqProperties
  <2>3. Len(SubSeq(s, 1, n)) = n /\ \A i \in 1 .. n : SubSeq(s, 1, n)[i] = s[i]
    BY <2>1, <2>2
  <2> QED  BY <2>2, <2>3 DEF n
<1>3. /\ b \in Seq(Messages) /\ Len(b) = Len(s) - at
      /\ \A i \in 1 .. Len(s) - at : b[i] = s[at + i]
  <2> DEFINE n == at + 1
             k == Len(s)
  <2>1. n \in Nat /\ k \in Nat /\ n <= k + 1 /\ \A i \in n .. k : s[i] \in Messages
    BY <1>0, <1>1
  <2> HIDE DEF n, k
  <2>2. /\ SubSeq(s, n, k) \in Seq(Messages)
        /\ Len(SubSeq(s, n, k)) = IF n <= k THEN k - n + 1 ELSE 0
        /\ \A i \in 1 .. k - n + 1 : SubSeq(s, n, k)[i] = s[n + i - 1]
    BY <2>1, SubSeqProperties
  <2>3. Len(SubSeq(s, n, k)) = k - n + 1  BY <2>1, <2>2
  <2>4. k - n + 1 = Len(s) - at  BY <1>0 DEF n, k
  <2>5. ASSUME NEW i \in 1 .. k - n + 1 PROVE SubSeq(s, n, k)[i] = s[at + i]
    <3>1. n + i - 1 = at + i  BY <1>0, <2>1 DEF n
    <3> QED  BY <2>2, <3>1
  <2>6. b = SubSeq(s, n, k)  BY DEF n, k
  <2> HIDE DEF b
  <2> QED  BY <2>2, <2>3, <2>4, <2>5, <2>6
<1>4. Spliced(s, at - 1, 1, <<>>) = a \o b
  <2>1. a \o <<>> = a  BY <1>2, ConcatEmptySeq
  <2>2. at - 1 + 1 + 1 = at + 1  BY <1>0
  <2> QED  BY <2>1, <2>2 DEF Spliced
<1> HIDE DEF a, b
<1> DEFINE r == a \o b
<1>5. /\ Len(r) = Len(s) - 1
      /\ \A i \in 1 .. Len(r) : r[i] = s[IF i < at THEN i ELSE i + 1]
  <2>1. /\ Len(r) = Len(a) + Len(b)
        /\ \A i \in 1 .. Len(a) + Len(b) : r[i] = IF i <= Len(a) THEN a[i] ELSE b[i - Len(a)]
    BY <1>2, <1>3, ConcatProperties
  <2> HIDE DEF r
  <2>2. Len(r) = Len(s) - 1  BY <1>0, <1>2, <1>3, <2>1
  <2>3. ASSUME NEW i \in 1 .. Len(r) PROVE r[i] = s[IF i < at THEN i ELSE i + 1]
    <3>1. CASE i < at  BY <1>0, <1>2, <1>3, <2>1, <2>2, <3>1
    <3>2. CASE ~(i < at)
      <4>1. r[i] = b[i - (at - 1)] /\ i - (at - 1) \in 1 .. Len(s) - at
        BY <1>0, <1>2, <1>3, <2>1, <2>2, <3>2
      <4>2. at + (i - (at - 1)) = i + 1  BY <1>0, <2>2
      <4> QED  BY <1>3, <3>2, <4>1, <4>2
    <3> QED  BY <3>1, <3>2
  <2> QED  BY <2>2, <2>3
<1> HIDE DEF r
<1>6. \A i \in 1 .. Len(r) : (IF i < at THEN i ELSE i + 1) \in 1 .. Len(s)
  BY <1>0, <1>5
<1>7. \A i, j \in 1 .. Len(r) :
        i < j => (IF i < at THEN i ELSE i + 1) < (IF j < at THEN j ELSE j + 1)
  BY <1>0, <1>5
<1>8. Items(r) \subseteq Items(s)  BY <1>5, <1>6 DEF Items
<1>9. Increasing(s) => Increasing(r)  BY <1>5, <1>6, <1>7 DEF Increasing
<1> QED  BY <1>4, <1>8, <1>9 DEF Within, r

LEMMA WithoutWithin ==
  ASSUME NEW box \in [Targets -> Seq(Messages)], NEW m
  PROVE  \A t \in Targets : Within(Without(box, m)[t], box[t])
<1> SUFFICES ASSUME NEW t \in Targets PROVE Within(Without(box, m)[t], box[t])  OBVIOUS
<1>1. CASE Positions(box[t], m) = {}  BY <1>1 DEF Without, Within
<1>2. CASE Positions(box[t], m) # {}
  <2>1. PICK at \in 1 .. Len(box[t]) :
          at = CHOOSE i \in Positions(box[t], m) : TRUE
    BY <1>2 DEF Positions
  <2>2. Without(box, m)[t] = Spliced(box[t], at - 1, 1, <<>>)
    BY <1>2, <2>1 DEF Without
  <2> QED  BY <2>2, RemovedWithin
<1> QED  BY <1>1, <1>2

LEMMA UnclaimedWithin ==
  ASSUME NEW box \in [Targets -> Seq(Messages)], NEW t \in Targets
  PROVE  \A u \in Targets : Within(Unclaimed(box, t)[u], box[u])
<1>1. box["next-turn"] # <<>> => Within(Tail(box["next-turn"]), box["next-turn"])
  BY TailWithin DEF Targets
<1>2. \A s : Within(<<>>, s) /\ Within(s, s)  BY NothingClaimed DEF Within
<1> QED  BY <1>1, <1>2 DEF Unclaimed, Targets

LEMMA AppendItems ==
  ASSUME NEW s \in Seq(Messages), NEW m \in Messages
  PROVE  /\ Items(Append(s, m)) = Items(s) \cup {m}
         /\ Increasing(s) /\ (\A n \in Items(s) : n < m) => Increasing(Append(s, m))
<1> DEFINE r == Append(s, m)
<1>0. Len(s) \in Nat  BY LenProperties
<1>1. Len(r) = Len(s) + 1 /\ r[Len(s) + 1] = m /\ \A i \in 1 .. Len(s) : r[i] = s[i]
  BY AppendProperties
<1> HIDE DEF r
<1>2. 1 .. Len(r) = (1 .. Len(s)) \cup {Len(s) + 1}  BY <1>0, <1>1
<1>3. Items(r) = Items(s) \cup {m}  BY <1>1, <1>2 DEF Items
<1>4. ASSUME Increasing(s), \A n \in Items(s) : n < m,
             NEW i \in 1 .. Len(r), NEW j \in 1 .. Len(r), i < j
      PROVE  r[i] < r[j]
  <2>1. i \in 1 .. Len(s)  BY <1>0, <1>1, <1>4
  <2>2. CASE j \in 1 .. Len(s)  BY <1>1, <1>4, <2>1, <2>2 DEF Increasing
  <2>3. CASE j = Len(s) + 1  BY <1>1, <1>4, <2>1, <2>3 DEF Items
  <2> QED  BY <1>2, <2>2, <2>3
<1>5. Increasing(s) /\ (\A n \in Items(s) : n < m) => Increasing(r)
  BY <1>4 DEF Increasing
<1> QED  BY <1>3, <1>5 DEF r

LEMMA ConcatItems ==
  ASSUME NEW S, NEW s \in Seq(S), NEW r \in Seq(S)
  PROVE  /\ Items(s \o r) = Items(s) \cup Items(r)
         /\ Distinct(s) /\ Distinct(r) /\ Items(s) \cap Items(r) = {} => Distinct(s \o r)
<1> DEFINE c == s \o r
<1>0. Len(s) \in Nat /\ Len(r) \in Nat  BY LenProperties
<1>1. /\ Len(c) = Len(s) + Len(r)
      /\ \A i \in 1 .. Len(s) + Len(r) : c[i] = IF i <= Len(s) THEN s[i] ELSE r[i - Len(s)]
  BY ConcatProperties
<1> HIDE DEF c
<1>2. \A i \in 1 .. Len(s) : i \in 1 .. Len(c) /\ c[i] = s[i]  BY <1>0, <1>1
<1>3. ASSUME NEW i \in 1 .. Len(r) PROVE i + Len(s) \in 1 .. Len(c) /\ c[i + Len(s)] = r[i]
  <2>1. i + Len(s) \in 1 .. Len(s) + Len(r) /\ ~(i + Len(s) <= Len(s))
        /\ (i + Len(s)) - Len(s) = i
    BY <1>0
  <2> QED  BY <1>1, <2>1
<1>4. ASSUME NEW i \in 1 .. Len(c)
      PROVE  \/ i \in 1 .. Len(s) /\ c[i] = s[i]
             \/ i - Len(s) \in 1 .. Len(r) /\ c[i] = r[i - Len(s)]
  BY <1>0, <1>1
<1>5. Items(c) \subseteq Items(s) \cup Items(r)  BY <1>4 DEF Items
<1>6. Items(s) \subseteq Items(c)  BY <1>2 DEF Items
<1>7. Items(r) \subseteq Items(c)  BY <1>3 DEF Items
<1>8. ASSUME Distinct(s), Distinct(r), Items(s) \cap Items(r) = {},
             NEW i \in 1 .. Len(c), NEW j \in 1 .. Len(c), c[i] = c[j]
      PROVE  i = j
  <2>1. CASE i \in 1 .. Len(s) /\ j \in 1 .. Len(s)
    BY <1>2, <1>8, <2>1 DEF Distinct
  <2>2. CASE i - Len(s) \in 1 .. Len(r) /\ j - Len(s) \in 1 .. Len(r)
    <3>1. c[i] = r[i - Len(s)] /\ c[j] = r[j - Len(s)]  BY <1>0, <1>1, <1>8, <2>2
    <3>2. i - Len(s) = j - Len(s)  BY <1>8, <2>2, <3>1 DEF Distinct
    <3> QED  BY <1>0, <3>2
  <2>3. CASE c[i] \in Items(s) /\ c[j] \in Items(r)  BY <1>8, <2>3
  <2>4. CASE c[j] \in Items(s) /\ c[i] \in Items(r)  BY <1>8, <2>4
  <2> QED  BY <1>4, <1>8, <2>1, <2>2, <2>3, <2>4 DEF Items
<1>9. Distinct(s) /\ Distinct(r) /\ Items(s) \cap Items(r) = {} => Distinct(c)
  BY <1>8 DEF Distinct
<1> QED  BY <1>5, <1>6, <1>7, <1>9 DEF c

LEMMA IncreasingIsDistinct ==
  ASSUME NEW s \in Seq(Messages), Increasing(s)
  PROVE  Distinct(s)
<1> SUFFICES ASSUME NEW i \in 1 .. Len(s), NEW j \in 1 .. Len(s), s[i] = s[j]
             PROVE  i = j
  BY DEF Distinct
<1>1. s[i] \in Int /\ s[j] \in Int  BY ElementOfSeq, MessagesAreNumbers
<1>2. Len(s) \in Nat  BY LenProperties
<1> QED  BY <1>1, <1>2 DEF Increasing

(***************************************************************************)
(* What keeps the fate of every message: lists shrink in order and the     *)
(* claimed batch is kept or dropped; a message is sent; a batch is taken   *)
(* from the front; the first of what is claimed is logged.                 *)
(***************************************************************************)
LEMMA FateKept ==
  ASSUME NEW box, NEW new, NEW claimed, NEW entries, NEW lists, NEW last,
         Fate(box, claimed, entries, lists, last),
         \A t \in Targets : Within(new[t], box[t])
  PROVE  Fate(new, claimed, entries, lists, last) /\ Fate(new, <<>>, entries, lists, last)
<1>1. Fate(new, claimed, entries, lists, last)
  BY DEF Fate, Within, Targets
<1> QED  BY <1>1, NothingClaimed DEF Fate

LEMMA FateSent ==
  ASSUME NEW box \in [Targets -> Seq(Messages)], NEW claimed \in Seq(Messages),
         NEW entries \in Seq(Entries), NEW lists \in Lists, NEW last \in Nat,
         last + 1 \in Messages, NEW t \in Targets,
         Fate(box, claimed, entries, lists, last)
  PROVE  Fate(Inserted(box, t, last + 1), claimed, entries,
              [lists EXCEPT ![last + 1] = t], last + 1)
<1> DEFINE new == Inserted(box, t, last + 1)
           lst == [lists EXCEPT ![last + 1] = t]
<1>1. /\ \A u \in Targets : Items(box[u]) \subseteq Messages /\ Items(box[u]) \subseteq Int
      /\ Items(claimed) \subseteq Messages /\ Items(claimed) \subseteq Int
      /\ Told(entries) \subseteq Messages /\ Told(entries) \subseteq Int
  BY ItemsType, ToldType
<1>2. \A u \in Targets \ {t} : new[u] = box[u]  BY DEF Inserted
<1>3. new[t] = Append(box[t], last + 1)  BY DEF Inserted
<1>4. Items(new[t]) = Items(box[t]) \cup {last + 1}  BY <1>3, AppendItems
<1>5. \A m \in Items(box[t]) : m < last + 1  BY <1>1 DEF Fate
<1>6. Increasing(new[t])
  <2>1. Increasing(box[t]) /\ box[t] \in Seq(Messages)  BY DEF Fate
  <2>2. Increasing(Append(box[t], last + 1))  BY <1>5, <2>1, AppendItems
  <2> QED  BY <1>3, <2>2
<1>7. lst[last + 1] = t /\ \A m \in Messages : m <= last => lst[m] = lists[m]
  BY MessagesAreNumbers DEF Lists
<1> HIDE DEF new, lst
<1>8. last + 1 \notin Items(claimed) /\ last + 1 \notin Told(entries)
  BY <1>1 DEF Fate
<1>9. \A u \in Targets :
        /\ Increasing(new[u])
        /\ \A m \in Items(new[u]) :
             lst[m] = u /\ m <= last + 1 /\ m \notin Items(claimed) /\ m \notin Told(entries)
  <2> SUFFICES ASSUME NEW u \in Targets
               PROVE  /\ Increasing(new[u])
                      /\ \A m \in Items(new[u]) : /\ lst[m] = u /\ m <= last + 1
                                                  /\ m \notin Items(claimed)
                                                  /\ m \notin Told(entries)
    OBVIOUS
  <2>1. \A m \in Items(box[u]) : lst[m] = u /\ m <= last + 1 /\ m \notin Items(claimed)
                                 /\ m \notin Told(entries)
    BY <1>1, <1>7 DEF Fate
  <2>2. CASE u = t  BY <1>4, <1>6, <1>7, <1>8, <2>1, <2>2
  <2>3. CASE u # t  BY <1>2, <2>1, <2>3 DEF Fate
  <2> QED  BY <2>2, <2>3
<1>10. \A m \in Items(claimed) \cup Told(entries) :
         m < last + 1 /\ lst[m] = lists[m]
  BY <1>1, <1>7 DEF Fate
<1>11. \A q \in Items(new["next-turn"]) : q \in Items(box["next-turn"]) \/ q = last + 1
  BY <1>2, <1>4 DEF Targets
<1>12. \A m \in Items(claimed) \cup Told(entries), q \in Items(new["next-turn"]) :
         lst[m] = "next-turn" => m < q
  <2>1. \A m \in Items(claimed) \cup Told(entries), q \in Items(box["next-turn"]) :
          lists[m] = "next-turn" => m < q
    BY DEF Fate
  <2> QED  BY <1>10, <1>11, <2>1
<1>13. \A m \in Items(claimed) \cup Told(entries) : m <= last + 1  BY <1>1, <1>10
<1> QED  BY <1>9, <1>10, <1>12, <1>13 DEF Fate, new, lst

LEMMA FateClaimed ==
  ASSUME NEW box \in [Targets -> Seq(Messages)], NEW claimed,
         NEW entries, NEW lists, NEW last, NEW t \in Targets,
         Fate(box, claimed, entries, lists, last)
  PROVE  /\ Fate(Unclaimed(box, t), Batch(box, t), entries, lists, last)
         /\ t = "next-step" => \A m \in Items(Batch(box, t)) : lists[m] # "next-turn"
<1> DEFINE new == Unclaimed(box, t)
           taken == Batch(box, t)
           turns == box["next-turn"]
           steps == box["next-step"]
<1>1. turns \in Seq(Messages) /\ steps \in Seq(Messages)  BY DEF Targets
<1>2. Fate(new, <<>>, entries, lists, last)  BY FateKept, UnclaimedWithin
<1>3. new["next-step"] = <<>>  BY DEF Unclaimed, Targets
<1>4. Distinct(steps)  BY <1>1, IncreasingIsDistinct DEF Fate, Targets
<1>5. \A m \in Items(steps) : lists[m] = "next-step"  BY DEF Fate, Targets
<1>6. CASE t = "next-turn" /\ turns # <<>>
  <2> DEFINE h == Head(turns)
  <2>1. h \in Items(turns) /\ \A m \in Items(Tail(turns)) : h < m
    BY <1>1, <1>6, TailWithin DEF Fate, Targets
  <2>2. taken = steps \o <<h>> /\ new["next-turn"] = Tail(turns)
    BY <1>6 DEF Batch, Unclaimed, Targets
  <2>3. h \in Messages /\ Items(Tail(turns)) \subseteq Int /\ h \in Int
    BY <1>1, <1>6, <2>1, ItemsType, HeadTailProperties
  <2> HIDE DEF h
  <2>4. <<h>> \in Seq(Messages) /\ Items(<<h>>) = {h} /\ Distinct(<<h>>)
    BY <2>3 DEF Items, Distinct
  <2>5. lists[h] = "next-turn"  BY <2>1 DEF Fate, Targets
  <2>6. Items(taken) = Items(steps) \cup {h} /\ Distinct(taken)
    <3>1. PICK one \in Seq(Messages) : one = <<h>>  BY <2>4
    <3>2. Items(one) = {h} /\ Distinct(one) /\ taken = steps \o one  BY <2>2, <2>4, <3>1
    <3>3. Items(steps) \cap Items(one) = {}  BY <1>5, <2>5, <3>2
    <3> HIDE DEF steps, taken
    <3>4. Items(steps \o one) = Items(steps) \cup Items(one) /\ Distinct(steps \o one)
      BY <1>1, <1>4, <3>2, <3>3, ConcatItems
    <3> QED  BY <3>2, <3>4
  <2>7. h \notin Items(new["next-turn"])  BY <2>1, <2>2, <2>3
  <2>8. \A m \in Items(taken) : m <= last /\ m \notin Told(entries)
    BY <2>1, <2>6 DEF Fate, Targets
  <2>9. \A u \in Targets : \A m \in Items(new[u]) : m \notin Items(taken)
    <3>1. \A m \in Items(new["next-turn"]) : lists[m] = "next-turn"
      BY <1>2 DEF Fate, Targets
    <3> QED  BY <1>3, <1>5, <2>6, <2>7, <3>1, NothingClaimed DEF Targets
  <2>10. \A m \in Items(taken), q \in Items(new["next-turn"]) : lists[m] = "next-turn" => m < q
    BY <1>5, <2>1, <2>2, <2>6
  <2>11. \A m, n \in Items(taken) : lists[m] = "next-turn" /\ lists[n] = "next-turn" => m = n
    BY <1>5, <2>6
  <2>12. \A m \in Items(taken), n \in Told(entries) :
           lists[m] = "next-turn" /\ lists[n] = "next-turn" => n < m
    BY <1>5, <2>1, <2>6 DEF Fate
  <2> HIDE DEF new, taken
  <2>13. Fate(new, taken, entries, lists, last)
    BY <1>2, <2>6, <2>8, <2>9, <2>10, <2>11, <2>12 DEF Fate
  <2> QED  BY <1>6, <2>13 DEF new, taken
<1>7. CASE ~(t = "next-turn" /\ turns # <<>>)
  <2>1. taken = steps  BY <1>1, <1>7, ConcatEmptySeq DEF Batch
  <2>2. \A u \in Targets : \A m \in Items(new[u]) : m \notin Items(taken)
    <3>1. \A m \in Items(new["next-turn"]) : lists[m] = "next-turn"
      BY <1>2 DEF Fate, Targets
    <3> QED  BY <1>3, <1>5, <2>1, <3>1, NothingClaimed DEF Targets
  <2>3. \A m \in Items(taken) : m <= last /\ m \notin Told(entries)
    BY <2>1 DEF Fate, Targets
  <2>4. \A m \in Items(taken) : lists[m] # "next-turn"  BY <1>5, <2>1
  <2>5. Distinct(taken)  BY <1>4, <2>1
  <2> HIDE DEF new, taken
  <2>6. Fate(new, taken, entries, lists, last)
    BY <1>2, <2>2, <2>3, <2>4, <2>5 DEF Fate
  <2> QED  BY <2>4, <2>6 DEF new, taken
<1> QED  BY <1>6, <1>7

LEMMA LoggedEntry ==
  ASSUME NEW entries \in Seq(Entries), NEW e \in Entries
  PROVE  /\ Told(Append(entries, e)) = Told(entries) \cup {e.message}
         /\ Len(Append(entries, e)) = Len(entries) + 1 /\ Len(entries) \in Nat
         /\ Append(entries, e)[Len(entries) + 1] = e
         /\ \A i \in 1 .. Len(entries) : Append(entries, e)[i] = entries[i]
<1> DEFINE c == Append(entries, e)
<1>0. Len(entries) \in Nat  BY LenProperties
<1>1. /\ Len(c) = Len(entries) + 1 /\ c[Len(entries) + 1] = e
      /\ \A i \in 1 .. Len(entries) : c[i] = entries[i]
  BY AppendProperties
<1> HIDE DEF c
<1>2. 1 .. Len(c) = (1 .. Len(entries)) \cup {Len(entries) + 1}  BY <1>0, <1>1
<1>3. Told(c) = Told(entries) \cup {e.message}  BY <1>1, <1>2 DEF Told
<1> QED  BY <1>0, <1>1, <1>3 DEF c

LEMMA FateLogged ==
  ASSUME NEW box, NEW claimed \in Seq(Messages), claimed # <<>>, NEW lists, NEW last,
         NEW entries \in Seq(Entries), NEW e \in Entries, e.message = Head(claimed),
         Fate(box, claimed, entries, lists, last)
  PROVE  Fate(box, Tail(claimed), Append(entries, e), lists, last)
<1> DEFINE c == Append(entries, e)
           rest == Tail(claimed)
           h == Head(claimed)
<1>0. /\ Items(claimed) = Items(rest) \cup {h} /\ h \notin Items(rest) /\ Distinct(rest)
  BY TailWithin DEF Fate
<1>1. /\ Told(c) = Told(entries) \cup {h}
      /\ Len(c) = Len(entries) + 1 /\ Len(entries) \in Nat
      /\ c[Len(entries) + 1].message = h
      /\ \A i \in 1 .. Len(entries) : c[i] = entries[i]
  BY LoggedEntry
<1> HIDE DEF c, rest, h
<1>2. h \notin Told(entries) /\ h <= last  BY <1>0 DEF Fate
<1>3. ASSUME NEW i \in 1 .. Len(c), NEW j \in 1 .. Len(c), c[i].message = c[j].message
      PROVE  i = j
  <2>1. CASE i \in 1 .. Len(entries) /\ j \in 1 .. Len(entries)
    BY <1>1, <1>3, <2>1 DEF Fate
  <2>2. \A k \in 1 .. Len(entries) : c[k].message # h  BY <1>1, <1>2 DEF Told
  <2>3. 1 .. Len(c) = (1 .. Len(entries)) \cup {Len(entries) + 1}  BY <1>1
  <2> QED  BY <1>1, <1>3, <2>1, <2>2, <2>3
<1>4. \A t \in Targets : \A m \in Items(box[t]) : m \notin Items(rest) /\ m \notin Told(c)
  BY <1>0, <1>1 DEF Fate
<1>5. \A m \in Told(c) : m <= last  BY <1>1, <1>2 DEF Fate
<1>6. \A m \in Items(rest) : m <= last /\ m \notin Told(c)  BY <1>0, <1>1 DEF Fate
<1>7. \A m \in Items(rest) \cup Told(c), q \in Items(box["next-turn"]) :
        lists[m] = "next-turn" => m < q
  BY <1>0, <1>1 DEF Fate
<1>8. \A m \in Items(rest), n \in Told(c) :
        lists[m] = "next-turn" /\ lists[n] = "next-turn" => n < m
  <2> SUFFICES ASSUME NEW m \in Items(rest), NEW n \in Told(c),
                      lists[m] = "next-turn", lists[n] = "next-turn"
               PROVE  n < m
    OBVIOUS
  <2>1. CASE n \in Told(entries)  BY <1>0, <2>1 DEF Fate
  <2>2. CASE n = h  BY <1>0, <2>2 DEF Fate
  <2> QED  BY <1>1, <2>1, <2>2
<1>9. \A m, n \in Items(rest) : lists[m] = "next-turn" /\ lists[n] = "next-turn" => m = n
  BY <1>0 DEF Fate
<1>10. Fate(box, rest, c, lists, last)
  BY <1>0, <1>3, <1>4, <1>5, <1>6, <1>7, <1>8, <1>9 DEF Fate
<1> QED  BY <1>10 DEF c, rest

-----------------------------------------------------------------------------
(***************************************************************************)
(* The steps of the agent.                                                 *)
(***************************************************************************)
LEMMA ClaimedType ==
  ASSUME TypeOK
  PROVE  Claimed \in Seq(Messages)
BY EmptySeq DEF Claimed, TypeOK

LEMMA DeliveredType ==
  ASSUME TypeOK
  PROVE  /\ delivered \in Seq(Entries) /\ Len(delivered) \in Nat
         /\ \A e \in 1 .. Len(delivered) :
              delivered[e].message \in Messages /\ delivered[e].turn \in Nat
<1>1. delivered \in Seq(Entries)  BY DEF TypeOK, Entries
<1>2. \A e \in 1 .. Len(delivered) : delivered[e] \in Entries  BY <1>1, ElementOfSeq
<1> QED  BY <1>1, <1>2, LenProperties DEF Entries

LEMMA MessageKept ==
  ASSUME TypeOK, MessageInv,
         \A t \in Targets : Within(inbox'[t], inbox[t]),
         Claimed' \in {Claimed, <<>>}, UNCHANGED <<delivered, list, sent>>,
         phase'.turn \in {phase.turn, phase.turn + 1},
         pc' = "opened" => phase'.turn = phase.turn + 1 \/ pc = "opened"
  PROVE  MessageInv'
<1>1. Fate(inbox', Claimed', delivered', list', sent')
  <2>1. Fate(inbox', Claimed, delivered, list, sent) /\ Fate(inbox', <<>>, delivered, list, sent)
    BY FateKept DEF MessageInv
  <2> QED  BY <2>1
<1>2. Turns'
  <2>1. phase.turn \in Int /\ \A e \in 1 .. Len(delivered) : delivered[e].turn \in Int
    <3>1. phase.turn \in Nat  BY PhaseTypes DEF TypeOK
    <3>2. \A e \in 1 .. Len(delivered) : delivered[e].turn \in Nat  BY DeliveredType
    <3> QED  BY <3>1, <3>2
  <2>2. Items(Claimed') \subseteq Items(Claimed)  BY NothingClaimed
  <2>3. ASSUME NEW e \in 1 .. Len(delivered), list[delivered[e].message] = "next-turn"
        PROVE  /\ delivered[e].turn <= phase'.turn
               /\ pc' = "opened" => delivered[e].turn < phase'.turn
               /\ \A m \in Items(Claimed') :
                    list[m] = "next-turn" => delivered[e].turn < phase'.turn
    BY <2>1, <2>2, <2>3 DEF MessageInv, Turns
  <2> QED  BY <2>3 DEF Turns
<1>3. PromptOrder'  BY DEF MessageInv, PromptOrder
<1> QED  BY <1>1, <1>2, <1>3 DEF MessageInv

\* Lists that keep what they hold, lose it, or lose one message.
LEMMA ListsKept ==
  ASSUME TypeOK
  PROVE  /\ \A t \in Targets : Within(inbox[t], inbox[t])
         /\ \A u \in Targets, t \in Targets : Within([inbox EXCEPT ![u] = <<>>][t], inbox[t])
BY NothingClaimed DEF TypeOK, Within

LEMMA SentMessage ==
  ASSUME TypeOK, MessageInv, NEW t \in Targets, NEW w \in BOOLEAN, Send(t, w)
  PROVE  MessageInv'
<1> DEFINE resolved == IF w /\ Aborted THEN "next-turn" ELSE t
<1>1. /\ sent' = sent + 1 /\ sent + 1 \in Messages /\ sent \in Nat
      /\ list' = [list EXCEPT ![sent + 1] = resolved]
      /\ inbox' = Inserted(inbox, resolved, sent + 1)
      /\ UNCHANGED <<phase, pc, batch, fresh, unlogged, delivered>>
  BY AgentLoopConstants DEF Send, TypeOK, Messages, driverVars
<1>2. resolved \in Targets  BY DEF Targets
<1> HIDE DEF resolved
<1>3. UNCHANGED Claimed  BY <1>1 DEF Claimed
<1>4. Fate(inbox', Claimed', delivered', list', sent')
  <2>1. /\ inbox \in [Targets -> Seq(Messages)] /\ list \in Lists
        /\ Claimed \in Seq(Messages) /\ delivered \in Seq(Entries)
    BY ClaimedType, DeliveredType DEF TypeOK, Lists
  <2>2. Fate(Inserted(inbox, resolved, sent + 1), Claimed, delivered,
             [list EXCEPT ![sent + 1] = resolved], sent + 1)
    BY <1>1, <1>2, <2>1, FateSent DEF MessageInv
  <2> QED  BY <1>1, <1>3, <2>2
<1>5. \A m \in Messages : m <= sent => list'[m] = list[m]
  BY <1>1, MessagesAreNumbers DEF TypeOK
<1>6. /\ \A m \in Items(Claimed) : m \in Messages /\ m <= sent
      /\ \A e \in 1 .. Len(delivered) :
           delivered[e].message \in Messages /\ delivered[e].message <= sent
  BY ClaimedType, ItemsType, DeliveredType DEF MessageInv, Fate, Told
<1>7. Turns'  BY <1>1, <1>3, <1>5, <1>6 DEF MessageInv, Turns
<1>8. PromptOrder'  BY <1>1, <1>5, <1>6 DEF MessageInv, PromptOrder
<1> QED  BY <1>4, <1>7, <1>8 DEF MessageInv

LEMMA ClaimMessages ==
  ASSUME TypeOK, MessageInv, NEW t \in Targets, t = "next-turn" => pc = "opened",
         batch' = Batch(inbox, t), inbox' = Unclaimed(inbox, t), pc' = "pre-step",
         UNCHANGED <<phase, delivered, list, sent>>
  PROVE  MessageInv'
<1>1. Claimed' = Batch(inbox, t)  BY DEF Claimed
<1>2. /\ Fate(Unclaimed(inbox, t), Batch(inbox, t), delivered, list, sent)
      /\ t = "next-step" => \A m \in Items(Batch(inbox, t)) : list[m] # "next-turn"
  <2>1. inbox \in [Targets -> Seq(Messages)]  BY DEF TypeOK
  <2>2. Fate(inbox, Claimed, delivered, list, sent)  BY DEF MessageInv
  <2> QED  BY <2>1, <2>2, FateClaimed
<1>3. Fate(inbox', Claimed', delivered', list', sent')  BY <1>1, <1>2
<1>4. Turns'
  <2>1. ASSUME NEW e \in 1 .. Len(delivered), list[delivered[e].message] = "next-turn"
        PROVE  /\ delivered[e].turn <= phase.turn
               /\ \A m \in Items(Claimed') :
                    list[m] = "next-turn" => delivered[e].turn < phase.turn
    <3>1. CASE t = "next-step"  BY <1>1, <1>2, <2>1, <3>1 DEF MessageInv, Turns
    <3>2. CASE pc = "opened"  BY <2>1, <3>2 DEF MessageInv, Turns
    <3> QED  BY <3>1, <3>2 DEF Targets
  <2> QED  BY <2>1 DEF Turns
<1>5. PromptOrder'  BY DEF MessageInv, PromptOrder
<1> QED  BY <1>3, <1>4, <1>5 DEF MessageInv

LEMMA AdmittedMessage ==
  ASSUME TypeOK, BatchInv, MessageInv, AdmitMessage
  PROVE  MessageInv'
<1> DEFINE e == Entry(Head(unlogged))
<1>0. /\ pc = "admitting" /\ pc' = "admitting" /\ unlogged # <<>>
      /\ unlogged' = Tail(unlogged) /\ delivered' = Append(delivered, e)
      /\ UNCHANGED <<phase, inbox, batch, fresh, list, sent>>
  BY DEF AdmitMessage, Admitted, OtherVars, inputVars
<1>1. ~fresh /\ unlogged \in Seq(Messages)  BY <1>0 DEF BatchInv, TypeOK
<1>2. Claimed = unlogged /\ Claimed' = Tail(unlogged)  BY <1>0, <1>1 DEF Claimed
<1>3. phase.turn \in Nat /\ delivered \in Seq(Entries)
      /\ \A i \in 1 .. Len(delivered) : delivered[i].turn \in Nat
  BY PhaseTypes, DeliveredType DEF TypeOK
<1>4. e \in Entries /\ e.message = Head(unlogged) /\ e.turn = phase.turn
  BY <1>0, <1>1, <1>3, HeadTailProperties DEF Entry, Entries
<1> HIDE DEF e
<1>5. Fate(inbox', Claimed', delivered', list', sent')
  <2>1. Fate(inbox, unlogged, delivered, list, sent)  BY <1>2 DEF MessageInv
  <2>2. Fate(inbox, Tail(unlogged), Append(delivered, e), list, sent)
    BY <1>0, <1>1, <1>3, <1>4, <2>1, FateLogged
  <2> QED  BY <1>0, <1>2, <2>2
<1>6. /\ e.message \in Items(Claimed)
      /\ Items(Claimed) = Items(Claimed') \cup {e.message} /\ e.message \notin Items(Claimed')
  BY <1>0, <1>1, <1>2, <1>4, TailWithin DEF MessageInv, Fate
<1>7. /\ Len(delivered) \in Nat /\ Len(delivered') = Len(delivered) + 1
      /\ delivered'[Len(delivered) + 1] = e
      /\ \A i \in 1 .. Len(delivered) : delivered'[i] = delivered[i]
  BY <1>0, <1>3, <1>4, LoggedEntry
<1>8. 1 .. Len(delivered') = (1 .. Len(delivered)) \cup {Len(delivered) + 1}  BY <1>7
<1>9. Turns'
  <2> SUFFICES ASSUME NEW i \in 1 .. Len(delivered'),
                      list[delivered'[i].message] = "next-turn"
               PROVE  /\ delivered'[i].turn <= phase.turn
                      /\ \A m \in Items(Claimed') :
                           list[m] = "next-turn" => delivered'[i].turn < phase.turn
    BY <1>0 DEF Turns
  <2>1. CASE i \in 1 .. Len(delivered)  BY <1>6, <1>7, <2>1 DEF MessageInv, Turns
  <2>2. CASE i = Len(delivered) + 1
    <3>1. delivered'[i] = e /\ list[e.message] = "next-turn"  BY <1>7, <2>2
    <3>2. \A m \in Items(Claimed') : list[m] # "next-turn"
      BY <1>6, <3>1 DEF MessageInv, Fate
    <3> QED  BY <1>3, <1>4, <3>1, <3>2
  <2> QED  BY <1>8, <2>1, <2>2
<1>10. PromptOrder'
  <2> SUFFICES ASSUME NEW i \in 1 .. Len(delivered'), NEW j \in 1 .. Len(delivered'), i < j,
                      list[delivered'[i].message] = "next-turn",
                      list[delivered'[j].message] = "next-turn"
               PROVE  /\ delivered'[i].message < delivered'[j].message
                      /\ delivered'[i].turn < delivered'[j].turn
    BY <1>0 DEF PromptOrder
  <2>1. i \in 1 .. Len(delivered) /\ delivered'[i] = delivered[i]  BY <1>7, <1>8
  <2>2. CASE j \in 1 .. Len(delivered)
    BY <1>7, <2>1, <2>2 DEF MessageInv, PromptOrder
  <2>3. CASE j = Len(delivered) + 1
    <3>1. delivered'[j] = e /\ list[e.message] = "next-turn"  BY <1>7, <2>3
    <3>2. delivered[i].message \in Told(delivered) /\ list[delivered[i].message] = "next-turn"
      BY <2>1 DEF Told
    <3> QED  BY <1>4, <1>6, <2>1, <3>1, <3>2 DEF MessageInv, Fate, Turns
  <2> QED  BY <1>8, <2>2, <2>3
<1> QED  BY <1>5, <1>9, <1>10 DEF MessageInv

\* Calls and jobs leave the batch alone; a driver starts where none was.
LEMMA CallMessages ==
  ASSUME TypeOK, BoundariesAgree, MessageInv,
         Call \/ CallStep \/ JobSettles \/ Waiter \/ Detach \/ Replay \/ UNCHANGED vars
  PROVE  MessageInv'
<1>0. phase.turn \in Nat  BY PhaseTypes DEF TypeOK
<1>1. CASE \E t \in Targets, w \in BOOLEAN : Send(t, w)  BY <1>1, SentMessage
<1>2. CASE ~ \E t \in Targets, w \in BOOLEAN : Send(t, w)
  <2>1. UNCHANGED <<batch, fresh, unlogged, delivered, list, sent>>
    <3>1. UNCHANGED <<list, sent>>
      BY <1>2 DEF Call, Remove, Cancel, CancelKeepInbox, RunMaintenance, WhenIdle, Dispose,
           DisposeRejected, Detach, CallStep, Wake, CancelStep, JobSettles, Waiter,
           FollowActivity, Quiesce, Replay, inputVars, vars
    <3> QED  BY <3>1, BatchCalls
  <2>2. UNCHANGED pc \/ (pc = "none" /\ pc' = "turn")  BY BatchCalls
  <2>3. UNCHANGED Claimed
    BY <2>1, <2>2 DEF Claimed
  <2>4. \A t \in Targets : Within(inbox'[t], inbox[t])
    <3>1. \/ UNCHANGED inbox
          \/ \E m : inbox' = Without(inbox, m)
          \/ \E u \in Targets : inbox' = [inbox EXCEPT ![u] = <<>>]
      BY <1>2 DEF Call, Remove, Cancel, CancelKeepInbox, RunMaintenance, WhenIdle, Dispose,
           DisposeRejected, Detach, CallStep, Wake, CancelStep, JobSettles, Waiter,
           FollowActivity, Quiesce, Replay, CancelAll, ClearTurns, ClearList, FinishCancel,
           Targets, vars
    <3> QED  BY <3>1, ListsKept, WithoutWithin DEF TypeOK
  <2>5. phase'.turn = phase.turn
    <3>1. \/ UNCHANGED phase
          \/ phase' \in {Idle(phase.turn), Active("running", phase.turn),
                         Active("maintenance", phase.turn)}
          \/ \E w : phase' = [phase EXCEPT !.wake = w]
          \/ \E c : phase' = [phase EXCEPT !.abort = c]
          \/ \E w, c : phase' = [phase EXCEPT !.wake = w, !.abort = c]
      BY <1>2 DEF Call, Remove, Cancel, CancelKeepInbox, RunMaintenance, WhenIdle, Dispose,
           DisposeRejected, Detach, CallStep, Wake, CancelStep, JobSettles, Waiter,
           FollowActivity, Quiesce, Replay, WakeDriver, StartDriver, CancelAll, ClearTurns,
           ClearList, FinishCancel, vars
    <3>2. CASE phase' \in {Idle(phase.turn), Active("running", phase.turn),
                           Active("maintenance", phase.turn)}
      BY <1>0, <3>2, ActivePhases
    <3>3. phase \in Phases  BY DEF TypeOK
    <3> QED  BY <3>1, <3>2, <3>3 DEF Phases
  <2> QED  BY <2>1, <2>2, <2>3, <2>4, <2>5, MessageKept
<1> QED  BY <1>1, <1>2

\* A step of the driver that neither claims nor logs keeps the batch or drops it.
LEMMA DriverMessages ==
  ASSUME TypeOK, BoundariesAgree, BatchInv, MessageInv, DriverStep
  PROVE  MessageInv'
<1>0. phase.turn \in Nat  BY PhaseTypes DEF TypeOK
<1>1. CASE Replay  BY <1>1, CallMessages
<1>2. CASE BeginAdmission
  <2>1. /\ UNCHANGED <<phase, inbox, batch, delivered, list, sent>>
        /\ pc = "prepared" /\ pc' = "admitting"
        /\ unlogged' = (IF fresh THEN batch ELSE <<>>) /\ fresh' = FALSE
    BY <1>2 DEF BeginAdmission, ToLog, OtherVars, inputVars
  <2>2. Claimed' \in {Claimed, <<>>}  BY <2>1 DEF Claimed, BatchInv
  <2> QED  BY <2>1, <2>2, MessageKept, ListsKept
<1>8. CASE AdmitMessage  BY <1>8, AdmittedMessage
<1>3. CASE ClaimTurn \/ ContinueTurn \/ StoppingSettles
  <2>1. UNCHANGED <<phase, fresh, unlogged, delivered, list, sent>>
    BY <1>3 DEF ClaimTurn, ContinueTurn, StoppingSettles, OtherVars, inputVars
  <2>2. CASE \E t \in Targets : /\ t = "next-turn" => pc = "opened"
                                /\ batch' = Batch(inbox, t) /\ inbox' = Unclaimed(inbox, t)
                                /\ pc' = "pre-step"
    BY <2>1, <2>2, ClaimMessages
  <2>3. CASE /\ UNCHANGED inbox /\ batch' \in {batch, <<>>} /\ pc \notin {"pre-step", "decided"}
             /\ pc' \notin {"opened", "pre-step", "decided"}
    <3>1. Claimed' \in {Claimed, <<>>}  BY <2>1, <2>3 DEF Claimed
    <3> QED  BY <2>1, <2>3, <3>1, MessageKept, ListsKept
  <2> QED  BY <1>3, <2>2, <2>3
           DEF ClaimTurn, ContinueTurn, StoppingSettles, Claim, Catch, CloseTurn, Targets
<1>4. CASE PreStepSettles \/ CatchStep \/ EndFailedTurn
  <2>1. UNCHANGED <<phase, inbox, fresh, unlogged, delivered, list, sent>>
    BY <1>4 DEF PreStepSettles, CatchStep, EndFailedTurn, OtherVars, inputVars
  <2>2. batch' \in {batch, <<>>} /\ pc' # "opened" /\ (pc' = "decided" => pc = "pre-step")
        /\ pc' # "pre-step" /\ pc # "admitting"
    BY <1>4 DEF PreStepSettles, CatchStep, EndFailedTurn, Catch, CloseTurn
  <2>3. Claimed' \in {Claimed, <<>>}  BY <2>1, <2>2 DEF Claimed, BatchInv
  <2> QED  BY <2>1, <2>2, <2>3, MessageKept, ListsKept
<1>5. CASE EnterStep
  <2>1. UNCHANGED <<inbox, unlogged, delivered, list, sent>>
    BY <1>5 DEF EnterStep, OtherVars, inputVars
  <2>2. pc = "decided" /\ pc' \notin {"opened", "pre-step", "decided"}
        /\ (batch' = <<>> \/ (batch' = batch /\ fresh'))
    BY <1>5 DEF EnterStep, Catch, CloseTurn
  <2>3. Claimed' \in {Claimed, <<>>}  BY <2>1, <2>2 DEF Claimed, BatchInv
  <2>4. phase' = phase \/ phase' = [phase EXCEPT !.step = @ + 1]  BY <1>5 DEF EnterStep
  <2>5. phase'.turn = phase.turn  BY <2>4 DEF TypeOK, Phases
  <2> QED  BY <2>1, <2>2, <2>3, <2>5, MessageKept, ListsKept
<1>6. CASE RequestSettles \/ OpenStream \/ StreamSettles \/ RequestErrorSettles
             \/ ToolsSettle \/ EndStep
  <2>1. UNCHANGED <<phase, inbox, fresh, unlogged, delivered, list, sent>>
    BY <1>6 DEF RequestSettles, OpenStream, StreamSettles, RequestErrorSettles, ToolsSettle,
                EndStep, OtherVars, inputVars
  <2>2. batch' \in {batch, <<>>} /\ pc' \notin {"opened", "pre-step", "decided"}
        /\ pc \notin {"opened", "pre-step", "decided"}
    BY <1>6 DEF RequestSettles, OpenStream, StreamSettles, RequestErrorSettles, ToolsSettle,
                EndStep, FailStep
  <2>3. Claimed' \in {Claimed, <<>>}  BY <2>1, <2>2 DEF Claimed
  <2> QED  BY <2>1, <2>2, <2>3, MessageKept, ListsKept
<1>7. CASE StartTurn \/ Drain \/ Retire
  <2>1. UNCHANGED <<inbox, batch, fresh, unlogged, delivered, list, sent>>
    BY <1>7 DEF StartTurn, Drain, Retire, OtherVars, inputVars
  <2>2. pc \notin {"pre-step", "decided"} /\ pc' \notin {"pre-step", "decided"}
    BY <1>7 DEF StartTurn, Drain, Retire
  <2>3. Claimed' \in {Claimed, <<>>}  BY <2>1, <2>2 DEF Claimed
  <2>4. \/ phase' = [phase EXCEPT !.turn = @ + 1]
        \/ /\ phase' \in {phase, Renewed(phase), Idle(phase.turn)}
           /\ pc' # "opened"
    BY <1>7 DEF StartTurn, Drain, Retire
  <2>5. \/ phase'.turn = phase.turn + 1
        \/ phase'.turn = phase.turn /\ pc' # "opened"
    <3>1. phase \in Phases  BY DEF TypeOK
    <3>2. CASE phase' = Idle(phase.turn) /\ pc' # "opened"  BY <1>0, <3>2, ActivePhases
    <3>3. CASE phase' = [phase EXCEPT !.turn = @ + 1]  BY <3>1, <3>3 DEF Phases
    <3>4. CASE phase' = Renewed(phase) /\ pc' # "opened"  BY <3>1, <3>4 DEF Phases, Renewed
    <3> QED  BY <2>4, <3>2, <3>3, <3>4
  <2> QED  BY <2>1, <2>3, <2>5, MessageKept, ListsKept
<1> QED  BY <1>1, <1>2, <1>3, <1>4, <1>5, <1>6, <1>7, <1>8 DEF DriverStep

LEMMA MessageInvariant == Spec => []MessageInv
<1>1. Init => MessageInv
  <2> SUFFICES ASSUME Init PROVE MessageInv  OBVIOUS
  <2>1. /\ \A t \in Targets : inbox[t] = <<>>
        /\ Claimed = <<>> /\ delivered = <<>> /\ Len(delivered) = 0
    BY EmptySeq DEF Init, EmptyInbox, Claimed
  <2>2. Fate(inbox, Claimed, delivered, list, sent)
    BY <2>1, NothingClaimed DEF Fate, Targets
  <2> QED  BY <2>1, <2>2 DEF MessageInv, Turns, PromptOrder
<1>2. TypeOK /\ BoundariesAgree /\ BatchInv /\ MessageInv /\ [Next]_vars => MessageInv'
  BY CallMessages, DriverMessages DEF Next
<1> QED  BY <1>1, <1>2, TypeCorrect, BoundariesCorrect, BatchInvariant, PTL DEF Spec

\* The invariant says what MessagesInOrder does of the lists put one after the other.
LEMMA MessagesFollow ==
  ASSUME TypeOK, MessageInv
  PROVE  MessagesInOrder
<1> DEFINE turns == inbox["next-turn"]
           steps == inbox["next-step"]
<1>0. /\ turns \in Seq(Messages) /\ steps \in Seq(Messages) /\ Claimed \in Seq(Messages)
      /\ delivered \in Seq(Entries)
  BY ClaimedType, DeliveredType DEF TypeOK, Targets
<1>1. Logged = Told(delivered)  BY DEF Logged, Told
<1>2. Cardinality(Logged) = Len(delivered)
  <2> DEFINE f == [i \in 1 .. Len(delivered) |-> delivered[i].message]
  <2>1. \A i, j \in 1 .. Len(delivered) : delivered[i].message = delivered[j].message => i = j
    BY DEF MessageInv, Fate
  <2>2. f \in Bijection(1 .. Len(delivered), Logged)
    BY <2>1 DEF Bijection, Injection, IsInjective, Surjection, Logged
  <2>3. ExistsBijection(1 .. Len(delivered), Logged)  BY <2>2 DEF ExistsBijection
  <2> QED  BY <2>3, DeliveredType, FS_CountingElements
<1>3. Distinct(turns) /\ Distinct(steps) /\ Distinct(Claimed)
  BY <1>0, IncreasingIsDistinct DEF MessageInv, Fate, Targets
<1>4. /\ Items(turns) \cap Items(steps) = {}
      /\ Items(turns) \cap Items(Claimed) = {} /\ Items(steps) \cap Items(Claimed) = {}
  BY DEF MessageInv, Fate, Targets
<1>5. Distinct(turns \o steps \o Claimed)
  <2> HIDE DEF turns, steps
  <2>1. /\ Distinct(turns \o steps) /\ turns \o steps \in Seq(Messages)
        /\ Items(turns \o steps) = Items(turns) \cup Items(steps)
    BY <1>0, <1>3, <1>4, ConcatItems, ConcatProperties
  <2>2. Items(turns \o steps) \cap Items(Claimed) = {}  BY <1>4, <2>1
  <2> QED  BY <1>0, <1>3, <2>1, <2>2, ConcatItems
<1>6. Logged \cap (Pending(inbox) \cup {Claimed[i] : i \in 1 .. Len(Claimed)}) = {}
  <2>1. \A m \in Pending(inbox) : \E t \in Targets : m \in Items(inbox[t])
    BY DEF Pending, Items
  <2>2. {Claimed[i] : i \in 1 .. Len(Claimed)} = Items(Claimed)  BY DEF Items
  <2> QED  BY <1>1, <2>1, <2>2 DEF MessageInv, Fate
<1> QED  BY <1>2, <1>5, <1>6 DEF MessagesInOrder, ExactlyOnce, MessageInv

(***************************************************************************)
(* No message is in two places or logged twice, and prompts are logged in  *)
(* the order they were sent, one turn each: for any number of messages,    *)
(* and whatever is removed, cancelled, rejected or retried.                *)
(***************************************************************************)
THEOREM MessagesCorrect == Spec => []MessagesInOrder
<1>1. TypeOK /\ MessageInv => MessagesInOrder  BY MessagesFollow
<1> QED  BY <1>1, TypeCorrect, MessageInvariant, PTL

-----------------------------------------------------------------------------
(***************************************************************************)
(* Where a message goes.  Between two states it leaves what the agent      *)
(* holds at the places MessagesAccounted names, and at no other.           *)
(***************************************************************************)
LEMMA HeldItems ==
  /\ Held = Pending(inbox) \cup Items(Claimed) \cup Told(delivered)
  /\ Held' = Pending(inbox') \cup Items(Claimed') \cup Told(delivered')
BY DEF Held, Logged, Items, Told

LEMMA ClaimTakes ==
  ASSUME NEW box \in [Targets -> Seq(Messages)], NEW t \in Targets
  PROVE  Pending(box) \subseteq Pending(Unclaimed(box, t)) \cup Items(Batch(box, t))
<1> DEFINE new == Unclaimed(box, t)
           turns == box["next-turn"]
           steps == box["next-step"]
<1>1. /\ turns \in Seq(Messages) /\ steps \in Seq(Messages)
      /\ Pending(box) = Items(turns) \cup Items(steps)
      /\ Items(new["next-turn"]) \subseteq Pending(new)
  BY DEF Targets, Pending, Items
<1>2. CASE t = "next-turn" /\ turns # <<>>
  <2>1. new["next-turn"] = Tail(turns) /\ Batch(box, t) = steps \o <<Head(turns)>>
    BY <1>2 DEF Batch, Unclaimed, Targets
  <2>2. Head(turns) \in Messages  BY <1>1, <1>2, HeadTailProperties
  <2>3. PICK h \in Messages : h = Head(turns)  BY <2>2
  <2>4. PICK one \in Seq(Messages) : one = <<h>>
    <3>1. <<h>> \in Seq(Messages)  OBVIOUS
    <3> QED  BY <3>1
  <2>5. Items(one) = {h}  BY <2>4 DEF Items
  <2>6. Items(turns) = Items(Tail(turns)) \cup {h}  BY <1>1, <1>2, <2>3, TailWithin
  <2>7. Items(steps \o one) = Items(steps) \cup Items(one)  BY <1>1, ConcatItems
  <2> QED  BY <1>1, <2>1, <2>3, <2>4, <2>5, <2>6, <2>7
<1>3. CASE ~(t = "next-turn" /\ turns # <<>>)
  <2>1. Batch(box, t) = steps  BY <1>1, <1>3, ConcatEmptySeq DEF Batch
  <2>2. new["next-turn"] = turns  BY <1>3 DEF Unclaimed, Targets
  <2> QED  BY <1>1, <2>1, <2>2
<1> QED  BY <1>2, <1>3

\* What is claimed is neither pending nor logged.
LEMMA ClaimedOnly ==
  ASSUME MessageInv, NEW m \in Items(Claimed)
  PROVE  m \notin Pending(inbox) /\ m \notin Logged
<1>1. \A n \in Pending(inbox) : \E t \in Targets : n \in Items(inbox[t])
  BY DEF Pending, Items
<1>2. Logged = Told(delivered)  BY DEF Logged, Told
<1> QED  BY <1>1, <1>2 DEF MessageInv, Fate

LEMMA DroppedByCalls ==
  ASSUME TypeOK, BoundariesAgree, NEW m \in Held, m \notin Held',
         Call \/ CallStep \/ JobSettles \/ Waiter \/ Detach \/ Replay
  PROVE  DroppedByCaller(m)
<1>1. UNCHANGED <<batch, fresh, unlogged, delivered>>
      /\ (UNCHANGED pc \/ (pc = "none" /\ pc' = "turn"))
  BY BatchCalls
<1>2. UNCHANGED Claimed  BY <1>1 DEF Claimed
<1>3. UNCHANGED pc \/ UNCHANGED inbox
  BY DEF Call, Send, Remove, Cancel, CancelKeepInbox, RunMaintenance, WhenIdle, Dispose,
         DisposeRejected, Detach, CallStep, Wake, CancelStep, JobSettles, Waiter,
         FollowActivity, Quiesce, Replay, driverVars
<1>4. m \in Pending(inbox) /\ m \notin Pending(inbox')  BY <1>1, <1>2, HeldItems
<1> QED  BY <1>1, <1>3, <1>4 DEF DroppedByCaller

LEMMA DroppedByTurns ==
  ASSUME TypeOK, BatchInv, MessageInv, NEW m \in Held, m \notin Held',
         StartTurn \/ ClaimTurn \/ PreStepSettles \/ EnterStep \/ ContinueTurn
           \/ StoppingSettles \/ CatchStep \/ EndFailedTurn \/ Drain \/ Retire
  PROVE  DroppedByStep(m)
<1>0. UNCHANGED <<unlogged, delivered>>
  BY DEF StartTurn, ClaimTurn, PreStepSettles, EnterStep, ContinueTurn, StoppingSettles,
         CatchStep, EndFailedTurn, Drain, Retire
<1>1. CASE StartTurn \/ Drain \/ Retire
  <2>1. UNCHANGED <<inbox, batch, fresh>> /\ pc \notin {"pre-step", "decided"}
        /\ pc' \notin {"pre-step", "decided"}
    BY <1>1 DEF StartTurn, Drain, Retire
  <2>2. UNCHANGED Claimed  BY <1>0, <2>1 DEF Claimed
  <2> QED  BY <1>0, <2>1, <2>2, HeldItems
<1>2. CASE ClaimTurn \/ ContinueTurn \/ StoppingSettles
  <2>1. pc \in {"opened", "after-step", "stopping"} /\ UNCHANGED fresh
    BY <1>2 DEF ClaimTurn, ContinueTurn, StoppingSettles
  <2>2. Items(Claimed) = {}  BY <2>1, NothingClaimed DEF BatchInv, Claimed
  <2>3. CASE \E t \in Targets : /\ batch' = Batch(inbox, t) /\ inbox' = Unclaimed(inbox, t)
                                /\ pc' = "pre-step"
    <3>1. PICK t \in Targets : /\ batch' = Batch(inbox, t) /\ inbox' = Unclaimed(inbox, t)
                               /\ pc' = "pre-step"
      BY <2>3
    <3>2. Claimed' = Batch(inbox, t)  BY <3>1 DEF Claimed
    <3>3. Pending(inbox) \subseteq Pending(inbox') \cup Items(Claimed')
      BY <3>1, <3>2, ClaimTakes DEF TypeOK
    <3> QED  BY <1>0, <2>2, <3>3, HeldItems
  <2>4. CASE UNCHANGED inbox  BY <1>0, <2>2, <2>4, HeldItems
  <2> QED  BY <1>2, <2>3, <2>4
           DEF ClaimTurn, ContinueTurn, StoppingSettles, Claim, Targets
<1>3. CASE PreStepSettles \/ EnterStep \/ CatchStep \/ EndFailedTurn
  <2>1. UNCHANGED inbox /\ pc \in {"pre-step", "decided", "caught", "reported"}
    BY <1>3 DEF PreStepSettles, EnterStep, CatchStep, EndFailedTurn
  <2>2. m \in Items(Claimed) /\ m \notin Items(Claimed')  BY <1>0, <2>1, HeldItems
  <2>3. m \notin Pending(inbox)  BY <2>2, ClaimedOnly
  <2>4. Claimed = batch /\ batch # <<>>
    BY <2>1, <2>2, NothingClaimed DEF BatchInv, Claimed
  <2>5. CASE PreStepSettles  BY <2>3, <2>5 DEF PreStepSettles, DroppedByStep
  <2>6. CASE EnterStep
    <3>1. pc = "decided" /\ decision = "enter"  BY <2>4, <2>6 DEF EnterStep, BatchInv
    <3>2. CASE Aborted  BY <2>3, <3>1, <3>2 DEF DroppedByStep
    <3>3. CASE ~Aborted
      <4>1. fresh' = TRUE /\ UNCHANGED batch  BY <2>6, <3>1, <3>3 DEF EnterStep
      <4> QED  BY <2>2, <2>4, <4>1 DEF Claimed
    <3> QED  BY <3>2, <3>3
  <2>7. CASE CatchStep
    <3>1. \A i \in 1 .. Len(batch) : batch[i] \in Items(Claimed)  BY <2>4 DEF Items
    <3>2. \A i \in 1 .. Len(batch) : batch[i] \notin Logged  BY <3>1, ClaimedOnly
    <3> QED  BY <2>3, <2>7, <3>2 DEF CatchStep, DroppedByStep
  <2>8. CASE EndFailedTurn  BY <2>4, <2>8 DEF EndFailedTurn, BatchInv
  <2> QED  BY <1>3, <2>5, <2>6, <2>7, <2>8
<1> QED  BY <1>1, <1>2, <1>3

\* A step drops nothing between its entry and its end.
LEMMA HeldInStep ==
  ASSUME TypeOK, BatchInv, MessageInv,
         RequestSettles \/ BeginAdmission \/ AdmitMessage \/ OpenStream \/ StreamSettles
           \/ RequestErrorSettles \/ ToolsSettle \/ EndStep
  PROVE  Held \subseteq Held'
<1>1. UNCHANGED inbox
  BY DEF RequestSettles, BeginAdmission, AdmitMessage, OpenStream, StreamSettles,
         RequestErrorSettles, ToolsSettle, EndStep
<1>2. CASE RequestSettles \/ OpenStream \/ StreamSettles \/ RequestErrorSettles \/ ToolsSettle
  <2>1. UNCHANGED <<batch, fresh, unlogged, delivered>> /\ pc \notin {"pre-step", "decided"}
        /\ pc' \notin {"pre-step", "decided"}
    BY <1>2 DEF RequestSettles, OpenStream, StreamSettles, RequestErrorSettles, ToolsSettle,
                FailStep
  <2>2. UNCHANGED Claimed  BY <2>1 DEF Claimed
  <2> QED  BY <1>1, <2>1, <2>2, HeldItems
<1>3. CASE BeginAdmission
  <2>1. /\ pc = "prepared" /\ pc' = "admitting" /\ fresh' = FALSE /\ UNCHANGED delivered
        /\ unlogged' = (IF fresh THEN batch ELSE <<>>)
    BY <1>3 DEF BeginAdmission, ToLog
  <2>2. UNCHANGED Claimed  BY <2>1 DEF Claimed, BatchInv
  <2> QED  BY <1>1, <2>1, <2>2, HeldItems
<1>4. CASE AdmitMessage
  <2> DEFINE e == Entry(Head(unlogged))
  <2>1. /\ pc = "admitting" /\ UNCHANGED <<pc, fresh>> /\ unlogged # <<>>
        /\ unlogged' = Tail(unlogged) /\ delivered' = Append(delivered, e)
    BY <1>4 DEF AdmitMessage, Admitted
  <2>2. ~fresh /\ unlogged \in Seq(Messages)  BY <2>1 DEF BatchInv, TypeOK
  <2>3. Claimed = unlogged /\ Claimed' = Tail(unlogged)  BY <2>1, <2>2 DEF Claimed
  <2>4. e \in Entries /\ e.message = Head(unlogged)
    BY <2>1, <2>2, PhaseTypes, HeadTailProperties DEF TypeOK, Entry, Entries
  <2> HIDE DEF e
  <2>5. Told(delivered') = Told(delivered) \cup {Head(unlogged)}
    BY <2>1, <2>4, LoggedEntry, DeliveredType
  <2>6. Items(unlogged) = Items(Tail(unlogged)) \cup {Head(unlogged)}
    BY <2>1, <2>2, TailWithin
  <2> QED  BY <1>1, <2>3, <2>5, <2>6, HeldItems
<1>5. CASE EndStep
  <2>1. UNCHANGED <<fresh, unlogged, delivered>> /\ pc = "step-end" /\ pc' = "after-step"
    BY <1>5 DEF EndStep
  <2>2. UNCHANGED Claimed  BY <2>1 DEF Claimed, BatchInv
  <2> QED  BY <1>1, <2>1, <2>2, HeldItems
<1> QED  BY <1>2, <1>3, <1>4, <1>5

\* Messages are logged by the admission of a step and nowhere else.
LEMMA AdmissionStep ==
  ASSUME TypeOK, BoundariesAgree, Next, delivered' # delivered
  PROVE  pc = "admitting"
<1>1. CASE Call \/ CallStep \/ JobSettles \/ Waiter \/ Detach \/ Replay
  BY <1>1, BatchCalls
<1>2. CASE DriverStep /\ ~Replay
  BY <1>2 DEF DriverStep, StartTurn, ClaimTurn, PreStepSettles, EnterStep, RequestSettles,
         BeginAdmission, AdmitMessage, OpenStream, StreamSettles, RequestErrorSettles,
         ToolsSettle, EndStep, ContinueTurn, StoppingSettles, CatchStep, EndFailedTurn,
         Drain, Retire
<1> QED  BY <1>1, <1>2 DEF Next

(***************************************************************************)
(* A message the agent was given leaves it by a caller's removal, by the   *)
(* decision of agent/pre-step, or by an abort or failure before the first  *)
(* of its batch is logged, and in no other way: a batch that has begun to  *)
(* be logged is logged whole, whoever cancels between two of its appends.  *)
(* For any number of messages, any batch and any depth of nested calls.    *)
(***************************************************************************)
THEOREM AdmissionCorrect == Spec => MessagesAccounted
<1>1. TypeOK /\ BoundariesAgree /\ BatchInv /\ MessageInv /\ [Next]_vars
      => [/\ \A m \in Held \ Held' : DroppedByCaller(m) \/ DroppedByStep(m)
          /\ delivered' # delivered /\ Aborted => pc = "admitting"]_vars
  <2> SUFFICES ASSUME TypeOK, BoundariesAgree, BatchInv, MessageInv, Next
               PROVE  /\ \A m \in Held \ Held' : DroppedByCaller(m) \/ DroppedByStep(m)
                      /\ delivered' # delivered /\ Aborted => pc = "admitting"
    OBVIOUS
  <2>1. ASSUME NEW m \in Held, m \notin Held'
        PROVE  DroppedByCaller(m) \/ DroppedByStep(m)
    <3>1. CASE Call \/ CallStep \/ JobSettles \/ Waiter \/ Detach \/ Replay
      BY <2>1, <3>1, DroppedByCalls
    <3>2. CASE DriverStep /\ ~Replay
      BY <2>1, <3>2, DroppedByTurns, HeldInStep DEF DriverStep
    <3> QED  BY <3>1, <3>2 DEF Next
  <2> QED  BY <2>1, AdmissionStep
<1> QED  BY <1>1, TypeCorrect, BoundariesCorrect, BatchInvariant, MessageInvariant, PTL
         DEF Spec, MessagesAccounted
=============================================================================
