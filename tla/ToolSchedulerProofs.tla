------------------------ MODULE ToolSchedulerProofs ------------------------
(***************************************************************************)
(* Theorems about ToolScheduler, for every number of calls and every size  *)
(* of the pool.                                                            *)
(***************************************************************************)
EXTENDS ToolScheduler, FiniteSetTheorems, SequenceTheorems, TLAPS

-----------------------------------------------------------------------------
(***************************************************************************)
(* Types.  The answers of an abort and of the recovery extend the log of   *)
(* results by a sequence of results.                                       *)
(***************************************************************************)
Kinds == {"result", "skipped", "not-started", "outcome-unknown"}
Results == Seq([call : Calls, kind : Kinds])

LEMMA ConcatType ==
  ASSUME NEW s \in Results, NEW t \in Results
  PROVE  /\ s \o t \in Results
         /\ Len(s \o t) = Len(s) + Len(t)
         /\ \A i \in 1 .. Len(s) + Len(t) :
              (s \o t)[i] = IF i <= Len(s) THEN s[i] ELSE t[i - Len(s)]
  BY ConcatProperties DEF Results

LEMMA AnswersType ==
  ASSUME NEW first \in 1 .. NumCalls + 1, NEW kind \in Kinds
  PROVE  /\ Answers(first, kind) \in Results
         /\ Len(Answers(first, kind)) = NumCalls + 1 - first
  BY ToolSchedulerConstants DEF Answers, Results, Calls, Kinds

Recovered ==
  [i \in 1 .. NumCalls - committed |->
     [call |-> committed + i,
      kind |-> IF KnownToHaveStarted(committed + i) THEN "outcome-unknown"
                                                    ELSE "not-started"]]

LEMMA RecoveredType ==
  ASSUME committed \in 0 .. NumCalls
  PROVE  Recovered \in Results /\ Len(Recovered) = NumCalls - committed
  BY ToolSchedulerConstants DEF Recovered, Results, Calls, Kinds

\* TypeOK is inductive together with: a call is being prepared at "prepare".
TypeInv == TypeOK /\ (pc = "prepare" => started \in Calls)

LEMMA InitType == Init => TypeInv
<1> SUFFICES ASSUME Init PROVE TypeInv
  OBVIOUS
<1>1. results \in Results
  BY DEF Init, Results
<1>2. /\ class \in [Calls -> Modes \cup {"none"}]
      /\ body \in [Calls -> {"none", "running", "filled", "failed"}]
  BY DEF Init
<1>3. /\ pc \in Positions /\ pc # "prepare" /\ mode \in Modes /\ inFlight \subseteq Calls
      /\ last \in 0 .. NumCalls /\ next \in 0 .. NumCalls
      /\ started \in 0 .. NumCalls /\ committed \in 0 .. NumCalls
  BY ToolSchedulerConstants DEF Init, Positions, Modes
<1>4. aborted \in BOOLEAN /\ signal \in BOOLEAN /\ failure \in BOOLEAN
  BY DEF Init
<1> QED BY <1>1, <1>2, <1>3, <1>4 DEF TypeInv, TypeOK, Results, Kinds

LEMMA FillType == TypeInv /\ Fill => TypeInv'
<1> SUFFICES ASSUME TypeInv, Fill PROVE TypeInv'
  OBVIOUS
<1> USE ToolSchedulerConstants DEF TypeInv, TypeOK, Positions, Modes, Calls, group, bodies
<1>1. CASE /\ started < last /\ pc' = "prepare" /\ started' = started + 1
           /\ \E kind \in Modes : class' = [class EXCEPT ![started + 1] = kind]
           /\ UNCHANGED failure
  BY <1>1 DEF Fill
<1>2. CASE /\ pc' \in {"drain", "finish", "race"} /\ failure' \in BOOLEAN
           /\ UNCHANGED <<started, class>>
  BY <1>2 DEF Fill
<1> QED
  BY <1>1, <1>2 DEF Fill, Fail, MayStart

LEMMA PrepareType == TypeInv /\ PrepareSettles => TypeInv'
<1> SUFFICES ASSUME TypeInv, PrepareSettles PROVE TypeInv'
  OBVIOUS
<1> USE ToolSchedulerConstants DEF TypeInv, TypeOK, Positions, Modes, Calls, group, bodies
<1>1. started \in Calls
  BY DEF PrepareSettles
<1>2. /\ inFlight' \subseteq Calls
      /\ body' \in [Calls -> {"none", "running", "filled", "failed"}]
      /\ failure' \in BOOLEAN /\ pc' \in {"commit", "drain"}
  BY <1>1 DEF PrepareSettles, Fail
<1> QED BY <1>2 DEF PrepareSettles

LEMMA StepType == TypeInv /\ [Next]_vars => TypeInv'
<1> SUFFICES ASSUME TypeInv, [Next]_vars PROVE TypeInv'
  OBVIOUS
<1> USE ToolSchedulerConstants DEF TypeInv, TypeOK, Positions, Modes, Calls, group, bodies
<1>1. CASE OpenGroup
  BY <1>1 DEF OpenGroup
<1>2. CASE Fill
  BY <1>2, FillType
<1>3. CASE PrepareSettles
  BY <1>3, PrepareType
<1>4. ASSUME NEW c \in Calls, BodySettles(c) PROVE TypeInv'
  BY <1>4 DEF BodySettles
<1>5. CASE Commit
  <2>1. Due \in Calls
    BY <1>5 DEF Commit, SlotFilled
  <2>2. Append(results, [call |-> Due, kind |-> "result"]) \in Results
    BY <2>1 DEF Results, Kinds
  <2>3. committed' \in 0 .. NumCalls
    BY <1>5, <2>1 DEF Commit, Due
  <2>4. results \in Results
    BY DEF Results, Kinds
  <2>5. results' \in Results
    BY <1>5, <2>2, <2>4 DEF Commit
  <2>6. pc' \in {"commit", "drain"} /\ failure' \in BOOLEAN
    BY <1>5 DEF Commit, Fail
  <2> QED BY <1>5, <2>3, <2>5, <2>6 DEF Commit, Results, Kinds
<1>6. CASE CommitDone
  BY <1>6 DEF CommitDone, Fail
<1>7. CASE Race
  <2>1. inFlight' \subseteq Calls /\ failure' \in BOOLEAN /\ pc' \in {"commit", "drain"}
    BY <1>7 DEF Race, Fail
  <2> QED BY <1>7, <2>1 DEF Race
<1>8. CASE Finish
  <2>1. results \in Results /\ started + 1 \in 1 .. NumCalls + 1
    BY DEF Results, Kinds
  <2>2. results \o Answers(started + 1, "skipped") \in Results
    <3>1. "skipped" \in Kinds
      BY DEF Kinds
    <3> HIDE DEF Calls
    <3> QED BY <2>1, <3>1, AnswersType, ConcatType
  <2>3. results' \in Results
    BY <1>8, <2>1, <2>2 DEF Finish
  <2>4. pc' \in {"done", "group"} /\ next' \in 0 .. NumCalls
    BY <1>8 DEF Finish, Consumed
  <2> QED BY <1>8, <2>3, <2>4 DEF Finish, Results, Kinds
<1>9. CASE Drain
  BY <1>9 DEF Drain
<1>10. CASE Recover
  <2>1. results \in Results /\ Recovered \in Results
    BY RecoveredType DEF Results, Kinds
  <2>2. results' = results \o Recovered
    BY <1>10 DEF Recover, Recovered
  <2>3. results' \in Results
    BY <2>1, <2>2 DEF Results
  <2> QED BY <1>10, <2>3 DEF Recover, Results, Kinds
<1>11. CASE Abort
  BY <1>11 DEF Abort
<1>12. CASE UNCHANGED vars
  BY <1>12 DEF vars
<1> QED
  BY <1>1, <1>2, <1>3, <1>4, <1>5, <1>6, <1>7, <1>8, <1>9, <1>10, <1>11, <1>12
  DEF Next, SchedulerStep

(***************************************************************************)
(* Every reachable state of the scheduler is well typed: the counters of   *)
(* runGroup() stay within the calls of the message.                        *)
(***************************************************************************)
THEOREM TypeCorrect == Spec => []TypeOK
<1>1. Init => TypeInv
  BY InitType
<1>2. TypeInv /\ [Next]_vars => TypeInv'
  BY StepType
<1>3. TypeInv => TypeOK
  BY DEF TypeInv
<1> QED BY <1>1, <1>2, <1>3, PTL DEF Spec

-----------------------------------------------------------------------------
(***************************************************************************)
(* The control of the scheduler.  The counters bound each other, and       *)
(* between two groups nothing is started that is not committed.            *)
(***************************************************************************)
Settled == {"group", "finish"}   \* positions at which no body is in flight
Filling == {"fill", "prepare", "commit", "race"}

CountersOrdered ==
  /\ next <= started /\ committed <= started /\ started <= last
  /\ pc = "group" => started = next
  /\ pc \in Settled => committed = started
  /\ pc = "prepare" => next < started

\* The pool holds what runs, started by the present group.
PoolHolds ==
  /\ Running \subseteq inFlight
  /\ inFlight \subseteq next + 1 .. started
  /\ pc \in Settled => inFlight = {}
  /\ pc \in {"failed", "done"} => Running = {}

\* Each started call has a body, but for the one being prepared.
BodiesStarted ==
  /\ \A c \in Calls : c > started => body[c] = "none"
  /\ pc = "prepare" => body[started] = "none"
  /\ pc \in Settled \cup Filling
     => \A c \in Calls : /\ c < started => body[c] # "none"
                         /\ c = started => pc = "prepare" \/ body[c] # "none"
  /\ \A c \in Calls : body[c] = "failed" => failure

\* Filling starts with nothing to commit and with all that happened noticed.
FillNotices ==
  /\ pc \in Settled \cup {"fill"} => ~failure
  /\ pc = "fill" => ~SlotFilled /\ (signal => aborted)

Control ==
  TypeInv /\ CountersOrdered /\ PoolHolds /\ BodiesStarted /\ FillNotices

LEMMA InitControl == Init => Control
  BY InitType, ToolSchedulerConstants
  DEF Init, Control, CountersOrdered, PoolHolds, BodiesStarted, FillNotices, Running, Calls,
      Settled

\* What the cases below use: the parts of Control but for the types' detail.
LEMMA ControlTypes ==
  ASSUME Control
  PROVE  /\ last \in 0 .. NumCalls /\ next \in 0 .. NumCalls
         /\ started \in 0 .. NumCalls /\ committed \in 0 .. NumCalls
         /\ body \in [Calls -> {"none", "running", "filled", "failed"}]
         /\ inFlight \subseteq Calls /\ pc \in Positions /\ NumCalls \in Nat
  BY ToolSchedulerConstants DEF Control, TypeInv, TypeOK

LEMMA ControlStep == Control /\ [Next]_vars => Control'
<1> SUFFICES ASSUME Control, [Next]_vars
             PROVE  (CountersOrdered /\ PoolHolds /\ BodiesStarted /\ FillNotices)'
  BY StepType DEF Control
<1> USE ControlTypes DEF Calls, group, bodies, Settled, Filling
<1>c. CountersOrdered /\ PoolHolds /\ BodiesStarted /\ FillNotices
  BY DEF Control
<1>1. CASE OpenGroup
  <2>1. CountersOrdered'
    BY <1>1, <1>c DEF OpenGroup, CountersOrdered
  <2>2. PoolHolds'
    BY <1>1, <1>c DEF OpenGroup, PoolHolds, Running
  <2>3. BodiesStarted'
    BY <1>1, <1>c DEF OpenGroup, BodiesStarted
  <2>4. FillNotices'
    BY <1>1, <1>c DEF OpenGroup, CountersOrdered, BodiesStarted, FillNotices, SlotFilled, Due
  <2> QED BY <2>1, <2>2, <2>3, <2>4
<1>2. CASE Fill
  <2>1. committed < started => inFlight # {}
    BY <1>2, <1>c DEF Fill, CountersOrdered, PoolHolds, BodiesStarted, FillNotices, SlotFilled,
                      Due, Running
  <2>2. CountersOrdered'
    BY <1>2, <1>c, <2>1 DEF Fill, Fail, MayStart, CountersOrdered
  <2>3. PoolHolds'
    BY <1>2, <1>c DEF Fill, Fail, MayStart, PoolHolds, CountersOrdered, Running
  <2>4. BodiesStarted'
    BY <1>2, <1>c DEF Fill, Fail, MayStart, BodiesStarted
  <2>5. FillNotices'
    BY <1>2, <1>c DEF Fill, Fail, FillNotices
  <2> QED BY <2>2, <2>3, <2>4, <2>5
<1>3. CASE PrepareSettles
  <2>1. CountersOrdered'
    BY <1>3, <1>c DEF PrepareSettles, Fail, CountersOrdered
  <2>2. PoolHolds'
    <3>1. started \in next + 1 .. started /\ pc' \in {"commit", "drain"}
      BY <1>3, <1>c DEF PrepareSettles, Fail, CountersOrdered
    <3>2. CASE body' = [body EXCEPT ![started] = "running"] /\ inFlight' = inFlight \cup {started}
      BY <1>3, <1>c, <3>1, <3>2 DEF PrepareSettles, PoolHolds, Running
    <3>3. CASE UNCHANGED inFlight /\ (UNCHANGED body \/ body' = [body EXCEPT ![started] = "filled"])
      BY <1>3, <1>c, <3>1, <3>3 DEF PrepareSettles, PoolHolds, Running
    <3> QED BY <1>3, <3>2, <3>3 DEF PrepareSettles
  <2>3. BodiesStarted'
    <3>1. pc = "prepare" /\ pc' \in {"commit", "drain"} /\ UNCHANGED started
      BY <1>3 DEF PrepareSettles, Fail
    <3>2. CASE \E to \in {"running", "filled"} :
                 body' = [body EXCEPT ![started] = to] /\ pc' = "commit" /\ UNCHANGED failure
      BY <1>c, <3>1, <3>2 DEF BodiesStarted
    <3>3. CASE UNCHANGED body /\ Fail
      BY <1>c, <3>1, <3>3 DEF Fail, BodiesStarted
    <3> QED BY <1>3, <3>2, <3>3 DEF PrepareSettles
  <2>4. FillNotices'
    BY <1>3, <1>c DEF PrepareSettles, Fail, FillNotices
  <2> QED BY <2>1, <2>2, <2>3, <2>4
<1>4. ASSUME NEW c \in Calls, BodySettles(c)
      PROVE  (CountersOrdered /\ PoolHolds /\ BodiesStarted /\ FillNotices)'
  <2>1. pc \notin Settled \cup {"fill"}
    BY <1>4, <1>c DEF BodySettles, PoolHolds, Running
  <2>2. CountersOrdered'
    BY <1>4, <1>c DEF BodySettles, CountersOrdered
  <2>3. PoolHolds'
    BY <1>4, <1>c DEF BodySettles, PoolHolds, Running
  <2>4. BodiesStarted'
    <3>1. UNCHANGED <<pc, started>> /\ body[c] = "running"
      BY <1>4 DEF BodySettles
    <3>2. \A d \in Calls \ {c} : body'[d] = body[d]
      BY <1>4 DEF BodySettles
    <3>3. body'[c] # "none" /\ (body'[c] = "failed" => failure') /\ (failure => failure')
      BY <1>4 DEF BodySettles
    <3> QED BY <1>4, <1>c, <3>1, <3>2, <3>3 DEF BodiesStarted
  <2>5. FillNotices'
    BY <1>4, <2>1 DEF BodySettles, FillNotices
  <2> QED BY <2>2, <2>3, <2>4, <2>5
<1>5. CASE Commit
  <2>1. CountersOrdered'
    BY <1>5, <1>c DEF Commit, Fail, CountersOrdered, BodiesStarted, SlotFilled, Due
  <2>2. PoolHolds'
    BY <1>5, <1>c DEF Commit, Fail, PoolHolds, Running
  <2>3. BodiesStarted'
    BY <1>5, <1>c DEF Commit, Fail, BodiesStarted
  <2>4. FillNotices'
    BY <1>5 DEF Commit, Fail, FillNotices
  <2> QED BY <2>1, <2>2, <2>3, <2>4
<1>6. CASE CommitDone
  <2>1. CountersOrdered'
    BY <1>6, <1>c DEF CommitDone, Fail, CountersOrdered
  <2>2. PoolHolds'
    BY <1>6, <1>c DEF CommitDone, Fail, PoolHolds, Running
  <2>3. BodiesStarted'
    BY <1>6, <1>c DEF CommitDone, Fail, BodiesStarted
  <2>4. FillNotices'
    BY <1>6 DEF CommitDone, Fail, FillNotices, SlotFilled, Due
  <2> QED BY <2>1, <2>2, <2>3, <2>4
<1>7. CASE Race
  <2>1. CountersOrdered'
    BY <1>7, <1>c DEF Race, Fail, CountersOrdered
  <2>2. PoolHolds'
    BY <1>7, <1>c DEF Race, Fail, PoolHolds, Running
  <2>3. BodiesStarted'
    BY <1>7, <1>c DEF Race, Fail, BodiesStarted
  <2>4. FillNotices'
    BY <1>7 DEF Race, Fail, FillNotices
  <2> QED BY <2>1, <2>2, <2>3, <2>4
<1>8. CASE Finish
  <2>1. CountersOrdered'
    BY <1>8, <1>c DEF Finish, Consumed, CountersOrdered
  <2>2. PoolHolds'
    BY <1>8, <1>c DEF Finish, PoolHolds, Running
  <2>3. BodiesStarted'
    BY <1>8, <1>c DEF Finish, BodiesStarted
  <2>4. FillNotices'
    BY <1>8, <1>c DEF Finish, FillNotices
  <2> QED BY <2>1, <2>2, <2>3, <2>4
<1>9. CASE Drain
  BY <1>9, <1>c DEF Drain, Drained, CountersOrdered, PoolHolds, BodiesStarted, FillNotices,
                    Running
<1>10. CASE Recover
  BY <1>10, <1>c DEF Recover, CountersOrdered, PoolHolds, BodiesStarted, FillNotices, Running
<1>11. CASE Abort
  BY <1>11, <1>c DEF Abort, CountersOrdered, PoolHolds, BodiesStarted, FillNotices, Running,
                     SlotFilled, Due
<1>12. CASE UNCHANGED vars
  BY <1>12, <1>c DEF vars, CountersOrdered, PoolHolds, BodiesStarted, FillNotices, Running,
                     SlotFilled, Due
<1> QED
  BY <1>1, <1>2, <1>3, <1>4, <1>5, <1>6, <1>7, <1>8, <1>9, <1>10, <1>11, <1>12
  DEF Next, SchedulerStep

LEMMA ControlInvariant == Spec => []Control
<1>1. Init => Control
  BY InitControl
<1>2. Control /\ [Next]_vars => Control'
  BY ControlStep
<1> QED BY <1>1, <1>2, PTL DEF Spec

(***************************************************************************)
(* Whatever ends it, the execution returns to the step, which records its  *)
(* recovery results, only when no body runs.                               *)
(***************************************************************************)
THEOREM NothingOutlivesCorrect == Spec => []NothingOutlives
<1>1. Control => NothingOutlives
  BY DEF Control, PoolHolds, NothingOutlives
<1> QED BY <1>1, ControlInvariant, PTL

\* What no step does.
StartsLate ==
  \/ signal /\ started' # started
  \/ failure /\ (started' # started \/ ~(Running' \subseteq Running))

LEMMA StepStartsNothingLate == Control /\ [Next]_vars => ~StartsLate
<1> SUFFICES ASSUME Control, [Next]_vars, StartsLate PROVE FALSE
  OBVIOUS
<1> USE ControlTypes DEF Calls, group, bodies, StartsLate
<1>1. CASE Fill
  <2>1. ~failure /\ (signal => aborted)
    BY <1>1 DEF Fill, Control, FillNotices
  <2>2. aborted => started' = started
    BY <1>1 DEF Fill, MayStart
  <2> QED BY <2>1, <2>2
<1>2. CASE PrepareSettles
  BY <1>2 DEF PrepareSettles, MayDispatch, Fail, Running
<1>3. ASSUME NEW c \in Calls, BodySettles(c) PROVE FALSE
  BY <1>3 DEF BodySettles, Running
<1>4. CASE UNCHANGED <<started, body>>
  BY <1>4 DEF Running
<1>5. OpenGroup \/ Commit \/ CommitDone \/ Race \/ Finish \/ Drain \/ Recover \/ Abort
        \/ UNCHANGED vars
      => UNCHANGED <<started, body>>
  BY DEF OpenGroup, Commit, CommitDone, Race, Finish, Drain, Recover, Abort, vars
<1> QED BY <1>1, <1>2, <1>3, <1>4, <1>5 DEF Next, SchedulerStep

(***************************************************************************)
(* No step starts a call once the signal is aborted, or starts a call or a *)
(* body once the scheduler failed, wherever it was waiting.                *)
(***************************************************************************)
THEOREM NothingStartsLateCorrect == Spec => NothingStartsLate
<1>1. Control /\ [Next]_vars
      => [/\ signal => started' = started
          /\ failure => started' = started /\ Running' \subseteq Running]_vars
  BY StepStartsNothingLate DEF StartsLate
<1> QED BY <1>1, ControlInvariant, PTL DEF Spec, NothingStartsLate

-----------------------------------------------------------------------------
(***************************************************************************)
(* The log of results follows the committed calls until the scheduler is   *)
(* done, which appends the answers of all others.                          *)
(***************************************************************************)
ResultsFollow ==
  /\ \A i \in 1 .. Len(results) : results[i].call = i
  /\ pc # "done" => /\ Len(results) = committed
                    /\ \A i \in 1 .. Len(results) : results[i].kind = "result"
  /\ pc = "done" => Len(results) = NumCalls

Answering == Control /\ ResultsFollow /\ HonestResults

LEMMA InitAnswering == Init => Answering
  BY InitControl DEF Init, Answering, ResultsFollow, HonestResults

LEMMA CommitAnswers == Answering /\ Commit => (ResultsFollow /\ HonestResults)'
<1> SUFFICES ASSUME Answering, Commit PROVE (ResultsFollow /\ HonestResults)'
  OBVIOUS
<1> USE DEF Answering
<1>1. results \in Results /\ committed \in Nat /\ UNCHANGED body
  BY ControlTypes DEF Control, TypeInv, TypeOK, Results, Kinds, Commit, bodies
<1>2. CASE results' = Append(results, [call |-> Due, kind |-> "result"]) /\ pc' = pc
           /\ committed' = committed + 1
  <2>1. body[Due] = "filled" /\ Due = Len(results) + 1
    BY <1>1 DEF Commit, SlotFilled, Due, ResultsFollow
  <2>2. /\ Len(results') = Len(results) + 1
        /\ \A i \in 1 .. Len(results) : results'[i] = results[i]
        /\ results'[Len(results) + 1] = [call |-> Due, kind |-> "result"]
    BY <1>1, <1>2 DEF Results
  <2> QED BY <1>1, <1>2, <2>1, <2>2 DEF ResultsFollow, HonestResults, Commit
<1>3. CASE UNCHANGED <<results, committed>> /\ pc' = "drain"
  BY <1>1, <1>3 DEF ResultsFollow, HonestResults, Commit
<1> QED BY <1>2, <1>3 DEF Commit, Fail

\* The answers appended when the scheduler is done continue the log.
LEMMA Completes ==
  ASSUME Answering, NEW answers \in Results, pc # "done", pc' = "done",
         results' = results \o answers, UNCHANGED body,
         Len(answers) = NumCalls - committed,
         \A i \in 1 .. Len(answers) :
           /\ answers[i].call = committed + i
           /\ answers[i].kind # "result"
           /\ answers[i].kind # "outcome-unknown" => body[committed + i] = "none"
  PROVE  (ResultsFollow /\ HonestResults)'
<1>1. results \in Results /\ committed \in 0 .. NumCalls /\ NumCalls \in Nat
  BY ControlTypes DEF Answering, Control, TypeInv, TypeOK, Results, Kinds
<1>2. /\ Len(results') = NumCalls
      /\ \A i \in 1 .. NumCalls :
           results'[i] = IF i <= committed THEN results[i] ELSE answers[i - committed]
  <2>1. Len(results) = committed
    BY DEF Answering, ResultsFollow
  <2>2. /\ Len(results \o answers) = Len(results) + Len(answers)
        /\ \A i \in 1 .. Len(results) + Len(answers) :
             (results \o answers)[i] =
               IF i <= Len(results) THEN results[i] ELSE answers[i - Len(results)]
    BY <1>1, ConcatType
  <2>3. Len(results) + Len(answers) = NumCalls
    BY <1>1, <2>1
  <2> QED BY <2>1, <2>2, <2>3
<1>3. ASSUME NEW i \in 1 .. NumCalls
      PROVE  /\ results'[i].call = i
             /\ results'[i].kind \in {"skipped", "not-started"} => body[i] = "none"
             /\ results'[i].kind = "result" => body[i] = "filled"
  <2>1. CASE i <= committed
    BY <1>1, <1>2, <2>1 DEF Answering, ResultsFollow, HonestResults
  <2>2. CASE i > committed
    <3>1. i - committed \in 1 .. Len(answers) /\ committed + (i - committed) = i
      BY <1>1, <2>2
    <3>2. results'[i] = answers[i - committed]
      BY <1>1, <1>2, <2>2
    <3> QED BY <3>1, <3>2
  <2>3. i <= committed \/ i > committed
    BY <1>1
  <2> QED BY <2>1, <2>2, <2>3
<1> QED BY <1>2, <1>3 DEF ResultsFollow, HonestResults

LEMMA AnsweringStep == Answering /\ [Next]_vars => Answering'
<1> SUFFICES ASSUME Answering, [Next]_vars PROVE (ResultsFollow /\ HonestResults)'
  BY ControlStep DEF Answering
<1> USE DEF Calls, group, bodies
<1>c. Control /\ ResultsFollow /\ HonestResults
  BY DEF Answering
<1>t. /\ started \in 0 .. NumCalls /\ committed \in 0 .. NumCalls /\ NumCalls \in Nat
      /\ body \in [Calls -> {"none", "running", "filled", "failed"}]
      /\ \A i \in 1 .. Len(results) : results[i].call \in Calls
  <2>1. results \in Results
    BY <1>c DEF Control, TypeInv, TypeOK, Results, Kinds
  <2>2. \A i \in 1 .. Len(results) : results[i] \in [call : Calls, kind : Kinds]
    <3> HIDE DEF Calls
    <3> QED BY <2>1, ElementOfSeq DEF Results
  <2> QED BY <1>c, <2>2, ControlTypes
<1>1. CASE OpenGroup
  <2>1. pc' = "done" => committed = NumCalls
    BY <1>1, <1>c, <1>t DEF OpenGroup, Control, CountersOrdered, Settled
  <2> QED BY <1>1, <1>c, <2>1 DEF OpenGroup, ResultsFollow, HonestResults
<1>2. CASE Fill
  BY <1>2, <1>c DEF Fill, Fail, ResultsFollow, HonestResults
<1>3. CASE PrepareSettles
  <2>1. body[started] = "none" /\ pc' # "done" /\ UNCHANGED <<results, committed>>
    BY <1>3, <1>c DEF PrepareSettles, Fail, Control, BodiesStarted
  <2>2. \A i \in 1 .. Len(results) : results[i].kind = "result" /\ results[i].call # started
    BY <1>3, <1>c, <2>1 DEF PrepareSettles, ResultsFollow, HonestResults
  <2>3. \A i \in 1 .. Len(results) : body'[results[i].call] = body[results[i].call]
    BY <1>3, <1>t, <2>2 DEF PrepareSettles
  <2> QED BY <1>3, <1>c, <2>1, <2>2, <2>3 DEF PrepareSettles, ResultsFollow, HonestResults
<1>4. ASSUME NEW c \in Calls, BodySettles(c) PROVE (ResultsFollow /\ HonestResults)'
  <2>1. pc # "done"
    BY <1>4, <1>c DEF BodySettles, Control, PoolHolds, Running
  <2>2. \A i \in 1 .. Len(results) : results[i].kind = "result" /\ results[i].call # c
    BY <1>4, <1>c, <2>1 DEF BodySettles, ResultsFollow, HonestResults
  <2>3. \A i \in 1 .. Len(results) : body'[results[i].call] = body[results[i].call]
    BY <1>4, <1>t, <2>2 DEF BodySettles
  <2> QED BY <1>4, <1>c, <2>1, <2>2, <2>3 DEF BodySettles, ResultsFollow, HonestResults
<1>5. CASE Commit
  BY <1>5, CommitAnswers
<1>6. CASE Finish
  <2>1. CASE aborted
    <3>1. /\ committed = started
          /\ \A c \in Calls : c > started => body[c] = "none"
      BY <1>6, <1>c DEF Finish, Control, CountersOrdered, BodiesStarted, Settled
    <3>2. /\ Answers(started + 1, "skipped") \in Results
          /\ Len(Answers(started + 1, "skipped")) = NumCalls - committed
      <4>1. started + 1 \in 1 .. NumCalls + 1 /\ NumCalls + 1 - (started + 1) = NumCalls - committed
        BY <1>t, <3>1
      <4>2. "skipped" \in Kinds
        BY DEF Kinds
      <4> HIDE DEF Calls
      <4> QED BY <4>1, <4>2, AnswersType
    <3>3. \A i \in 1 .. NumCalls - committed :
            /\ Answers(started + 1, "skipped")[i].call = committed + i
            /\ Answers(started + 1, "skipped")[i].kind = "skipped"
      BY <1>t, <3>1 DEF Answers
    <3>4. \A i \in 1 .. Len(Answers(started + 1, "skipped")) :
            /\ Answers(started + 1, "skipped")[i].call = committed + i
            /\ Answers(started + 1, "skipped")[i].kind = "skipped"
            /\ body[committed + i] = "none"
      <4>1. \A i \in 1 .. NumCalls - committed :
              committed + i \in Calls /\ committed + i > started
        BY <1>t, <3>1
      <4>2. \A i \in 1 .. NumCalls - committed : body[committed + i] = "none"
        BY <3>1, <4>1
      <4> QED BY <3>2, <3>3, <4>2
    <3>5. /\ pc # "done" /\ pc' = "done" /\ UNCHANGED body
          /\ results' = results \o Answers(started + 1, "skipped")
      BY <1>6, <2>1 DEF Finish
    <3> QED BY <3>2, <3>4, <3>5, Completes
  <2>2. CASE ~aborted
    BY <1>6, <1>c, <2>2 DEF Finish, ResultsFollow, HonestResults
  <2> QED BY <2>1, <2>2
<1>7. CASE Recover
  <2>1. results' = results \o Recovered
    BY <1>7 DEF Recover, Recovered
  <2>2. Recovered \in Results /\ Len(Recovered) = NumCalls - committed
    BY <1>t, RecoveredType
  <2>3. \A i \in 1 .. NumCalls - committed :
          /\ Recovered[i].call = committed + i
          /\ Recovered[i].kind # "result"
          /\ Recovered[i].kind # "outcome-unknown" => body[committed + i] = "none"
    BY <1>c, <1>t DEF Recovered, KnownToHaveStarted, Control, BodiesStarted
  <2> QED BY <1>7, <2>1, <2>2, <2>3, Completes DEF Recover
<1>8. CASE CommitDone \/ Race \/ Drain \/ Abort
  BY <1>8, <1>c DEF CommitDone, Race, Drain, Abort, Fail, ResultsFollow, HonestResults
<1>9. CASE UNCHANGED vars
  BY <1>9, <1>c DEF vars, ResultsFollow, HonestResults
<1> QED
  BY <1>1, <1>2, <1>3, <1>4, <1>5, <1>6, <1>7, <1>8, <1>9 DEF Next, SchedulerStep

LEMMA AnsweringInvariant == Spec => []Answering
<1>1. Init => Answering
  BY InitAnswering
<1>2. Answering /\ [Next]_vars => Answering'
  BY AnsweringStep
<1> QED BY <1>1, <1>2, PTL DEF Spec

(***************************************************************************)
(* The log answers the assistant message in model order, with exactly one  *)
(* result for each call once the scheduler is done, however it ended.      *)
(***************************************************************************)
THEOREM AnswersCorrect == Spec => []AnsweredInModelOrder
<1>1. Answering => AnsweredInModelOrder
  BY DEF Answering, ResultsFollow, AnsweredInModelOrder
<1> QED BY <1>1, AnsweringInvariant, PTL

(***************************************************************************)
(* A call reported as skipped or not started never ran, a result comes     *)
(* from a body that settled with one.                                      *)
(***************************************************************************)
THEOREM HonestResultsCorrect == Spec => []HonestResults
<1>1. Answering => HonestResults
  BY DEF Answering
<1> QED BY <1>1, AnsweringInvariant, PTL

-----------------------------------------------------------------------------
(***************************************************************************)
(* The pool stays within its bound, with room for the call being prepared. *)
(***************************************************************************)
PoolBounded ==
  /\ Cardinality(inFlight) <= MaxParallel
  /\ pc = "prepare" => Cardinality(inFlight) < MaxParallel

LEMMA FiniteCalls == \A S : S \subseteq Calls => IsFiniteSet(S) /\ Cardinality(S) \in Nat
<1>1. IsFiniteSet(Calls)
  BY ToolSchedulerConstants, FS_Interval DEF Calls
<1> QED BY <1>1, FS_Subset, FS_CardinalityType

LEMMA InitPool == Init => PoolBounded
  BY FS_EmptySet, ToolSchedulerConstants DEF Init, PoolBounded

LEMMA PoolStep == Control /\ PoolBounded /\ [Next]_vars => PoolBounded'
<1> SUFFICES ASSUME Control, PoolBounded, [Next]_vars PROVE PoolBounded'
  OBVIOUS
<1> USE DEF group, bodies
<1>f. IsFiniteSet(inFlight) /\ Cardinality(inFlight) \in Nat /\ MaxParallel \in Nat
  BY FiniteCalls, ControlTypes, ToolSchedulerConstants
<1>1. CASE Fill
  BY <1>1 DEF Fill, Fail, MayStart, HasRoom, PoolBounded
<1>2. CASE PrepareSettles
  <2>1. CASE inFlight' = inFlight \cup {started}
    <3>1. Cardinality(inFlight \cup {started}) <= Cardinality(inFlight) + 1
      BY <1>f, FS_AddElement
    <3>2. Cardinality(inFlight) < MaxParallel /\ pc' # "prepare"
      BY <1>2 DEF PrepareSettles, Fail, PoolBounded
    <3>3. Cardinality(inFlight \cup {started}) \in Nat
      BY <1>f, FS_AddElement
    <3> QED BY <1>f, <2>1, <3>1, <3>2, <3>3 DEF PoolBounded
  <2>2. CASE UNCHANGED inFlight /\ pc' # "prepare"
    BY <2>2 DEF PoolBounded
  <2> QED BY <1>2, <2>1, <2>2 DEF PrepareSettles, Fail
<1>3. CASE Race
  <2>1. inFlight' \subseteq inFlight /\ pc' # "prepare"
    BY <1>3 DEF Race, Fail
  <2>2. Cardinality(inFlight') \in Nat /\ Cardinality(inFlight') <= Cardinality(inFlight)
    BY <1>f, <2>1, FS_Subset, FS_CardinalityType
  <2> QED BY <1>f, <2>1, <2>2 DEF PoolBounded
<1>4. CASE UNCHANGED inFlight /\ (pc' = "prepare" => pc = "prepare")
  BY <1>4 DEF PoolBounded
<1>5. CASE OpenGroup \/ Commit \/ CommitDone \/ Finish \/ Drain \/ Recover \/ Abort
           \/ UNCHANGED vars \/ \E c \in Calls : BodySettles(c)
  BY <1>4, <1>5 DEF OpenGroup, Commit, CommitDone, Finish, Drain, Recover, Abort, vars,
                    BodySettles, Fail
<1> QED BY <1>1, <1>2, <1>3, <1>5 DEF Next, SchedulerStep

(***************************************************************************)
(* Never more than MaxParallel bodies run at once, ordered commits that    *)
(* refill the pool included.                                               *)
(***************************************************************************)
THEOREM PoolBoundCorrect == Spec => []PoolBound
<1>1. Init => PoolBounded
  BY InitPool
<1>2. Control /\ PoolBounded /\ [Next]_vars => PoolBounded'
  BY PoolStep
<1>3. Control /\ PoolBounded => PoolBound
  <2> SUFFICES ASSUME Control, PoolBounded PROVE PoolBound
    OBVIOUS
  <2>1. Running \subseteq inFlight /\ inFlight \subseteq Calls
    BY ControlTypes DEF Control, PoolHolds
  <2>2. IsFiniteSet(inFlight) /\ Cardinality(inFlight) \in Nat /\ Cardinality(Running) \in Nat
    BY <2>1, FiniteCalls
  <2>3. Cardinality(Running) <= Cardinality(inFlight)
    BY <2>1, <2>2, FS_Subset
  <2> QED BY <2>2, <2>3, ToolSchedulerConstants DEF PoolBounded, PoolBound
<1> QED BY <1>1, <1>2, <1>3, ControlInvariant, PTL DEF Spec

-----------------------------------------------------------------------------
(***************************************************************************)
(* A group of more than one call is parallel, and so was every later call  *)
(* of it when it was started.                                              *)
(***************************************************************************)
ModesKept ==
  /\ class \in [Calls -> Modes \cup {"none"}] /\ mode \in Modes
  /\ pc # "group" /\ next < started /\ mode = "exclusive" => started = next + 1
  /\ pc \in Filling /\ mode = "exclusive" => last = next + 1
  /\ \A c \in Calls : next + 1 < c /\ c <= started => class[c] = "parallel"
  /\ next < started => class[next + 1] = mode

LEMMA InitModes == Init => ModesKept
  BY ToolSchedulerConstants DEF Init, ModesKept, Modes, Filling, Calls

LEMMA ModesStep == Control /\ ModesKept /\ [Next]_vars => ModesKept'
<1> SUFFICES ASSUME Control, ModesKept, [Next]_vars PROVE ModesKept'
  OBVIOUS
<1> USE ControlTypes DEF group, bodies, Filling
<1>1. CASE OpenGroup
  <2>1. started = next /\ UNCHANGED <<next, started, class>> /\ mode' \in Modes
    BY <1>1 DEF OpenGroup, Control, CountersOrdered, ModesKept
  <2>2. pc' \in Filling /\ mode' = "exclusive" => last' = next' + 1
    BY <1>1 DEF OpenGroup
  <2> QED BY <2>1, <2>2 DEF ModesKept
<1>2. CASE Fill
  <2>1. CASE UNCHANGED <<group, started, class>>
    BY <1>2, <2>1 DEF Fill, Fail, ModesKept
  <2>2. ASSUME NEW kind \in IF started = next THEN {mode} ELSE Modes,
               MayStart(kind), started' = started + 1, pc' = "prepare",
               class' = [class EXCEPT ![started + 1] = kind], UNCHANGED group
        PROVE  ModesKept'
    <3>1. next <= started /\ started + 1 \in Calls /\ started + 1 <= last
      BY <1>2, <2>2 DEF MayStart, Control, CountersOrdered, Calls
    <3>2. CASE started = next
      BY <1>2, <2>2, <3>1, <3>2 DEF Fill, ModesKept, Calls
    <3>3. CASE started # next
      <4>1. kind = "parallel" /\ mode # "exclusive"
        BY <1>2, <2>2, <3>1, <3>3 DEF Fill, MayStart, StaysInPool, ModesKept
      <4> QED BY <1>2, <2>2, <3>1, <3>3, <4>1 DEF ModesKept, Modes, Calls
    <3> QED BY <3>2, <3>3
  <2> QED BY <1>2, <2>1, <2>2 DEF Fill, Fail
<1>3. CASE Finish
  <2>1. next' \in {next, started} /\ UNCHANGED <<mode, last, started, class>>
        /\ pc' \in {"done", "group"} /\ (pc' = "done" => next' = next)
    BY <1>3 DEF Finish, Consumed
  <2>2. next <= started
    BY DEF Control, CountersOrdered
  <2> QED BY <1>3, <2>1, <2>2 DEF Finish, ModesKept, Calls
<1>4. CASE /\ UNCHANGED <<group, started, class>>
           /\ pc' \in Filling => pc \in Filling
           /\ pc # "group" \/ pc' = "group"
  BY <1>4 DEF ModesKept
<1>5. CASE PrepareSettles \/ Commit \/ CommitDone \/ Race \/ Drain \/ Recover \/ Abort
           \/ UNCHANGED vars \/ \E c \in Calls : BodySettles(c)
  BY <1>4, <1>5 DEF PrepareSettles, Commit, CommitDone, Race, Drain, Recover, Abort, vars,
                    BodySettles, Fail
<1> QED BY <1>1, <1>2, <1>3, <1>5 DEF Next, SchedulerStep

(***************************************************************************)
(* A body started as exclusive runs alone, whatever the modes of the calls *)
(* became while the pool was running.                                      *)
(***************************************************************************)
THEOREM ExclusiveAloneCorrect == Spec => []ExclusiveAlone
<1>1. Init => ModesKept
  BY InitModes
<1>2. Control /\ ModesKept /\ [Next]_vars => ModesKept'
  BY ModesStep
<1>3. Control /\ ModesKept => ExclusiveAlone
  <2> SUFFICES ASSUME Control, ModesKept, NEW c \in Running, NEW d \in Running, c # d
               PROVE  class[c] = "parallel"
    BY DEF ExclusiveAlone
  <2>1. /\ c \in next + 1 .. started /\ d \in next + 1 .. started /\ c \in Calls
        /\ pc # "group"
    BY DEF Control, PoolHolds, Settled, Running
  <2>2. next + 1 < started /\ mode # "exclusive"
    BY <2>1, ControlTypes DEF ModesKept
  <2> QED BY <2>1, <2>2, ControlTypes DEF ModesKept, Modes
<1> QED BY <1>1, <1>2, <1>3, ControlInvariant, PTL DEF Spec

(***************************************************************************)
(* Both bounds on the bodies that run at once hold in every reachable      *)
(* state, for any number of calls and any size of the pool.                *)
(***************************************************************************)
THEOREM PoolDisciplineCorrect == Spec => []PoolDiscipline
<1>1. PoolBound /\ ExclusiveAlone => PoolDiscipline
  BY DEF PoolDiscipline
<1> QED BY <1>1, PoolBoundCorrect, ExclusiveAloneCorrect, PTL
=============================================================================
