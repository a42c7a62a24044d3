------------------------------ MODULE InboxLog ------------------------------
(***************************************************************************)
(* One agent's inbox over its durable log: every structural command        *)
(* (splice with arbitrary coordinates, append, prepend, replace, remove,   *)
(* clear) and the loop's claim commit normalised splice events; a restart  *)
(* rebuilds the lists by replaying the log.                                *)
(***************************************************************************)
EXTENDS Inbox

CONSTANTS Messages,  \* message identities
          Span,      \* splice coordinates range over -Span .. Span
          MaxLog     \* bound on the number of committed splices

ASSUME InboxLogConstants == Span \in Nat /\ MaxLog \in Nat

VARIABLES inbox, log
vars == <<inbox, log>>

TypeOK ==
  /\ inbox \in [Targets -> Seq(Messages)]
  /\ \A i \in 1 .. Len(log) : log[i].target \in Targets

Init == inbox = EmptyInbox /\ log = <<>>

\* mutate(): nothing is logged without effect, a repeated identity throws.
Mutate(target, start, count, inserted) ==
  LET splice == Normalised(inbox, target, start, count, inserted)
  IN  /\ Len(log) < MaxLog
      /\ ~NoEffect(splice)
      /\ Accepts(inbox, splice)
      /\ log' = Append(log, splice)
      /\ inbox' = Apply(inbox, splice)

\* locate() searches the next-turn list first.
At(target, message) ==
  CHOOSE i \in 1 .. Len(inbox[target]) : inbox[target][i] = message

Holder(message) ==
  IF \E i \in 1 .. Len(inbox["next-turn"]) : inbox["next-turn"][i] = message
  THEN "next-turn" ELSE "next-step"

IsPending(message) ==
  \E t \in Targets : \E i \in 1 .. Len(inbox[t]) : inbox[t][i] = message

Splice == \E t \in Targets, start \in -Span .. Span, count \in -1 .. Span :
            \/ Mutate(t, start, count, <<>>)
            \/ \E m \in Messages : Mutate(t, start, count, <<m>>)

Prepend == \E t \in Targets, m \in Messages : Mutate(t, 0, 0, <<m>>)

Replace == \E old, new \in Messages :
  /\ IsPending(old)
  /\ Mutate(Holder(old), At(Holder(old), old) - 1, 1, <<new>>)

Remove == \E m \in Messages :
  /\ IsPending(m)
  /\ Mutate(Holder(m), At(Holder(m), m) - 1, 1, <<>>)

\* What a normalised splice adds to the log: nothing when it changes nothing.
Effective(splice) == IF NoEffect(splice) THEN <<>> ELSE <<splice>>

\* claim(): next-step first, then one queued prompt at a turn boundary.
ClaimSteps == Normalised(inbox, "next-step", 0, Len(inbox["next-step"]), <<>>)
ClaimTurns(target) ==
  Normalised(Apply(inbox, ClaimSteps), "next-turn", 0,
             IF target = "next-turn" THEN 1 ELSE 0, <<>>)
Claimed(target) == Apply(Apply(inbox, ClaimSteps), ClaimTurns(target))

Claim == \E target \in Targets :
  LET events == Effective(ClaimSteps) \o Effective(ClaimTurns(target))
  IN  /\ Len(log) + Len(events) <= MaxLog
      /\ log' = log \o events
      /\ inbox' = Claimed(target)

Clear ==
  LET steps == Normalised(inbox, "next-step", 0, Len(inbox["next-step"]), <<>>)
      turns == Normalised(inbox, "next-turn", 0, Len(inbox["next-turn"]), <<>>)
      events == Effective(steps) \o Effective(turns)
  IN  /\ Len(log) + Len(events) <= MaxLog
      /\ log' = log \o events
      /\ inbox' = EmptyInbox

Next == Splice \/ Prepend \/ Replace \/ Remove \/ Claim \/ Clear
Spec == Init /\ [][Next]_vars

-----------------------------------------------------------------------------
\* The state the projection reaches on the first n events of the log.
Replayed(n) ==
  LET f[i \in 0 .. n] == IF i = 0 THEN EmptyInbox ELSE Apply(f[i - 1], log[i])
  IN  f[n]

(***************************************************************************)
(* A process restarted after any committed splice rebuilds the lists: no   *)
(* event the live inbox normalised is rejected as invalid history by the   *)
(* projection (which checks ranges and identities on its own), and the     *)
(* whole log replays to the live lists.                                    *)
(***************************************************************************)
LogReplays ==
  /\ \A i \in 1 .. Len(log) : Replays(Replayed(i - 1), log[i])
  /\ Replayed(Len(log)) = inbox

\* What the log and the lists always are: well typed, and one the replay of the other.
InboxInv == TypeOK /\ LogReplays

(***************************************************************************)
(* The splices claim() logs take exactly the batch the agent works on:     *)
(* next-step input first, then at most one queued prompt, and they leave   *)
(* the lists the agent goes on with.                                       *)
(***************************************************************************)
ClaimTakesBoundaryBatch ==
  \A target \in Targets :
    /\ Claimed(target) = Unclaimed(inbox, target)
    /\ inbox["next-step"] \o SubSeq(inbox["next-turn"], 1, ClaimTurns(target).removed)
         = Batch(inbox, target)
=============================================================================
