------------------------------- MODULE Inbox -------------------------------
(***************************************************************************)
(* The pending-message lists of one agent (packages/core/agent-loop,       *)
(* inbox.ts) as operators on their durable projection state: a function    *)
(* from the two targets to sequences of message identities.  A mutation is *)
(* normalised into a splice event, and the event applied to the state;     *)
(* InboxLog checks the two against each other, AgentLoop uses both.        *)
(***************************************************************************)
EXTENDS Integers, Sequences

Targets == {"next-turn", "next-step"}

Other(target) == IF target = "next-turn" THEN "next-step" ELSE "next-turn"

EmptyTurns == [t \in {"next-turn"} |-> <<>>]   \* mutated form
EmptyInbox == [t \in Targets |-> <<>>]

HasPending(inbox) == \E t \in Targets : inbox[t] # <<>>

Pending(inbox) == UNION {{inbox[t][i] : i \in 1 .. Len(inbox[t])} : t \in Targets}

\* Array.prototype.toSpliced on 0-based offsets already clamped by the caller.
Spliced(s, start, count, inserted) ==
  SubSeq(s, 1, start) \o inserted \o SubSeq(s, start + count + 1, Len(s))

(***************************************************************************)
(* mutate(): the start is clamped (a negative one counts from the end),    *)
(* the count to what is there.                                             *)
(***************************************************************************)
Clamp(i, lo, hi) == IF i < lo THEN lo ELSE IF i > hi THEN hi ELSE i

NormalisedOverrun(inbox, target, start, count, inserted) ==   \* mutated form
  LET n  == Len(inbox[target])
      at == Clamp(IF start < 0 THEN n + start ELSE start, 0, n)
  IN  [target   |-> target,
       start    |-> at,
       removed  |-> IF count < 0 THEN 0 ELSE count,
       inserted |-> inserted]
Normalised(inbox, target, start, count, inserted) ==
  LET n  == Len(inbox[target])
      at == Clamp(IF start < 0 THEN n + start ELSE start, 0, n)
  IN  [target   |-> target,
       start    |-> at,
       removed  |-> Clamp(count, 0, n - at),
       inserted |-> inserted]

Candidate(inbox, splice) ==
  Spliced(inbox[splice.target], splice.start, splice.removed, splice.inserted)

\* No message identity is pending twice, within one list or across both.
Distinct(s) == \A i, j \in 1 .. Len(s) : s[i] = s[j] => i = j

Disjoint(s, r) == \A i \in 1 .. Len(s), j \in 1 .. Len(r) : s[i] # r[j]

Accepts(inbox, splice) ==
  /\ Distinct(Candidate(inbox, splice))
  /\ Disjoint(Candidate(inbox, splice), inbox[Other(splice.target)])

NoEffect(splice) == splice.removed = 0 /\ splice.inserted = <<>>

(***************************************************************************)
(* The projection's apply(): a replayed event outside the list's range or  *)
(* repeating a pending identity is invalid history.                        *)
(***************************************************************************)
Replays(inbox, splice) ==
  /\ splice.start \in 0 .. Len(inbox[splice.target])
  /\ splice.removed >= 0
  /\ splice.start + splice.removed <= Len(inbox[splice.target])
  /\ Accepts(inbox, splice)

Apply(inbox, splice) == [inbox EXCEPT ![splice.target] = Candidate(inbox, splice)]

(***************************************************************************)
(* The operations the agent is built from: an insertion at the end, the    *)
(* batch claimed for one step and what it leaves, one message removed.     *)
(***************************************************************************)
Inserted(inbox, target, message) == [inbox EXCEPT ![target] = Append(@, message)]

BatchAll(inbox, target) ==   \* mutated form
  inbox["next-step"] \o IF target = "next-turn" THEN inbox["next-turn"] ELSE <<>>
Batch(inbox, target) ==
  inbox["next-step"] \o IF target = "next-turn" /\ inbox["next-turn"] # <<>>
                        THEN <<Head(inbox["next-turn"])>>
                        ELSE <<>>

Unclaimed(inbox, target) ==
  [t \in Targets |->
     IF t = "next-step" THEN <<>>
     ELSE IF target = "next-turn" /\ inbox[t] # <<>> THEN Tail(inbox[t])
     ELSE inbox[t]]

Positions(s, message) == {i \in 1 .. Len(s) : s[i] = message}

Without(inbox, message) ==
  [t \in Targets |->
     IF Positions(inbox[t], message) = {} THEN inbox[t]
     ELSE Spliced(inbox[t], (CHOOSE i \in Positions(inbox[t], message) : TRUE) - 1, 1, <<>>)]
=============================================================================
