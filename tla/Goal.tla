---------------------------------- MODULE Goal ----------------------------------
(***************************************************************************)
(* The goal of one session (packages/goal/goal) as operators on a record:   *)
(* what GoalService admits and commits (index.ts) and what the strict fold  *)
(* of the session's log accepts (fold.ts). The pair of goal id and revision *)
(* is one number that every change, in whatever goal, moves on.             *)
(***************************************************************************)
EXTENDS Naturals

Operations == {"create", "edit", "pause", "resume", "complete", "block", "clear"}

Goals == [phase : {"none", "active", "paused", "blocked", "complete"},
          ref : Nat, rounds : Nat, limit : Nat,
          armed : BOOLEAN,      \* process-local authority to continue
          failed : BOOLEAN]     \* the projection met an event its fold refuses

NoGoal == [phase |-> "none", ref |-> 0, rounds |-> 0, limit |-> 0,
           armed |-> FALSE, failed |-> FALSE]

\* The guards of the service; after a failure every access throws.
Admits(g, op) ==
  /\ ~g.failed
  /\ \/ op = "create" /\ g.phase \in {"none", "complete"}
     \/ op \in {"edit", "clear"} /\ g.phase # "none"
     \/ op \in {"pause", "block"} /\ g.phase = "active"
     \/ op = "complete" /\ g.phase \in {"active", "paused", "blocked"}
     \/ /\ op = "resume" /\ g.rounds < g.limit
        /\ \/ g.phase \in {"paused", "blocked"}
           \/ g.phase = "active" /\ ~g.armed

\* The snapshot an operation commits; create and edit choose a limit.
Snapshot(g, op, limit) ==
  [g EXCEPT
     !.ref = @ + 1,
     !.phase = CASE op = "clear" -> "none"
                 [] op = "pause" -> "paused"
                 [] op = "block" -> "blocked"
                 [] op = "complete" -> "complete"
                 [] op \in {"create", "resume"} -> "active"
                 [] OTHER -> @,
     !.rounds = IF op \in {"create", "clear"} THEN 0 ELSE @,
     !.limit = IF op \in {"create", "edit"} THEN limit ELSE @,
     !.armed = IF op = "edit" THEN @ ELSE op \in {"create", "resume"}]

\* What the fold requires of a change behind the state it has reached.
FoldsChange(g, op, next) ==
  /\ next.ref = g.ref + 1
  /\ IF op = "create"
     THEN g.phase \in {"none", "complete"} /\ next.phase = "active" /\ next.rounds = 0
     ELSE g.phase # "none"
  /\ op \notin {"create", "clear"} => next.rounds = g.rounds
  /\ op \notin {"create", "edit"} => next.limit = g.limit
  /\ op = "edit" => next.phase = g.phase
  /\ op \in {"pause", "block"} => g.phase = "active"
  /\ op = "resume" => g.phase \in {"active", "paused", "blocked"} /\ g.rounds < g.limit
  /\ op = "complete" => g.phase # "complete"

\* The projection keeps its last valid goal beside the failure.
Changed(g, op, limit) ==
  IF FoldsChange(g, op, Snapshot(g, op, limit)) THEN Snapshot(g, op, limit)
  ELSE [g EXCEPT !.failed = TRUE]

Disarmed(g) == [g EXCEPT !.armed = FALSE]

Continues(g) == g.phase = "active" /\ g.armed

\* A round message logged for revision `ref`.
FoldsRound(g, ref, round) ==
  g.phase = "active" /\ ref = g.ref /\ round = g.rounds + 1 /\ round <= g.limit

RoundLogged(g, ref, round) ==
  IF g.failed THEN g
  ELSE IF FoldsRound(g, ref, round) THEN [g EXCEPT !.rounds = round]
  ELSE [g EXCEPT !.failed = TRUE]
=============================================================================
