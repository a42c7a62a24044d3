------------------------------ MODULE TurnLog ------------------------------
(***************************************************************************)
(* What every reader of a session log relies on (the turnBoundary          *)
(* projection, crash repair, fork, transcripts): turns are numbered        *)
(* consecutively and closed before the next opens, steps are numbered      *)
(* consecutively inside an open turn, model-visible messages and tool      *)
(* results appear inside an open step, and no step closes on a tool call   *)
(* that has no result.  AgentLoop implements this specification.           *)
(***************************************************************************)
EXTENDS Naturals

VARIABLES turn,        \* number of the last turn started
          step,        \* number of the last step started in it
          open,        \* what is open: "none", "turn" or "step"
          unanswered   \* the open step owes tool results

vars == <<turn, step, open, unanswered>>

Init == turn \in Nat /\ step = 0 /\ open = "none" /\ unanswered = FALSE

StartTurn == open = "none" /\ open' = "turn" /\ turn' = turn + 1 /\ step' = 0
             /\ UNCHANGED unanswered

StartStep == open = "turn" /\ open' = "step" /\ step' = step + 1
             /\ UNCHANGED <<turn, unanswered>>

Call   == open = "step" /\ unanswered' = TRUE  /\ UNCHANGED <<turn, step, open>>
Answer == open = "step" /\ unanswered' = FALSE /\ UNCHANGED <<turn, step, open>>

EndStep == open = "step" /\ ~unanswered /\ open' = "turn"
           /\ UNCHANGED <<turn, step, unanswered>>

\* A failing step records the results it owes and closes.
RecoverStep == open = "step" /\ unanswered' = FALSE /\ open' = "turn"
               /\ UNCHANGED <<turn, step>>

EndTurn == open = "turn" /\ open' = "none" /\ UNCHANGED <<turn, step, unanswered>>

Next == StartTurn \/ StartStep \/ Call \/ Answer \/ EndStep \/ RecoverStep \/ EndTurn

Spec == Init /\ [][Next]_vars
=============================================================================
