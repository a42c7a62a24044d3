------------------------ MODULE SessionRepairProofs ------------------------
(***************************************************************************)
(* What SessionRepair promises, for logs of any length, messages of any    *)
(* number of calls and any number of turns, crashes and forks.             *)
(*                                                                         *)
(* The log is read once more, by a reader who knows the order in which the *)
(* loop writes.  Its account (Accounts) is a function of the position in   *)
(* the log; that there is one (Told) is the invariant.  It holds of every  *)
(* prefix, and closers are events that the loop may write, so a crash, a   *)
(* repair and a fork keep it.  What the account says of the events before  *)
(* (Story) is proved by induction over the log, and all properties follow. *)
(***************************************************************************)
EXTENDS SessionRepair, SequenceTheorems, WellFoundedInduction, TLAPS

-----------------------------------------------------------------------------
(***************************************************************************)
(* What a log tells, event by event, to a reader who knows the order in    *)
(* which the loop writes: the scan's turn and step, the numbers last used, *)
(* the last boundary, and of the open step its message, the calls of it, where *)
(* the results given so far lie, and the calls that have begun.            *)
(***************************************************************************)
Accounts == [turn : Nat, step : Nat, turns : Nat, steps : Nat, last : Nat, asked : Nat,
             calls : Seq(Ids), given : Seq(Nat), begun : SUBSET Ids]

Blank == [turn |-> 0, step |-> 0, turns |-> 0, steps |-> 0, last |-> 0, asked |-> 0,
          calls |-> <<>>, given |-> <<>>, begun |-> {}]

TurnStarts(s, e) == s.turn = 0 /\ e = Event("turn/start", s.turns + 1, 0)
TurnEnds(s, e) ==
  /\ s.turn # 0 /\ s.step = 0
  /\ \E cause \in {"ended", "interrupted", "forked"} : e = TurnEnd(s.turn, cause)
StepStarts(s, e) == s.turn # 0 /\ s.step = 0 /\ e = Event("step/start", s.turn, s.steps + 1)
StepEnds(s, e) ==
  s.step # 0 /\ Len(s.given) = Len(s.calls) /\ e = Event("step/end", s.turn, s.step)
Asks(s, e) ==
  /\ s.step # 0 /\ s.asked = 0
  /\ \E calls \in Seq(Ids) : Distinct(calls) /\ e = Assistant(s.turn, s.step, calls)
Begins(s, e) ==
  /\ s.step # 0
  /\ \E k \in Len(s.given) + 1 .. Len(s.calls) :
       s.calls[k] \notin s.begun /\ e = Call(s.turn, s.step, s.calls[k])
Truth(s, id) == IF id \in s.begun THEN {"answered", "outcome-unknown"} ELSE {"not-started"}
Gives(s, e) ==
  /\ s.step # 0 /\ Len(s.given) < Len(s.calls)
  /\ \E code \in Truth(s, s.calls[Len(s.given) + 1]) :
       e = Result(s.turn, s.step, s.calls[Len(s.given) + 1], code)
Seeds(s, e) == e = Event("session/end-seed", 0, 0)

Legal(s, e) ==
  \/ TurnStarts(s, e) \/ TurnEnds(s, e) \/ StepStarts(s, e) \/ StepEnds(s, e)
  \/ Asks(s, e) \/ Begins(s, e) \/ Gives(s, e) \/ Seeds(s, e)

After(s, e, n) ==
  CASE e.type = "turn/start" ->
         [s EXCEPT !.turn = e.turn, !.turns = e.turn, !.steps = 0, !.last = n]
    [] e.type = "turn/end" -> [s EXCEPT !.turn = 0, !.last = n]
    [] e.type = "step/start" -> [s EXCEPT !.step = e.step, !.steps = e.step, !.last = n]
    [] e.type = "step/end" ->
         [s EXCEPT !.step = 0, !.last = n, !.asked = 0, !.calls = <<>>,
                   !.given = <<>>, !.begun = {}]
    [] e.type = "assistant/message" -> [s EXCEPT !.asked = n, !.calls = e.calls]
    [] e.type = "tool/call" -> [s EXCEPT !.begun = @ \cup {e.id}]
    [] e.type = "tool/result" -> [s EXCEPT !.given = Append(@, n)]
    [] OTHER -> s

Traces(h, events) ==
  /\ h \in [0 .. Len(events) -> Accounts]
  /\ h[0] = Blank
  /\ \A n \in 1 .. Len(events) :
       Legal(h[n - 1], events[n]) /\ h[n] = After(h[n - 1], events[n], n)

\* The log was written in the loop's order.
Told(events) == \E h : Traces(h, events)

-----------------------------------------------------------------------------
(* What the account says of the n events it has seen. *)

Sound(s) ==
  /\ s \in Accounts
  /\ s.turn # 0 => s.turn = s.turns
  /\ s.turn = 0 => s.step = 0
  /\ s.step # 0 => s.step = s.steps
  /\ s.step = 0 => s.asked = 0
  /\ s.asked = 0 => s.calls = <<>>
  /\ Len(s.given) <= Len(s.calls)
  /\ Distinct(s.calls)
  /\ s.begun \subseteq {s.calls[k] : k \in 1 .. Len(s.calls)}

Bounded(events, n, s) ==
  \A i \in 1 .. n : /\ events[i].turn <= s.turns
                    /\ events[i].turn = s.turns => events[i].step <= s.steps

Numbered(events, n, s) ==
  /\ \/ s.turns = 0 /\ \A j \in 1 .. n : events[j].type # "turn/start"
     \/ \E i \in 1 .. n : /\ events[i].type = "turn/start" /\ events[i].turn = s.turns
                          /\ \A j \in i + 1 .. n : events[j].type # "turn/start"
  /\ LET Starts(j) == events[j].type = "step/start" /\ events[j].turn = s.turns
     IN  \/ s.steps = 0 /\ \A j \in 1 .. n : ~Starts(j)
         \/ \E i \in 1 .. n : /\ Starts(i) /\ events[i].step = s.steps
                              /\ \A j \in i + 1 .. n : ~Starts(j)

IsBoundary(events, i) == events[i].type \in Boundaries

LastBoundary(events, n, s) ==
  /\ s.last \in 0 .. n
  /\ \A i \in s.last + 1 .. n : ~IsBoundary(events, i)
  /\ s.last = 0 => s.turn = 0 /\ s.turns = 0
  /\ s.last # 0 =>
       LET e == events[s.last] IN
       \/ e.type \in {"turn/start", "step/end"} /\ s.turn # 0 /\ e.turn = s.turn /\ s.step = 0
       \/ e.type = "step/start" /\ s.step # 0 /\ e.turn = s.turn /\ e.step = s.step
       \/ e.type = "turn/end" /\ s.turn = 0 /\ e.turn = s.turns

Chained(events, n) ==
  /\ \A i \in 1 .. n :
       IsBoundary(events, i) /\ (\A j \in 1 .. i - 1 : ~IsBoundary(events, j))
         => events[i].type = "turn/start"
  /\ \A i, j \in 1 .. n :
       /\ i < j /\ IsBoundary(events, i) /\ IsBoundary(events, j)
       /\ \A k \in i + 1 .. j - 1 : ~IsBoundary(events, k)
       => Follows(events[i], events[j])

\* Where the first n events hold those of one type of the step numbered so.
Within(events, n, turn, step, type) ==
  {j \in 1 .. n : events[j].type = type /\ events[j].turn = turn /\ events[j].step = step}

Asked(events, n, s) ==
  s.step # 0 =>
    /\ Within(events, n, s.turn, s.step, "assistant/message") =
         IF s.asked = 0 THEN {} ELSE {s.asked}
    /\ s.asked # 0 => s.asked \in 1 .. n /\ events[s.asked].calls = s.calls

Given(events, n, s) ==
  /\ s.step = 0 => s.given = <<>>
  /\ s.step # 0 =>
       Within(events, n, s.turn, s.step, "tool/result") = {s.given[x] : x \in 1 .. Len(s.given)}
  /\ \A x \in 1 .. Len(s.given) : events[s.given[x]].id = s.calls[x]
  /\ \A x, y \in 1 .. Len(s.given) : x < y => s.given[x] < s.given[y]

Begun(events, n, s) ==
  s.step # 0 => \A id \in Ids : id \in s.begun <=>
                  \E i \in 1 .. n : events[i] = Call(s.turn, s.step, id)

AnsweredBy(events, n, turn, step) ==
  LET asked == Within(events, n, turn, step, "assistant/message")
      given == Within(events, n, turn, step, "tool/result")
  IN  IF asked = {} THEN given = {}
      ELSE \E m \in asked : asked = {m} /\ Matches(events, events[m].calls, given)

Settled(events, n, s) ==
  \A i \in 1 .. n : events[i].type = "step/start" =>
    \/ s.step # 0 /\ events[i].turn = s.turn /\ events[i].step = s.step
    \/ AnsweredBy(events, n, events[i].turn, events[i].step)

CallOf(e) == Call(e.turn, e.step, e.id)

Truthful(events, n) ==
  \A j \in 1 .. n :
    /\ events[j].type = "tool/call" => events[j] = CallOf(events[j])
    /\ events[j].code \in {"outcome-unknown", "not-started"} => events[j].type = "tool/result"
    /\ events[j].code = "outcome-unknown" =>
         \E i \in 1 .. j - 1 : events[i] = CallOf(events[j])
    /\ events[j].code = "not-started" => \A i \in 1 .. n : events[i] # CallOf(events[j])

Story(events, n, s) ==
  /\ Sound(s) /\ Bounded(events, n, s) /\ Numbered(events, n, s)
  /\ LastBoundary(events, n, s) /\ Chained(events, n)
  /\ Asked(events, n, s) /\ Given(events, n, s) /\ Begun(events, n, s)
  /\ Settled(events, n, s) /\ Truthful(events, n)

\* The scan of the code, recovered from the account.
PendingOf(s) ==
  [k \in 1 .. Len(s.calls) - Len(s.given) |->
     LET id == s.calls[Len(s.given) + k]
     IN  [id |-> id, turn |-> s.turn, step |-> s.step, started |-> id \in s.begun]]
ScanOf(s) == [turn |-> s.turn, step |-> s.step, pending |-> PendingOf(s)]

\* Every body that ran has its call on disk.
RanRecorded ==
  \A r \in ran : \E i \in 1 .. durable : log[i] = Call(r.turn, r.step, r.id)

IInv == TypeOK /\ Told(log) /\ RanRecorded

-----------------------------------------------------------------------------
(***************************************************************************)
(* Induction over a set of numbers, which a minimal counterexample gives.  *)
(***************************************************************************)
LEMMA WellFoundedSetInduction ==
  ASSUME NEW less, IsWellFoundedOn(less, Nat), \A m, n \in Nat : m < n => <<m, n>> \in less,
         NEW S \in SUBSET Nat, 0 \in S, \A n \in S : n + 1 \in S
  PROVE  S = Nat
<1>1. SUFFICES ASSUME Nat \ S # {} PROVE FALSE  OBVIOUS
<1>2. PICK C : C = Nat \ S  OBVIOUS
<1>3. PICK n \in C : \A m \in C : <<m, n>> \notin less
  <2>1. C \subseteq Nat /\ C # {}  BY <1>1, <1>2
  <2> QED  BY ONLY <2>1, WFMin, IsWellFoundedOn(less, Nat)
<1>4. n - 1 \in Nat /\ n - 1 < n /\ (n - 1) + 1 = n  BY <1>2, <1>3
<1>5. n - 1 \in S  BY <1>2, <1>3, <1>4
<1> QED  BY <1>2, <1>3, <1>4, <1>5

LEMMA SetInduction ==
  ASSUME NEW S \in SUBSET Nat, 0 \in S, \A n \in S : n + 1 \in S
  PROVE  S = Nat
<1>1. \A m, n \in Nat : m < n => <<m, n>> \in OpToRel(<, Nat)  BY DEF OpToRel
<1>2. IsWellFoundedOn(OpToRel(<, Nat), Nat)  BY NatLessThanWellFounded
<1> QED  BY <1>1, <1>2, WellFoundedSetInduction

\* Up to a bound.
LEMMA Upwards ==
  ASSUME NEW N \in Nat, NEW S, 0 \in S, \A n \in 1 .. N : n - 1 \in S => n \in S
  PROVE  \A n \in 0 .. N : n \in S
<1> DEFINE T == {n \in Nat : n <= N => n \in S}
<1>1. T = Nat
  <2>1. 0 \in T  OBVIOUS
  <2>2. ASSUME NEW n \in T PROVE n + 1 \in T
    <3>1. CASE n + 1 <= N
      <4>1. n + 1 \in 1 .. N /\ (n + 1) - 1 = n /\ n \in S  BY <3>1
      <4> QED  BY <4>1
    <3> QED  BY <3>1
  <2>3. T \in SUBSET Nat  OBVIOUS
  <2> HIDE DEF T
  <2> QED  BY <2>1, <2>2, <2>3, SetInduction
<1> QED  BY <1>1

-----------------------------------------------------------------------------
(* Events and accounts, field by field. *)

\* An event with these fields.
Reads(e, type, turn, step, id, calls, code) ==
  /\ e \in Events
  /\ e.type = type /\ e.turn = turn /\ e.step = step /\ e.id = id /\ e.calls = calls
  /\ e.code = code

LEMMA LoggedReads ==
  ASSUME NEW type \in Types, NEW turn \in Nat, NEW step \in Nat, NEW id \in Ids \cup {"none"},
         NEW calls \in Seq(Ids), NEW code \in Codes
  PROVE  Reads(Logged(type, turn, step, id, calls, code), type, turn, step, id, calls, code)
BY DEF Logged, Reads, Events

\* An account with these fields.
Becomes(r, turn, step, turns, steps, last, asked, calls, given, begun) ==
  /\ r \in Accounts
  /\ r.turn = turn /\ r.step = step /\ r.turns = turns /\ r.steps = steps /\ r.last = last
  /\ r.asked = asked /\ r.calls = calls /\ r.given = given /\ r.begun = begun

LEMMA AfterTurnStart ==
  ASSUME NEW s \in Accounts, NEW n \in Nat, NEW e, TurnStarts(s, e)
  PROVE  /\ Reads(e, "turn/start", s.turns + 1, 0, "none", <<>>, "none")
         /\ Becomes(After(s, e, n), s.turns + 1, s.step, s.turns + 1, 0, n, s.asked, s.calls,
                    s.given, s.begun)
<1>1. s.turns + 1 \in Nat /\ "turn/start" \in Types  BY DEF Accounts, Types
<1>2. Reads(Event("turn/start", s.turns + 1, 0), "turn/start", s.turns + 1, 0, "none", <<>>,
            "none")
  BY <1>1, LoggedReads, EmptySeq DEF Event, Codes
<1>3. After(s, e, n) = [s EXCEPT !.turn = e.turn, !.turns = e.turn, !.steps = 0, !.last = n]
  BY <1>2 DEF TurnStarts, Reads, After
<1>4. e.turn = s.turns + 1 /\ e = Event("turn/start", s.turns + 1, 0)
  BY <1>2 DEF TurnStarts, Reads
<1>5. Becomes([s EXCEPT !.turn = s.turns + 1, !.turns = s.turns + 1, !.steps = 0, !.last = n],
              s.turns + 1, s.step, s.turns + 1, 0, n, s.asked, s.calls, s.given, s.begun)
  BY <1>1 DEF Becomes, Accounts
<1> QED  BY <1>2, <1>3, <1>4, <1>5

LEMMA AfterTurnEnd ==
  ASSUME NEW s \in Accounts, NEW n \in Nat, NEW e, TurnEnds(s, e)
  PROVE  /\ \E cause \in {"ended", "interrupted", "forked"} :
              Reads(e, "turn/end", s.turn, 0, "none", <<>>, cause)
         /\ Becomes(After(s, e, n), 0, s.step, s.turns, s.steps, n, s.asked, s.calls,
                    s.given, s.begun)
<1>1. PICK cause \in {"ended", "interrupted", "forked"} : e = TurnEnd(s.turn, cause)
  BY DEF TurnEnds
<1>2. s.turn \in Nat /\ "turn/end" \in Types /\ cause \in Codes  BY DEF Accounts, Types, Codes
<1>3. Reads(e, "turn/end", s.turn, 0, "none", <<>>, cause)
  BY <1>1, <1>2, LoggedReads, EmptySeq DEF TurnEnd
<1>4. After(s, e, n) = [s EXCEPT !.turn = 0, !.last = n]  BY <1>3 DEF Reads, After
<1>5. Becomes([s EXCEPT !.turn = 0, !.last = n], 0, s.step, s.turns, s.steps, n, s.asked,
              s.calls, s.given, s.begun)
  BY DEF Becomes, Accounts
<1> QED  BY <1>3, <1>4, <1>5

LEMMA AfterStepStart ==
  ASSUME NEW s \in Accounts, NEW n \in Nat, NEW e, StepStarts(s, e)
  PROVE  /\ Reads(e, "step/start", s.turn, s.steps + 1, "none", <<>>, "none")
         /\ Becomes(After(s, e, n), s.turn, s.steps + 1, s.turns, s.steps + 1, n, s.asked,
                    s.calls, s.given, s.begun)
<1>1. s.turn \in Nat /\ s.steps + 1 \in Nat /\ "step/start" \in Types  BY DEF Accounts, Types
<1>2. Reads(e, "step/start", s.turn, s.steps + 1, "none", <<>>, "none")
  BY <1>1, LoggedReads, EmptySeq DEF StepStarts, Event, Codes
<1>3. After(s, e, n) = [s EXCEPT !.step = e.step, !.steps = e.step, !.last = n]
  BY <1>2 DEF Reads, After
<1> QED  BY <1>1, <1>2, <1>3 DEF Reads, Becomes, Accounts

LEMMA AfterStepEnd ==
  ASSUME NEW s \in Accounts, NEW n \in Nat, NEW e, StepEnds(s, e)
  PROVE  /\ Reads(e, "step/end", s.turn, s.step, "none", <<>>, "none")
         /\ Becomes(After(s, e, n), s.turn, 0, s.turns, s.steps, n, 0, <<>>, <<>>, {})
<1>1. s.turn \in Nat /\ s.step \in Nat /\ "step/end" \in Types  BY DEF Accounts, Types
<1>2. Reads(e, "step/end", s.turn, s.step, "none", <<>>, "none")
  BY <1>1, LoggedReads, EmptySeq DEF StepEnds, Event, Codes
<1>3. After(s, e, n) = [s EXCEPT !.step = 0, !.last = n, !.asked = 0, !.calls = <<>>,
                                 !.given = <<>>, !.begun = {}]
  BY <1>2 DEF Reads, After
<1>4. <<>> \in Seq(Ids) /\ <<>> \in Seq(Nat)  BY EmptySeq
<1>5. Becomes([s EXCEPT !.step = 0, !.last = n, !.asked = 0, !.calls = <<>>,
                        !.given = <<>>, !.begun = {}],
              s.turn, 0, s.turns, s.steps, n, 0, <<>>, <<>>, {})
  BY <1>4 DEF Becomes, Accounts
<1> QED  BY <1>2, <1>3, <1>5

LEMMA AfterMessage ==
  ASSUME NEW s \in Accounts, NEW n \in Nat, NEW e, Asks(s, e)
  PROVE  /\ Reads(e, "assistant/message", s.turn, s.step, "none", e.calls, "none")
         /\ Distinct(e.calls)
         /\ Becomes(After(s, e, n), s.turn, s.step, s.turns, s.steps, s.last, n, e.calls,
                    s.given, s.begun)
<1>1. PICK calls \in Seq(Ids) : Distinct(calls) /\ e = Assistant(s.turn, s.step, calls)
  BY DEF Asks
<1>2. s.turn \in Nat /\ s.step \in Nat /\ "assistant/message" \in Types  BY DEF Accounts, Types
<1>3. Reads(e, "assistant/message", s.turn, s.step, "none", calls, "none")
  BY <1>1, <1>2, LoggedReads DEF Assistant, Codes
<1>4. After(s, e, n) = [s EXCEPT !.asked = n, !.calls = e.calls]  BY <1>3 DEF Reads, After
<1>5. e.calls = calls  BY <1>3 DEF Reads
<1> QED  BY <1>1, <1>3, <1>4, <1>5 DEF Becomes, Accounts

LEMMA AfterCall ==
  ASSUME NEW s \in Accounts, NEW n \in Nat, NEW e, Begins(s, e)
  PROVE  /\ Reads(e, "tool/call", s.turn, s.step, e.id, <<>>, "none")
         /\ \E k \in Len(s.given) + 1 .. Len(s.calls) :
              e.id = s.calls[k] /\ s.calls[k] \notin s.begun /\ s.calls[k] \in Ids
         /\ e = Call(s.turn, s.step, e.id)
         /\ Becomes(After(s, e, n), s.turn, s.step, s.turns, s.steps, s.last, s.asked,
                    s.calls, s.given, s.begun \cup {e.id})
<1>1. PICK k \in Len(s.given) + 1 .. Len(s.calls) :
        s.calls[k] \notin s.begun /\ e = Call(s.turn, s.step, s.calls[k])
  BY DEF Begins
<1>2. s.turn \in Nat /\ s.step \in Nat /\ "tool/call" \in Types  BY DEF Accounts, Types
<1>3. s.calls \in Seq(Ids) /\ s.given \in Seq(Nat) /\ s.begun \subseteq Ids  BY DEF Accounts
<1>4. k \in 1 .. Len(s.calls) /\ s.calls[k] \in Ids
  BY <1>1, <1>3, LenProperties, ElementOfSeq
<1>5. Reads(e, "tool/call", s.turn, s.step, s.calls[k], <<>>, "none")
  BY <1>1, <1>2, <1>4, LoggedReads, EmptySeq DEF Call, Codes
<1>6. After(s, e, n) = [s EXCEPT !.begun = @ \cup {e.id}]  BY <1>5 DEF Reads, After
<1>7. e.id = s.calls[k]  BY <1>5 DEF Reads
<1>8. Becomes([s EXCEPT !.begun = @ \cup {e.id}], s.turn, s.step, s.turns, s.steps, s.last,
              s.asked, s.calls, s.given, s.begun \cup {e.id})
  BY <1>3, <1>4, <1>7 DEF Becomes, Accounts
<1> QED  BY <1>1, <1>4, <1>5, <1>6, <1>7, <1>8

LEMMA AfterResult ==
  ASSUME NEW s \in Accounts, NEW n \in Nat, NEW e, Gives(s, e)
  PROVE  /\ Reads(e, "tool/result", s.turn, s.step, s.calls[Len(s.given) + 1], <<>>, e.code)
         /\ Len(s.given) + 1 \in 1 .. Len(s.calls)
         /\ e.code \in Truth(s, e.id)
         /\ Becomes(After(s, e, n), s.turn, s.step, s.turns, s.steps, s.last, s.asked,
                    s.calls, Append(s.given, n), s.begun)
<1>1. PICK code \in Truth(s, s.calls[Len(s.given) + 1]) :
        e = Result(s.turn, s.step, s.calls[Len(s.given) + 1], code)
  BY DEF Gives
<1>2. s.turn \in Nat /\ s.step \in Nat /\ "tool/result" \in Types  BY DEF Accounts, Types
<1>3. s.calls \in Seq(Ids) /\ s.given \in Seq(Nat)  BY DEF Accounts
<1>4. Len(s.given) + 1 \in 1 .. Len(s.calls) /\ s.calls[Len(s.given) + 1] \in Ids
  BY <1>3, LenProperties, ElementOfSeq DEF Gives
<1>5. code \in Codes  BY <1>1 DEF Truth, Codes
<1>6. Reads(e, "tool/result", s.turn, s.step, s.calls[Len(s.given) + 1], <<>>, code)
  BY <1>1, <1>2, <1>4, <1>5, LoggedReads, EmptySeq DEF Result
<1>7. After(s, e, n) = [s EXCEPT !.given = Append(@, n)]  BY <1>6 DEF Reads, After
<1>8. e.code = code /\ e.id = s.calls[Len(s.given) + 1]  BY <1>6 DEF Reads
<1>9. Append(s.given, n) \in Seq(Nat)  BY <1>3, AppendProperties
<1> QED  BY <1>1, <1>4, <1>6, <1>7, <1>8, <1>9 DEF Becomes, Accounts

LEMMA AfterSeed ==
  ASSUME NEW s \in Accounts, NEW n \in Nat, NEW e, Seeds(s, e)
  PROVE  Reads(e, "session/end-seed", 0, 0, "none", <<>>, "none") /\ After(s, e, n) = s
<1>1. Reads(e, "session/end-seed", 0, 0, "none", <<>>, "none")
  BY LoggedReads, EmptySeq DEF Seeds, Event, Codes, Types
<1> QED  BY <1>1 DEF Reads, After

-----------------------------------------------------------------------------
(***************************************************************************)
(* The story goes on: one lemma for each of its parts, and in each one     *)
(* case for each event that the order allows.                              *)
(***************************************************************************)
NextEvent(events, n, s) ==
  /\ events \in Seq(Events) /\ n \in 1 .. Len(events)
  /\ Legal(s, events[n]) /\ Story(events, n - 1, s)

LEMMA Positions ==
  ASSUME NEW events, NEW n, NEW s, NextEvent(events, n, s)
  PROVE  /\ n \in Nat /\ n - 1 \in Nat /\ s \in Accounts
         /\ 1 .. n = (1 .. n - 1) \cup {n} /\ n \notin 1 .. n - 1
         /\ \A i \in 1 .. n : events[i] \in Events
<1>1. Len(events) \in Nat /\ n \in Nat /\ n - 1 \in Nat  BY LenProperties DEF NextEvent
<1>2. \A i \in 1 .. n : i \in 1 .. Len(events)  BY <1>1 DEF NextEvent
<1>3. \A i \in 1 .. n : events[i] \in Events  BY <1>2, ElementOfSeq DEF NextEvent
<1> QED  BY <1>1, <1>3 DEF NextEvent, Story, Sound

LEMMA Kinds ==
  ASSUME NEW s, NEW e, Legal(s, e)
  PROVE  \/ TurnStarts(s, e) \/ TurnEnds(s, e) \/ StepStarts(s, e) \/ StepEnds(s, e)
         \/ Asks(s, e) \/ Begins(s, e) \/ Gives(s, e) \/ Seeds(s, e)
BY DEF Legal

LEMMA SoundStep ==
  ASSUME NEW s, Sound(s), NEW e, Legal(s, e), NEW n \in Nat \ {0}
  PROVE  Sound(After(s, e, n))
<1>1. s \in Accounts  BY DEF Sound
<1>2. PICK r : r = After(s, e, n)  OBVIOUS
<1>3. /\ s.turn \in Nat /\ s.step \in Nat /\ s.turns \in Nat /\ s.steps \in Nat
      /\ s.calls \in Seq(Ids) /\ s.given \in Seq(Nat) /\ s.asked \in Nat
  BY <1>1 DEF Accounts
<1>4. Len(s.calls) \in Nat /\ Len(s.given) \in Nat  BY <1>3, LenProperties
<1>5. CASE TurnStarts(s, e)
  <2>1. s.turn = 0  BY <1>5 DEF TurnStarts
  <2> QED  BY <2>1, <1>1, <1>2, <1>3, <1>5, AfterTurnStart DEF Becomes, Sound
<1>6. CASE TurnEnds(s, e)
  <2>1. s.step = 0  BY <1>6 DEF TurnEnds
  <2> QED  BY <2>1, <1>1, <1>2, <1>3, <1>6, AfterTurnEnd DEF Becomes, Sound
<1>7. CASE StepStarts(s, e)
  <2>1. s.turn # 0 /\ s.step = 0  BY <1>7 DEF StepStarts
  <2> QED  BY <2>1, <1>1, <1>2, <1>3, <1>7, AfterStepStart DEF Becomes, Sound
<1>8. CASE StepEnds(s, e)
  <2>1. Becomes(r, s.turn, 0, s.turns, s.steps, n, 0, <<>>, <<>>, {})
    BY <1>1, <1>2, <1>8, AfterStepEnd
  <2>2. Len(<<>>) = 0  BY EmptySeq
  <2> QED  BY <2>1, <2>2, <1>2 DEF Becomes, Sound, Distinct
<1>9. CASE Asks(s, e)
  <2>1. s.step # 0 /\ s.asked = 0  BY <1>9 DEF Asks
  <2>2. /\ Becomes(r, s.turn, s.step, s.turns, s.steps, s.last, n, e.calls, s.given, s.begun)
        /\ Distinct(e.calls)
    BY <1>1, <1>2, <1>9, AfterMessage
  <2>3. s.calls = <<>> /\ Len(s.given) <= Len(s.calls)  BY <2>1 DEF Sound
  <2>4. Len(s.given) = 0 /\ s.begun = {}
    <3>1. Len(s.calls) = 0  BY <2>3, EmptySeq
    <3> QED  BY <3>1, <2>3, <1>4 DEF Sound
  <2>5. Len(e.calls) \in Nat  BY <2>2, LenProperties DEF Becomes, Accounts
  <2> QED  BY <2>1, <2>2, <2>4, <2>5, <1>2 DEF Becomes, Sound
<1>10. CASE Begins(s, e)
  <2>1. /\ Becomes(r, s.turn, s.step, s.turns, s.steps, s.last, s.asked, s.calls, s.given,
                   s.begun \cup {e.id})
        /\ \E k \in Len(s.given) + 1 .. Len(s.calls) : e.id = s.calls[k]
    BY <1>1, <1>2, <1>10, AfterCall
  <2>2. e.id \in {s.calls[k] : k \in 1 .. Len(s.calls)}  BY <2>1, <1>4
  <2> QED  BY <2>1, <2>2, <1>2 DEF Becomes, Sound
<1>11. CASE Gives(s, e)
  <2>1. /\ Becomes(r, s.turn, s.step, s.turns, s.steps, s.last, s.asked, s.calls,
                   Append(s.given, n), s.begun)
        /\ Len(s.given) + 1 \in 1 .. Len(s.calls)
    BY <1>1, <1>2, <1>11, AfterResult
  <2>2. Len(Append(s.given, n)) = Len(s.given) + 1  BY <1>3, AppendProperties
  <2> QED  BY <2>1, <2>2, <1>2, <1>4 DEF Becomes, Sound
<1>12. CASE Seeds(s, e)  BY <1>1, <1>12, AfterSeed
<1> QED  BY <1>5, <1>6, <1>7, <1>8, <1>9, <1>10, <1>11, <1>12, Kinds

LEMMA BoundedStep ==
  ASSUME NEW events, NEW n, NEW s, NextEvent(events, n, s)
  PROVE  Bounded(events, n, After(s, events[n], n))
<1>1. PICK e : e = events[n]  OBVIOUS
<1>2. PICK r : r = After(s, e, n)  OBVIOUS
<1>3. s \in Accounts /\ n \in Nat /\ Legal(s, e)
  <2>1. Legal(s, e)  BY <1>1 DEF NextEvent
  <2> QED  BY <2>1, Positions
<1>4. /\ s.turn \in Nat /\ s.step \in Nat /\ s.turns \in Nat /\ s.steps \in Nat
      /\ s.turn # 0 => s.turn = s.turns
      /\ s.turn = 0 => s.step = 0
      /\ s.step # 0 => s.step = s.steps
  BY <1>3 DEF Accounts, NextEvent, Story, Sound
<1> SUFFICES ASSUME NEW i \in 1 .. n
             PROVE  /\ events[i].turn <= r.turns
                    /\ events[i].turn = r.turns => events[i].step <= r.steps
  BY <1>1, <1>2 DEF Bounded
<1>5. PICK f : f = events[i]  OBVIOUS
<1>6. f.turn \in Nat /\ f.step \in Nat
  <2>1. f \in Events  BY <1>5, Positions
  <2> QED  BY <2>1 DEF Events
<1>7. \/ f = e
      \/ f.turn <= s.turns /\ (f.turn = s.turns => f.step <= s.steps)
  <2>1. i \in 1 .. n - 1 \/ i = n  BY Positions
  <2> QED  BY <2>1, <1>1, <1>5 DEF NextEvent, Story, Bounded
<1>8. CASE TurnStarts(s, e)
  <2>1. r.turns = s.turns + 1 /\ r.steps = 0 /\ e.turn = s.turns + 1 /\ e.step = 0
    BY <1>2, <1>3, <1>8, AfterTurnStart DEF Becomes, Reads
  <2> QED  BY <2>1, <1>4, <1>5, <1>6, <1>7
<1>9. CASE TurnEnds(s, e)
  <2>1. r.turns = s.turns /\ r.steps = s.steps /\ e.turn = s.turn /\ e.step = 0 /\ s.turn # 0
    BY <1>2, <1>3, <1>9, AfterTurnEnd DEF Becomes, Reads, TurnEnds
  <2> QED  BY <2>1, <1>4, <1>5, <1>6, <1>7
<1>10. CASE StepStarts(s, e)
  <2>1. /\ r.turns = s.turns /\ r.steps = s.steps + 1 /\ e.turn = s.turn /\ e.step = s.steps + 1
        /\ s.turn # 0
    BY <1>2, <1>3, <1>10, AfterStepStart DEF Becomes, Reads, StepStarts
  <2> QED  BY <2>1, <1>4, <1>5, <1>6, <1>7
<1>11. CASE StepEnds(s, e) \/ Asks(s, e) \/ Begins(s, e) \/ Gives(s, e)
  <2>1. r.turns = s.turns /\ r.steps = s.steps /\ e.turn = s.turn /\ e.step = s.step
    BY <1>2, <1>3, <1>11, AfterStepEnd, AfterMessage, AfterCall, AfterResult DEF Becomes, Reads
  <2>2. s.step # 0  BY <1>11 DEF StepEnds, Asks, Begins, Gives
  <2> QED  BY <2>1, <2>2, <1>4, <1>5, <1>6, <1>7
<1>12. CASE Seeds(s, e)
  <2>1. r = s /\ e.turn = 0 /\ e.step = 0  BY <1>2, <1>3, <1>12, AfterSeed DEF Reads
  <2> QED  BY <2>1, <1>4, <1>5, <1>6, <1>7
<1> QED  BY <1>3, <1>8, <1>9, <1>10, <1>11, <1>12, Kinds

LEMMA NumberedStep ==
  ASSUME NEW events, NEW n, NEW s, NextEvent(events, n, s)
  PROVE  Numbered(events, n, After(s, events[n], n))
<1>1. PICK e : e = events[n]  OBVIOUS
<1>2. PICK r : r = After(s, e, n)  OBVIOUS
<1>3. /\ s \in Accounts /\ n \in Nat /\ n \in 1 .. n /\ Legal(s, e)
      /\ 1 .. n - 1 \subseteq 1 .. n
      /\ \A i \in 1 .. n : i \in 1 .. n - 1 \/ i = n
  <2>1. Legal(s, e)  BY <1>1 DEF NextEvent
  <2> QED  BY <2>1, Positions
<1>4. s.turns \in Nat /\ s.steps \in Nat /\ (s.turn # 0 => s.turn = s.turns)
  BY <1>3 DEF Accounts, NextEvent, Story, Sound
<1>5. Numbered(events, n - 1, s) /\ Bounded(events, n - 1, s)  BY DEF NextEvent, Story
<1>6. \A i \in 1 .. n - 1 : \A j \in i + 1 .. n : j \in i + 1 .. n - 1 \/ j = n  BY <1>3
<1>7. CASE TurnStarts(s, e)
  <2>1. /\ r.turns = s.turns + 1 /\ r.steps = 0 /\ e.turn = s.turns + 1 /\ e.type = "turn/start"
    BY <1>2, <1>3, <1>7, AfterTurnStart DEF Becomes, Reads
  <2>2. \A j \in 1 .. n - 1 : events[j].turn # r.turns
    <3>1. \A j \in 1 .. n - 1 : events[j].turn \in Nat /\ events[j].turn <= s.turns
      BY <1>3, <1>5, Positions DEF Bounded, Events
    <3> QED  BY <3>1, <2>1, <1>4
  <2>3. \A j \in 1 .. n : ~ (events[j].type = "step/start" /\ events[j].turn = r.turns)
    BY <2>1, <2>2, <1>1, <1>3
  <2>4. \A j \in n + 1 .. n : FALSE  BY <1>3
  <2>5. \E i \in 1 .. n : /\ events[i].type = "turn/start" /\ events[i].turn = r.turns
                          /\ \A j \in i + 1 .. n : events[j].type # "turn/start"
    BY <2>1, <2>4, <1>1, <1>3
  <2> QED  BY <2>1, <2>3, <2>5, <1>1, <1>2 DEF Numbered
<1>8. CASE StepStarts(s, e)
  <2>1. /\ r.turns = s.turns /\ r.steps = s.steps + 1 /\ e.turn = s.turn /\ e.step = s.steps + 1
        /\ s.turn # 0 /\ e.type = "step/start"
    BY <1>2, <1>3, <1>8, AfterStepStart DEF Becomes, Reads, StepStarts
  <2>2. \/ r.turns = 0 /\ \A j \in 1 .. n : events[j].type # "turn/start"
        \/ \E i \in 1 .. n : /\ events[i].type = "turn/start" /\ events[i].turn = r.turns
                             /\ \A j \in i + 1 .. n : events[j].type # "turn/start"
    <3>1. CASE s.turns = 0 /\ \A j \in 1 .. n - 1 : events[j].type # "turn/start"
      BY <3>1, <2>1, <1>1, <1>3
    <3>2. CASE \E i \in 1 .. n - 1 : /\ events[i].type = "turn/start" /\ events[i].turn = s.turns
                                     /\ \A j \in i + 1 .. n - 1 : events[j].type # "turn/start"
      BY <3>2, <2>1, <1>1, <1>3, <1>6
    <3> QED  BY <3>1, <3>2, <1>5 DEF Numbered
  <2>3. \A j \in n + 1 .. n : FALSE  BY <1>3
  <2>4. \E i \in 1 .. n : /\ events[i].type = "step/start" /\ events[i].turn = r.turns
                          /\ events[i].step = r.steps
                          /\ \A j \in i + 1 .. n :
                               ~ (events[j].type = "step/start" /\ events[j].turn = r.turns)
    BY <2>1, <2>3, <1>1, <1>3, <1>4
  <2> QED  BY <2>2, <2>4, <1>1, <1>2 DEF Numbered
<1>9. ASSUME e.type \notin {"turn/start", "step/start"}, r.turns = s.turns, r.steps = s.steps
      PROVE  Numbered(events, n, r)
  <2>1. \/ r.turns = 0 /\ \A j \in 1 .. n : events[j].type # "turn/start"
        \/ \E i \in 1 .. n : /\ events[i].type = "turn/start" /\ events[i].turn = r.turns
                             /\ \A j \in i + 1 .. n : events[j].type # "turn/start"
    <3>1. CASE s.turns = 0 /\ \A j \in 1 .. n - 1 : events[j].type # "turn/start"
      BY <3>1, <1>9, <1>1, <1>3
    <3>2. CASE \E i \in 1 .. n - 1 : /\ events[i].type = "turn/start" /\ events[i].turn = s.turns
                                     /\ \A j \in i + 1 .. n - 1 : events[j].type # "turn/start"
      BY <3>2, <1>9, <1>1, <1>3, <1>6
    <3> QED  BY <3>1, <3>2, <1>5 DEF Numbered
  <2> DEFINE Starts(j) == events[j].type = "step/start" /\ events[j].turn = s.turns
  <2>2. \/ s.steps = 0 /\ \A j \in 1 .. n : ~Starts(j)
        \/ \E i \in 1 .. n : /\ Starts(i) /\ events[i].step = s.steps
                             /\ \A j \in i + 1 .. n : ~Starts(j)
    <3>1. CASE s.steps = 0 /\ \A j \in 1 .. n - 1 : ~Starts(j)
      BY <3>1, <1>9, <1>1, <1>3
    <3>2. CASE \E i \in 1 .. n - 1 : /\ Starts(i) /\ events[i].step = s.steps
                                     /\ \A j \in i + 1 .. n - 1 : ~Starts(j)
      BY <3>2, <1>9, <1>1, <1>3, <1>6
    <3> QED  BY <3>1, <3>2, <1>5 DEF Numbered
  <2> QED  BY <2>1, <2>2, <1>9 DEF Numbered
<1>10. CASE TurnEnds(s, e)
  BY <1>1, <1>2, <1>3, <1>9, <1>10, AfterTurnEnd DEF Becomes, Reads
<1>11. CASE StepEnds(s, e)
  BY <1>1, <1>2, <1>3, <1>9, <1>11, AfterStepEnd DEF Becomes, Reads
<1>12. CASE Asks(s, e)
  BY <1>1, <1>2, <1>3, <1>9, <1>12, AfterMessage DEF Becomes, Reads
<1>13. CASE Begins(s, e)
  BY <1>1, <1>2, <1>3, <1>9, <1>13, AfterCall DEF Becomes, Reads
<1>14. CASE Gives(s, e)
  BY <1>1, <1>2, <1>3, <1>9, <1>14, AfterResult DEF Becomes, Reads
<1>15. CASE Seeds(s, e)
  BY <1>1, <1>2, <1>3, <1>9, <1>15, AfterSeed DEF Reads
<1> QED
  BY <1>1, <1>2, <1>3, <1>7, <1>8, <1>10, <1>11, <1>12, <1>13, <1>14, <1>15, Kinds

LEMMA Scalars ==
  ASSUME NEW events, NEW n, NEW s, NextEvent(events, n, s)
  PROVE  /\ n \in Nat \ {0} /\ s \in Accounts /\ Legal(s, events[n])
         /\ s.turn \in Nat /\ s.step \in Nat /\ s.turns \in Nat /\ s.steps \in Nat
         /\ s.last \in Nat /\ s.asked \in Nat
         /\ s.turn # 0 => s.turn = s.turns
         /\ s.turn = 0 => s.step = 0
         /\ s.step # 0 => s.step = s.steps
         /\ s.step = 0 => s.asked = 0
<1>1. n \in Nat /\ s \in Accounts  BY Positions
<1>2. n # 0  BY <1>1 DEF NextEvent
<1> QED  BY <1>1, <1>2 DEF NextEvent, Story, Sound, Accounts

\* What the account does not write keeps the boundaries.
LEMMA LastBoundaryStep ==
  ASSUME NEW events, NEW n, NEW s, NextEvent(events, n, s)
  PROVE  LastBoundary(events, n, After(s, events[n], n))
<1>1. PICK e : e = events[n]  OBVIOUS
<1>2. PICK r : r = After(s, e, n)  OBVIOUS
<1>3. n \in Nat \ {0} /\ s \in Accounts /\ Legal(s, e)  BY <1>1, Scalars
<1>4. ASSUME r.last = n, e.type \in Boundaries,
             \/ e.type \in {"turn/start", "step/end"} /\ r.turn # 0 /\ e.turn = r.turn /\ r.step = 0
             \/ e.type = "step/start" /\ r.step # 0 /\ e.turn = r.turn /\ e.step = r.step
             \/ e.type = "turn/end" /\ r.turn = 0 /\ e.turn = r.turns
      PROVE  LastBoundary(events, n, r)
  <2>1. n \in 0 .. n /\ n # 0 /\ \A i \in n + 1 .. n : FALSE  BY <1>3
  <2> QED  BY <2>1, <1>1, <1>4 DEF LastBoundary
<1>5. ASSUME r.last = s.last, r.turn = s.turn, r.step = s.step, r.turns = s.turns,
             e.type \notin Boundaries
      PROVE  LastBoundary(events, n, r)
  <2>1. LastBoundary(events, n - 1, s)  BY DEF NextEvent, Story
  <2>2. s.last \in 0 .. n  BY <2>1, <1>3 DEF LastBoundary
  <2>3. \A i \in s.last + 1 .. n : ~IsBoundary(events, i)
    <3>1. \A i \in s.last + 1 .. n : i \in s.last + 1 .. n - 1 \/ i = n  BY <2>2, <1>3
    <3> QED  BY <3>1, <2>1, <1>1, <1>5 DEF LastBoundary, IsBoundary
  <2> QED  BY <2>1, <2>2, <2>3, <1>5 DEF LastBoundary
<1>6. CASE TurnStarts(s, e)
  <2>1. /\ r.last = n /\ e.type = "turn/start" /\ r.turn = s.turns + 1 /\ e.turn = s.turns + 1
        /\ r.step = s.step /\ s.turn = 0
    BY <1>2, <1>3, <1>6, AfterTurnStart DEF Becomes, Reads, TurnStarts
  <2>2. r.turn # 0 /\ r.step = 0  BY <2>1, Scalars
  <2> QED  BY <2>1, <2>2, <1>1, <1>2, <1>4 DEF Boundaries
<1>7. CASE TurnEnds(s, e)
  <2>1. /\ r.last = n /\ e.type = "turn/end" /\ r.turn = 0 /\ e.turn = s.turn /\ r.turns = s.turns
        /\ s.turn # 0
    BY <1>2, <1>3, <1>7, AfterTurnEnd DEF Becomes, Reads, TurnEnds
  <2>2. e.turn = r.turns  BY <2>1, Scalars
  <2> QED  BY <2>1, <2>2, <1>1, <1>2, <1>4 DEF Boundaries
<1>8. CASE StepStarts(s, e)
  <2>1. /\ r.last = n /\ e.type = "step/start" /\ r.turn = s.turn /\ e.turn = s.turn
        /\ r.step = s.steps + 1 /\ e.step = s.steps + 1
    BY <1>2, <1>3, <1>8, AfterStepStart DEF Becomes, Reads
  <2>2. r.step # 0  BY <2>1, Scalars
  <2> QED  BY <2>1, <2>2, <1>1, <1>2, <1>4 DEF Boundaries
<1>9. CASE StepEnds(s, e)
  <2>1. /\ r.last = n /\ e.type = "step/end" /\ r.turn = s.turn /\ e.turn = s.turn /\ r.step = 0
        /\ s.step # 0
    BY <1>2, <1>3, <1>9, AfterStepEnd DEF Becomes, Reads, StepEnds
  <2>2. r.turn # 0  BY <2>1, Scalars
  <2> QED  BY <2>1, <2>2, <1>1, <1>2, <1>4 DEF Boundaries
<1>10. CASE Asks(s, e)
  BY <1>1, <1>2, <1>3, <1>5, <1>10, AfterMessage DEF Becomes, Reads, Boundaries
<1>11. CASE Begins(s, e)
  BY <1>1, <1>2, <1>3, <1>5, <1>11, AfterCall DEF Becomes, Reads, Boundaries
<1>12. CASE Gives(s, e)
  BY <1>1, <1>2, <1>3, <1>5, <1>12, AfterResult DEF Becomes, Reads, Boundaries
<1>13. CASE Seeds(s, e)
  BY <1>1, <1>2, <1>3, <1>5, <1>13, AfterSeed DEF Reads, Boundaries
<1> QED
  BY <1>1, <1>2, <1>3, <1>6, <1>7, <1>8, <1>9, <1>10, <1>11, <1>12, <1>13, Kinds

\* A boundary comes after the last one, which the order of the loop allows.
LEMMA BoundaryFollows ==
  ASSUME NEW events, NEW n, NEW s, NextEvent(events, n, s), IsBoundary(events, n)
  PROVE  /\ s.last = 0 => events[n].type = "turn/start"
         /\ s.last # 0 => Follows(events[s.last], events[n])
<1>1. PICK e : e = events[n]  OBVIOUS
<1>2. PICK r : r = After(s, e, n)  OBVIOUS
<1>3. n \in Nat \ {0} /\ s \in Accounts /\ Legal(s, e)  BY <1>1, Scalars
<1>4. PICK f : f = events[s.last]  OBVIOUS
<1>5. /\ s.last = 0 => s.turn = 0
      /\ s.last # 0 =>
           \/ f.type \in {"turn/start", "step/end"} /\ s.turn # 0 /\ f.turn = s.turn /\ s.step = 0
           \/ f.type = "step/start" /\ s.step # 0 /\ f.turn = s.turn /\ f.step = s.step
           \/ f.type = "turn/end" /\ s.turn = 0 /\ f.turn = s.turns
  BY <1>4 DEF NextEvent, Story, LastBoundary
<1>6. CASE TurnStarts(s, e)
  <2>1. e.type = "turn/start" /\ e.turn = s.turns + 1 /\ s.turn = 0
    BY <1>2, <1>3, <1>6, AfterTurnStart DEF Reads, TurnStarts
  <2>2. s.step = 0  BY <2>1, Scalars
  <2> QED  BY <2>1, <2>2, <1>1, <1>4, <1>5 DEF Follows
<1>7. CASE TurnEnds(s, e)
  <2>1. e.type = "turn/end" /\ e.turn = s.turn /\ s.turn # 0 /\ s.step = 0
    BY <1>2, <1>3, <1>7, AfterTurnEnd DEF Reads, TurnEnds
  <2> QED  BY <2>1, <1>1, <1>4, <1>5 DEF Follows
<1>8. CASE StepStarts(s, e)
  <2>1. e.type = "step/start" /\ e.turn = s.turn /\ s.turn # 0 /\ s.step = 0
    BY <1>2, <1>3, <1>8, AfterStepStart DEF Reads, StepStarts
  <2> QED  BY <2>1, <1>1, <1>4, <1>5 DEF Follows
<1>9. CASE StepEnds(s, e)
  <2>1. e.type = "step/end" /\ e.turn = s.turn /\ e.step = s.step /\ s.step # 0
    BY <1>2, <1>3, <1>9, AfterStepEnd DEF Reads, StepEnds
  <2>2. s.turn # 0  BY <2>1, Scalars
  <2> QED  BY <2>1, <2>2, <1>1, <1>4, <1>5 DEF Follows
<1>10. CASE Asks(s, e) \/ Begins(s, e) \/ Gives(s, e) \/ Seeds(s, e)
  <2>1. e.type \in {"assistant/message", "tool/call", "tool/result", "session/end-seed"}
    <3>1. CASE Asks(s, e)  BY <3>1, <1>3, AfterMessage DEF Reads
    <3>2. CASE Begins(s, e)  BY <3>2, <1>3, AfterCall DEF Reads
    <3>3. CASE Gives(s, e)  BY <3>3, <1>3, AfterResult DEF Reads
    <3>4. CASE Seeds(s, e)  BY <3>4, <1>3, AfterSeed DEF Reads
    <3> QED  BY <3>1, <3>2, <3>3, <3>4, <1>10
  <2> QED  BY <2>1, <1>1 DEF IsBoundary, Boundaries
<1> QED  BY <1>3, <1>6, <1>7, <1>8, <1>9, <1>10, Kinds

LEMMA ChainedStep ==
  ASSUME NEW events, NEW n, NEW s, NextEvent(events, n, s)
  PROVE  Chained(events, n)
<1>1. n \in Nat \ {0}  BY Scalars
<1>2. \A i \in 1 .. n : i \in 1 .. n - 1 \/ i = n  BY Positions
<1>3. Chained(events, n - 1)  BY DEF NextEvent, Story
<1>4. /\ s.last \in 0 .. n - 1 /\ \A i \in s.last + 1 .. n - 1 : ~IsBoundary(events, i)
      /\ s.last # 0 => IsBoundary(events, s.last)
  BY DEF NextEvent, Story, LastBoundary, IsBoundary, Boundaries
<1>5. ASSUME NEW i \in 1 .. n, IsBoundary(events, i), \A j \in 1 .. i - 1 : ~IsBoundary(events, j)
      PROVE  events[i].type = "turn/start"
  <2>1. CASE i \in 1 .. n - 1  BY <2>1, <1>3, <1>5 DEF Chained
  <2>2. CASE i = n
    <3>1. s.last = 0
      <4>1. s.last # 0 => s.last \in 1 .. i - 1  BY <2>2, <1>1, <1>4
      <4> QED  BY <4>1, <1>4, <1>5
    <3> QED  BY <3>1, <2>2, <1>5, BoundaryFollows
  <2> QED  BY <2>1, <2>2, <1>2
<1>6. ASSUME NEW i \in 1 .. n, NEW j \in 1 .. n, i < j, IsBoundary(events, i),
             IsBoundary(events, j), \A k \in i + 1 .. j - 1 : ~IsBoundary(events, k)
      PROVE  Follows(events[i], events[j])
  <2>1. i \in 1 .. n - 1  BY <1>1, <1>6
  <2>2. CASE j \in 1 .. n - 1  BY <2>1, <2>2, <1>3, <1>6 DEF Chained
  <2>3. CASE j = n
    <3>1. ~ (i \in s.last + 1 .. n - 1)  BY <1>4, <1>6
    <3>2. s.last # 0 /\ ~ (s.last \in i + 1 .. j - 1)
      <4>1. s.last # 0  BY <3>1, <2>1, <1>1, <1>4
      <4> QED  BY <4>1, <1>4, <1>6
    <3>3. i = s.last  BY <3>1, <3>2, <2>1, <2>3, <1>1, <1>4
    <3> QED  BY <3>2, <3>3, <2>3, <1>6, BoundaryFollows
  <2> QED  BY <2>2, <2>3, <1>2
<1> QED  BY <1>5, <1>6 DEF Chained

\* The events of a step are those before, and the next one if it is of the step.
LEMMA WithinStep ==
  ASSUME NEW events, NEW n, NEW s, NextEvent(events, n, s), NEW turn, NEW step, NEW type
  PROVE  LET e == events[n] IN
         Within(events, n, turn, step, type) =
           IF e.type = type /\ e.turn = turn /\ e.step = step
           THEN Within(events, n - 1, turn, step, type) \cup {n}
           ELSE Within(events, n - 1, turn, step, type)
<1>1. 1 .. n = (1 .. n - 1) \cup {n}  BY Positions
<1> QED  BY <1>1 DEF Within

\* No event is numbered like a step to come.
LEMMA NothingWithin ==
  ASSUME NEW events, NEW n, NEW s, NextEvent(events, n, s)
  PROVE  \A i \in 1 .. n - 1 : ~ (events[i].turn = s.turns /\ events[i].step = s.steps + 1)
<1>1. s.steps \in Nat  BY Scalars
<1>2. \A i \in 1 .. n - 1 : events[i].step \in Nat  BY Positions DEF Events
<1>3. \A i \in 1 .. n - 1 : events[i].turn = s.turns => events[i].step <= s.steps
  BY DEF NextEvent, Story, Bounded
<1> QED  BY <1>1, <1>2, <1>3

LEMMA AskedStep ==
  ASSUME NEW events, NEW n, NEW s, NextEvent(events, n, s)
  PROVE  Asked(events, n, After(s, events[n], n))
<1>1. PICK e : e = events[n]  OBVIOUS
<1>2. PICK r : r = After(s, e, n)  OBVIOUS
<1>3. n \in Nat \ {0} /\ s \in Accounts /\ Legal(s, e)  BY <1>1, Scalars
<1>4. Asked(events, n - 1, s)  BY DEF NextEvent, Story
<1>5. \A turn, step : e.type # "assistant/message" =>
        Within(events, n, turn, step, "assistant/message")
          = Within(events, n - 1, turn, step, "assistant/message")
  BY <1>1, WithinStep
<1>6. ASSUME r.turn = s.turn, r.step = s.step, r.asked = s.asked, r.calls = s.calls,
             e.type # "assistant/message"
      PROVE  Asked(events, n, r)
  <2>1. 1 .. n - 1 \subseteq 1 .. n  BY <1>3
  <2> QED  BY <2>1, <1>4, <1>5, <1>6 DEF Asked
<1>7. CASE TurnStarts(s, e)
  <2>1. r.step = s.step /\ s.turn = 0
    BY <1>2, <1>3, <1>7, AfterTurnStart DEF Becomes, TurnStarts
  <2>2. r.step = 0  BY <2>1, Scalars
  <2> QED  BY <2>2, <1>1, <1>2 DEF Asked
<1>8. CASE TurnEnds(s, e)
  <2>1. r.step = 0  BY <1>2, <1>3, <1>8, AfterTurnEnd DEF Becomes, TurnEnds
  <2> QED  BY <2>1, <1>1, <1>2 DEF Asked
<1>9. CASE StepStarts(s, e)
  <2>1. /\ e.type = "step/start" /\ r.turn = s.turn /\ r.step = s.steps + 1 /\ r.asked = s.asked
        /\ s.turn # 0 /\ s.step = 0
    BY <1>2, <1>3, <1>9, AfterStepStart DEF Becomes, Reads, StepStarts
  <2>2. s.turn = s.turns /\ r.asked = 0  BY <2>1, Scalars
  <2>3. Within(events, n, r.turn, r.step, "assistant/message") = {}
    <3>1. Within(events, n - 1, s.turns, s.steps + 1, "assistant/message") = {}
      BY NothingWithin DEF Within
    <3> QED  BY <3>1, <2>1, <2>2, <1>5
  <2> QED  BY <2>2, <2>3, <1>1, <1>2 DEF Asked
<1>10. CASE StepEnds(s, e)
  <2>1. r.step = 0  BY <1>2, <1>3, <1>10, AfterStepEnd DEF Becomes
  <2> QED  BY <2>1, <1>1, <1>2 DEF Asked
<1>11. CASE Asks(s, e)
  <2>1. /\ e.type = "assistant/message" /\ e.turn = s.turn /\ e.step = s.step /\ r.turn = s.turn
        /\ r.step = s.step /\ r.asked = n /\ r.calls = e.calls /\ s.step # 0 /\ s.asked = 0
    BY <1>2, <1>3, <1>11, AfterMessage DEF Becomes, Reads, Asks
  <2>2. Within(events, n - 1, s.turn, s.step, "assistant/message") = {}  BY <2>1, <1>4 DEF Asked
  <2>3. Within(events, n, r.turn, r.step, "assistant/message") = {n}
    BY <2>1, <2>2, <1>1, WithinStep
  <2>4. n # 0 /\ n \in 1 .. n  BY <1>3
  <2> QED  BY <2>1, <2>3, <2>4, <1>1, <1>2 DEF Asked
<1>12. CASE Begins(s, e)
  BY <1>1, <1>2, <1>3, <1>6, <1>12, AfterCall DEF Becomes, Reads
<1>13. CASE Gives(s, e)
  BY <1>1, <1>2, <1>3, <1>6, <1>13, AfterResult DEF Becomes, Reads
<1>14. CASE Seeds(s, e)
  BY <1>1, <1>2, <1>3, <1>6, <1>14, AfterSeed DEF Reads
<1> QED
  BY <1>3, <1>7, <1>8, <1>9, <1>10, <1>11, <1>12, <1>13, <1>14, Kinds

LEMMA GivenStep ==
  ASSUME NEW events, NEW n, NEW s, NextEvent(events, n, s)
  PROVE  Given(events, n, After(s, events[n], n))
<1>1. PICK e : e = events[n]  OBVIOUS
<1>2. PICK r : r = After(s, e, n)  OBVIOUS
<1>3. n \in Nat \ {0} /\ s \in Accounts /\ Legal(s, e)  BY <1>1, Scalars
<1>4. Given(events, n - 1, s)  BY DEF NextEvent, Story
<1>5. \A turn, step : e.type # "tool/result" =>
        Within(events, n, turn, step, "tool/result")
          = Within(events, n - 1, turn, step, "tool/result")
  BY <1>1, WithinStep
<1>6. ASSUME r.turn = s.turn, r.step = s.step, r.given = s.given, r.calls = s.calls,
             e.type # "tool/result"
      PROVE  Given(events, n, r)
  BY <1>4, <1>5, <1>6 DEF Given
<1>7. ASSUME r.step = 0, r.given = <<>>
      PROVE  Given(events, n, r)
  <2>1. \A x \in 1 .. Len(r.given) : FALSE  BY <1>7, EmptySeq
  <2> QED  BY <2>1, <1>7 DEF Given
<1>8. CASE TurnStarts(s, e)
  <2>1. r.step = s.step /\ r.given = s.given /\ s.turn = 0
    BY <1>2, <1>3, <1>8, AfterTurnStart DEF Becomes, TurnStarts
  <2>2. s.step = 0  BY <2>1, Scalars
  <2> QED  BY <2>1, <2>2, <1>1, <1>2, <1>4, <1>7 DEF Given
<1>9. CASE TurnEnds(s, e)
  <2>1. r.step = s.step /\ r.given = s.given /\ s.step = 0
    BY <1>2, <1>3, <1>9, AfterTurnEnd DEF Becomes, TurnEnds
  <2> QED  BY <2>1, <1>1, <1>2, <1>4, <1>7 DEF Given
<1>10. CASE StepStarts(s, e)
  <2>1. /\ e.type = "step/start" /\ r.turn = s.turn /\ r.step = s.steps + 1 /\ r.given = s.given
        /\ s.turn # 0 /\ s.step = 0
    BY <1>2, <1>3, <1>10, AfterStepStart DEF Becomes, Reads, StepStarts
  <2>2. s.turn = s.turns /\ r.given = <<>>  BY <2>1, <1>4, Scalars DEF Given
  <2>3. Within(events, n, r.turn, r.step, "tool/result") = {}
    <3>1. Within(events, n - 1, s.turns, s.steps + 1, "tool/result") = {}
      BY NothingWithin DEF Within
    <3> QED  BY <3>1, <2>1, <2>2, <1>5
  <2>4. \A x \in 1 .. Len(r.given) : FALSE  BY <2>2, EmptySeq
  <2>5. r.step # 0  BY <2>1, Scalars
  <2> QED  BY <2>3, <2>4, <2>5, <1>1, <1>2 DEF Given
<1>11. CASE StepEnds(s, e)
  BY <1>1, <1>2, <1>3, <1>7, <1>11, AfterStepEnd DEF Becomes
<1>12. CASE Asks(s, e)
  <2>1. /\ e.type = "assistant/message" /\ r.turn = s.turn /\ r.step = s.step
        /\ r.given = s.given /\ s.asked = 0
    BY <1>2, <1>3, <1>12, AfterMessage DEF Becomes, Reads, Asks
  <2>2. \A x \in 1 .. Len(s.given) : FALSE
    <3>1. s.calls = <<>> /\ Len(s.given) <= Len(s.calls)
      BY <2>1 DEF NextEvent, Story, Sound
    <3>2. Len(s.given) \in Nat  BY <1>3, LenProperties DEF Accounts
    <3> QED  BY <3>1, <3>2, EmptySeq
  <2> QED  BY <2>1, <2>2, <1>1, <1>2, <1>4, <1>5 DEF Given
<1>13. CASE Begins(s, e)
  <2>1. /\ r.turn = s.turn /\ r.step = s.step /\ r.given = s.given /\ r.calls = s.calls
        /\ e.type = "tool/call"
    BY <1>2, <1>3, <1>13, AfterCall DEF Becomes, Reads
  <2> QED  BY <2>1, <1>1, <1>2, <1>6
<1>14. CASE Gives(s, e)
  <2>1. /\ e.type = "tool/result" /\ e.turn = s.turn /\ e.step = s.step
        /\ e.id = s.calls[Len(s.given) + 1]
        /\ r.turn = s.turn /\ r.step = s.step /\ r.given = Append(s.given, n)
        /\ r.calls = s.calls
    BY <1>2, <1>3, <1>14, AfterResult DEF Becomes, Reads
  <2>2. /\ s.given \in Seq(Nat) /\ Len(s.given) \in Nat
        /\ Len(r.given) = Len(s.given) + 1
        /\ \A x \in 1 .. Len(s.given) : r.given[x] = s.given[x]
        /\ r.given[Len(s.given) + 1] = n
    BY <2>1, <1>3, AppendProperties, LenProperties DEF Accounts
  <2>3. \A x \in 1 .. Len(r.given) : x \in 1 .. Len(s.given) \/ x = Len(s.given) + 1  BY <2>2
  <2>9. s.step # 0  BY <1>14 DEF Gives
  <2>4. /\ Within(events, n - 1, s.turn, s.step, "tool/result")
             = {s.given[x] : x \in 1 .. Len(s.given)}
        /\ Within(events, n, s.turn, s.step, "tool/result")
             = Within(events, n - 1, s.turn, s.step, "tool/result") \cup {n}
    <3>1. Within(events, n - 1, s.turn, s.step, "tool/result")
            = {s.given[x] : x \in 1 .. Len(s.given)}
      BY <2>9, <1>4 DEF Given
    <3> QED  BY <3>1, <2>1, <1>1, WithinStep
  <2>5. {r.given[x] : x \in 1 .. Len(r.given)} = {s.given[x] : x \in 1 .. Len(s.given)} \cup {n}
    <3>1. 1 .. Len(r.given) = (1 .. Len(s.given)) \cup {Len(s.given) + 1}  BY <2>2
    <3> QED  BY <3>1, <2>2
  <2>6. \A x \in 1 .. Len(s.given) : s.given[x] < n
    <3>1. \A x \in 1 .. Len(s.given) : s.given[x] \in 1 .. n - 1  BY <2>4 DEF Within
    <3> QED  BY <3>1, <1>3
  <2>7. \A x, y \in 1 .. Len(r.given) : x < y => r.given[x] < r.given[y]
    <3> SUFFICES ASSUME NEW x \in 1 .. Len(r.given), NEW y \in 1 .. Len(r.given), x < y
                 PROVE  r.given[x] < r.given[y]
      OBVIOUS
    <3>1. x \in 1 .. Len(s.given)  BY <2>2
    <3>2. CASE y \in 1 .. Len(s.given)  BY <3>1, <3>2, <2>2, <1>4 DEF Given
    <3>3. CASE y = Len(s.given) + 1  BY <3>1, <3>3, <2>2, <2>6
    <3> QED  BY <3>2, <3>3, <2>3
  <2>8. \A x \in 1 .. Len(r.given) : events[r.given[x]].id = r.calls[x]
    <3> SUFFICES ASSUME NEW x \in 1 .. Len(r.given) PROVE events[r.given[x]].id = r.calls[x]
      OBVIOUS
    <3>1. CASE x \in 1 .. Len(s.given)  BY <3>1, <2>1, <2>2, <1>4 DEF Given
    <3>2. CASE x = Len(s.given) + 1  BY <3>2, <2>1, <2>2, <1>1
    <3> QED  BY <3>1, <3>2, <2>3
  <2>10. Within(events, n, r.turn, r.step, "tool/result") = {r.given[x] : x \in 1 .. Len(r.given)}
    BY <2>1, <2>4, <2>5
  <2>11. Given(events, n, r)  BY <2>1, <2>7, <2>8, <2>9, <2>10 DEF Given
  <2> QED  BY <2>11, <1>1, <1>2
<1>15. CASE Seeds(s, e)
  BY <1>1, <1>2, <1>3, <1>6, <1>15, AfterSeed DEF Reads
<1> QED
  BY <1>3, <1>8, <1>9, <1>10, <1>11, <1>12, <1>13, <1>14, <1>15, Kinds

LEMMA CallFields ==
  ASSUME NEW turn, NEW step, NEW id
  PROVE  LET e == Call(turn, step, id) IN
         e.type = "tool/call" /\ e.turn = turn /\ e.step = step /\ e.id = id
BY DEF Call, Logged

LEMMA BegunStep ==
  ASSUME NEW events, NEW n, NEW s, NextEvent(events, n, s)
  PROVE  Begun(events, n, After(s, events[n], n))
<1>1. PICK e : e = events[n]  OBVIOUS
<1>2. PICK r : r = After(s, e, n)  OBVIOUS
<1>3. n \in Nat \ {0} /\ s \in Accounts /\ Legal(s, e)  BY <1>1, Scalars
<1>4. Begun(events, n - 1, s)  BY DEF NextEvent, Story
<1>5. /\ 1 .. n - 1 \subseteq 1 .. n /\ n \in 1 .. n
      /\ \A i \in 1 .. n : i \in 1 .. n - 1 \/ i = n
  BY Positions
<1>6. ASSUME r.turn = s.turn, r.step = s.step, r.begun = s.begun, e.type # "tool/call"
      PROVE  Begun(events, n, r)
  <2>1. \A id : e # Call(r.turn, r.step, id)  BY <1>6, CallFields
  <2> QED  BY <2>1, <1>1, <1>4, <1>5, <1>6 DEF Begun
<1>7. ASSUME r.step = 0 PROVE Begun(events, n, r)  BY <1>7 DEF Begun
<1>8. CASE TurnStarts(s, e)
  <2>1. r.step = s.step /\ s.turn = 0
    BY <1>2, <1>3, <1>8, AfterTurnStart DEF Becomes, TurnStarts
  <2> QED  BY <2>1, <1>1, <1>2, <1>7, Scalars
<1>9. CASE TurnEnds(s, e)
  <2>1. r.step = 0  BY <1>2, <1>3, <1>9, AfterTurnEnd DEF Becomes, TurnEnds
  <2> QED  BY <2>1, <1>1, <1>2, <1>7
<1>10. CASE StepStarts(s, e)
  <2>1. /\ e.type = "step/start" /\ r.turn = s.turn /\ r.step = s.steps + 1 /\ r.begun = s.begun
        /\ s.turn # 0 /\ s.step = 0
    BY <1>2, <1>3, <1>10, AfterStepStart DEF Becomes, Reads, StepStarts
  <2>2. s.turn = s.turns  BY <2>1, Scalars
  <2>3. s.begun = {}
    <3>1. s.calls = <<>> /\ s.begun \subseteq {s.calls[k] : k \in 1 .. Len(s.calls)}
      BY <2>1 DEF NextEvent, Story, Sound
    <3>2. \A k \in 1 .. Len(s.calls) : FALSE  BY <3>1, EmptySeq
    <3> QED  BY <3>1, <3>2
  <2>4. \A id : \A i \in 1 .. n : events[i] # Call(r.turn, r.step, id)
    <3> SUFFICES ASSUME NEW id, NEW i \in 1 .. n, events[i] = Call(r.turn, r.step, id)
                 PROVE  FALSE
      OBVIOUS
    <3>1. events[i].type = "tool/call" /\ events[i].turn = s.turns /\ events[i].step = s.steps + 1
      BY <2>1, <2>2, CallFields
    <3> QED  BY <3>1, <2>1, <1>1, <1>5, NothingWithin
  <2> QED  BY <2>1, <2>3, <2>4, <1>1, <1>2 DEF Begun
<1>11. CASE StepEnds(s, e)
  <2>1. r.step = 0  BY <1>2, <1>3, <1>11, AfterStepEnd DEF Becomes
  <2> QED  BY <2>1, <1>1, <1>2, <1>7
<1>12. CASE Asks(s, e)
  BY <1>1, <1>2, <1>3, <1>6, <1>12, AfterMessage DEF Becomes, Reads
<1>13. CASE Begins(s, e)
  <2>1. /\ r.turn = s.turn /\ r.step = s.step /\ r.begun = s.begun \cup {e.id}
        /\ e = Call(s.turn, s.step, e.id) /\ s.step # 0
    BY <1>2, <1>3, <1>13, AfterCall DEF Becomes, Begins
  <2> SUFFICES ASSUME NEW id \in Ids
               PROVE  id \in r.begun <=> \E i \in 1 .. n : events[i] = Call(r.turn, r.step, id)
    BY <1>1, <1>2 DEF Begun
  <2>2. id \in s.begun <=> \E i \in 1 .. n - 1 : events[i] = Call(s.turn, s.step, id)
    BY <2>1, <1>4 DEF Begun
  <2>3. e = Call(s.turn, s.step, id) <=> id = e.id  BY <2>1, CallFields
  <2> QED  BY <2>1, <2>2, <2>3, <1>1, <1>5
<1>14. CASE Gives(s, e)
  BY <1>1, <1>2, <1>3, <1>6, <1>14, AfterResult DEF Becomes, Reads
<1>15. CASE Seeds(s, e)
  BY <1>1, <1>2, <1>3, <1>6, <1>15, AfterSeed DEF Reads
<1> QED
  BY <1>3, <1>8, <1>9, <1>10, <1>11, <1>12, <1>13, <1>14, <1>15, Kinds

\* What is answered stays so while its step gets no more messages and results.
LEMMA AnsweredStays ==
  ASSUME NEW events, NEW n, NEW s, NextEvent(events, n, s), NEW turn, NEW step,
         AnsweredBy(events, n - 1, turn, step),
         ~ /\ events[n].type \in {"assistant/message", "tool/result"}
           /\ events[n].turn = turn /\ events[n].step = step
  PROVE  AnsweredBy(events, n, turn, step)
<1>1. /\ Within(events, n, turn, step, "assistant/message")
           = Within(events, n - 1, turn, step, "assistant/message")
      /\ Within(events, n, turn, step, "tool/result")
           = Within(events, n - 1, turn, step, "tool/result")
  BY WithinStep
<1> QED  BY <1>1 DEF AnsweredBy

\* A step ends with all its calls answered.
LEMMA AnsweredAtEnd ==
  ASSUME NEW events, NEW n, NEW s, NextEvent(events, n, s), StepEnds(s, events[n])
  PROVE  AnsweredBy(events, n, s.turn, s.step)
<1>1. PICK e : e = events[n]  OBVIOUS
<1>2. n \in Nat \ {0} /\ s \in Accounts  BY Scalars
<1>3. e.type = "step/end" /\ s.step # 0 /\ Len(s.given) = Len(s.calls)
  BY <1>1, <1>2, AfterStepEnd DEF Reads, StepEnds
<1>4. PICK given : given = {s.given[x] : x \in 1 .. Len(s.given)}  OBVIOUS
<1>5. Within(events, n - 1, s.turn, s.step, "tool/result") = given
  BY <1>3, <1>4 DEF NextEvent, Story, Given
<1>6. /\ Within(events, n - 1, s.turn, s.step, "assistant/message")
           = IF s.asked = 0 THEN {} ELSE {s.asked}
      /\ s.asked # 0 => events[s.asked].calls = s.calls
  BY <1>3 DEF NextEvent, Story, Asked
<1>7. AnsweredBy(events, n - 1, s.turn, s.step)
  <2>1. CASE s.asked = 0
    <3>1. s.calls = <<>>  BY <2>1 DEF NextEvent, Story, Sound
    <3>2. \A x \in 1 .. Len(s.given) : FALSE  BY <3>1, <1>3, EmptySeq
    <3>3. given = {}  BY <3>2, <1>4
    <3> QED  BY <3>3, <2>1, <1>5, <1>6 DEF AnsweredBy
  <2>2. CASE s.asked # 0
    <3> DEFINE place == [x \in 1 .. Len(s.calls) |-> s.given[x]]
    <3>1. place \in [1 .. Len(s.calls) -> given]  BY <1>3, <1>4
    <3>2. given = {place[x] : x \in 1 .. Len(s.calls)}  BY <1>3, <1>4
    <3>3. /\ \A x \in 1 .. Len(s.calls) : events[place[x]].id = s.calls[x]
          /\ \A x, y \in 1 .. Len(s.calls) : x < y => place[x] < place[y]
      BY <1>3 DEF NextEvent, Story, Given
    <3> HIDE DEF place
    <3>4. Matches(events, s.calls, given)  BY <3>1, <3>2, <3>3 DEF Matches
    <3> QED  BY <3>4, <2>2, <1>5, <1>6 DEF AnsweredBy
  <2> QED  BY <2>1, <2>2
<1> QED  BY <1>1, <1>3, <1>7, AnsweredStays

LEMMA SettledStep ==
  ASSUME NEW events, NEW n, NEW s, NextEvent(events, n, s)
  PROVE  Settled(events, n, After(s, events[n], n))
<1>1. PICK e : e = events[n]  OBVIOUS
<1>2. PICK r : r = After(s, e, n)  OBVIOUS
<1>3. n \in Nat \ {0} /\ s \in Accounts /\ Legal(s, e)  BY <1>1, Scalars
<1>4. SUFFICES ASSUME NEW i \in 1 .. n, events[i].type = "step/start"
               PROVE  \/ r.step # 0 /\ events[i].turn = r.turn /\ events[i].step = r.step
                      \/ AnsweredBy(events, n, events[i].turn, events[i].step)
  BY <1>1, <1>2 DEF Settled
<1>5. PICK f : f = events[i]  OBVIOUS
<1>6. CASE i = n
  <2>1. e.type = "step/start"  BY <1>1, <1>4, <1>6
  <2>2. StepStarts(s, e)
    <3>1. ~TurnStarts(s, e)  BY <2>1, <1>3, AfterTurnStart DEF Reads
    <3>2. ~TurnEnds(s, e)  BY <2>1, <1>3, AfterTurnEnd DEF Reads
    <3>3. ~StepEnds(s, e)  BY <2>1, <1>3, AfterStepEnd DEF Reads
    <3>4. ~Asks(s, e)  BY <2>1, <1>3, AfterMessage DEF Reads
    <3>5. ~Begins(s, e)  BY <2>1, <1>3, AfterCall DEF Reads
    <3>6. ~Gives(s, e)  BY <2>1, <1>3, AfterResult DEF Reads
    <3>7. ~Seeds(s, e)  BY <2>1, <1>3, AfterSeed DEF Reads
    <3> QED  BY <3>1, <3>2, <3>3, <3>4, <3>5, <3>6, <3>7, <1>3, Kinds
  <2>3. r.step = s.steps + 1 /\ r.turn = s.turn /\ e.turn = s.turn /\ e.step = s.steps + 1
    BY <2>2, <1>2, <1>3, AfterStepStart DEF Becomes, Reads
  <2>4. r.step # 0  BY <2>3, Scalars
  <2> QED  BY <2>3, <2>4, <1>1, <1>6
<1>7. CASE i \in 1 .. n - 1 /\ s.step # 0 /\ f.turn = s.turn /\ f.step = s.step
  <2>1. CASE StepEnds(s, e)
    BY <2>1, <1>1, <1>5, <1>7, AnsweredAtEnd
  <2>2. CASE Asks(s, e)
    BY <2>2, <1>2, <1>3, <1>5, <1>7, AfterMessage DEF Becomes
  <2>3. CASE Begins(s, e)
    BY <2>3, <1>2, <1>3, <1>5, <1>7, AfterCall DEF Becomes
  <2>4. CASE Gives(s, e)
    BY <2>4, <1>2, <1>3, <1>5, <1>7, AfterResult DEF Becomes
  <2>5. CASE Seeds(s, e)
    BY <2>5, <1>2, <1>3, <1>5, <1>7, AfterSeed
  <2>6. ~TurnStarts(s, e) /\ ~TurnEnds(s, e) /\ ~StepStarts(s, e)
    BY <1>7, Scalars DEF TurnStarts, TurnEnds, StepStarts
  <2> QED  BY <2>1, <2>2, <2>3, <2>4, <2>5, <2>6, <1>3, Kinds
<1>8. CASE i \in 1 .. n - 1 /\ ~ (s.step # 0 /\ f.turn = s.turn /\ f.step = s.step)
  <2>1. AnsweredBy(events, n - 1, f.turn, f.step)
    BY <1>4, <1>5, <1>8 DEF NextEvent, Story, Settled
  <2>2. e.type \in {"assistant/message", "tool/result"} =>
          s.step # 0 /\ e.turn = s.turn /\ e.step = s.step
    <3>1. CASE TurnStarts(s, e)  BY <3>1, <1>3, AfterTurnStart DEF Reads
    <3>2. CASE TurnEnds(s, e)  BY <3>2, <1>3, AfterTurnEnd DEF Reads
    <3>3. CASE StepStarts(s, e)  BY <3>3, <1>3, AfterStepStart DEF Reads
    <3>4. CASE StepEnds(s, e)  BY <3>4, <1>3, AfterStepEnd DEF Reads
    <3>5. CASE Asks(s, e)  BY <3>5, <1>3, AfterMessage DEF Reads, Asks
    <3>6. CASE Begins(s, e)  BY <3>6, <1>3, AfterCall DEF Reads
    <3>7. CASE Gives(s, e)  BY <3>7, <1>3, AfterResult DEF Reads, Gives
    <3>8. CASE Seeds(s, e)  BY <3>8, <1>3, AfterSeed DEF Reads
    <3> QED  BY <3>1, <3>2, <3>3, <3>4, <3>5, <3>6, <3>7, <3>8, <1>3, Kinds
  <2>3. ~ /\ e.type \in {"assistant/message", "tool/result"}
          /\ e.turn = f.turn /\ e.step = f.step
    BY <2>2, <1>8
  <2> QED  BY <2>1, <2>3, <1>1, <1>5, AnsweredStays
<1> QED  BY <1>6, <1>7, <1>8, Positions

LEMMA TruthfulStep ==
  ASSUME NEW events, NEW n, NEW s, NextEvent(events, n, s)
  PROVE  Truthful(events, n)
<1>1. PICK e : e = events[n]  OBVIOUS
<1>2. n \in Nat \ {0} /\ s \in Accounts /\ Legal(s, e)  BY <1>1, Scalars
<1>3. \A i \in 1 .. n : i \in 1 .. n - 1 \/ i = n  BY Positions
<1>4. Truthful(events, n - 1)  BY DEF NextEvent, Story
\* A call that is recorded has no result yet.
<1>5. ASSUME Begins(s, e), NEW j \in 1 .. n - 1, events[j].type = "tool/result",
             e = CallOf(events[j])
      PROVE  FALSE
  <2>1. /\ e.turn = s.turn /\ e.step = s.step
        /\ \E k \in Len(s.given) + 1 .. Len(s.calls) : e.id = s.calls[k]
    <3>1. /\ Reads(e, "tool/call", s.turn, s.step, e.id, <<>>, "none")
          /\ \E k \in Len(s.given) + 1 .. Len(s.calls) : e.id = s.calls[k]
      BY <1>2, <1>5, AfterCall
    <3>2. e.turn = s.turn /\ e.step = s.step  BY <3>1 DEF Reads
    <3> QED  BY <3>1, <3>2
  <2>2. s.step # 0  BY <1>5 DEF Begins
  <2>3. e.turn = events[j].turn /\ e.step = events[j].step /\ e.id = events[j].id
    BY <1>5, CallFields DEF CallOf
  <2>4. j \in Within(events, n - 1, s.turn, s.step, "tool/result")
    BY <2>1, <2>3, <1>5 DEF Within
  <2>5. PICK x \in 1 .. Len(s.given) : j = s.given[x]
    BY <2>2, <2>4 DEF NextEvent, Story, Given
  <2>6. e.id = s.calls[x]  BY <2>3, <2>5 DEF NextEvent, Story, Given
  <2>7. PICK k \in Len(s.given) + 1 .. Len(s.calls) : e.id = s.calls[k]  BY <2>1
  <2>8. Len(s.given) \in Nat /\ Len(s.calls) \in Nat  BY <1>2, LenProperties DEF Accounts
  <2>9. x \in 1 .. Len(s.calls) /\ k \in 1 .. Len(s.calls) /\ x # k  BY <2>5, <2>7, <2>8
  <2> QED  BY <2>6, <2>7, <2>9 DEF NextEvent, Story, Sound, Distinct
<1>6. ASSUME NEW j \in 1 .. n - 1
      PROVE  /\ events[j].type = "tool/call" => events[j] = CallOf(events[j])
             /\ events[j].code \in {"outcome-unknown", "not-started"} =>
                  events[j].type = "tool/result"
             /\ events[j].code = "outcome-unknown" =>
                  \E i \in 1 .. j - 1 : events[i] = CallOf(events[j])
             /\ events[j].code = "not-started" => \A i \in 1 .. n : events[i] # CallOf(events[j])
  <2>1. events[j].code = "not-started" => e # CallOf(events[j])
    <3> SUFFICES ASSUME events[j].code = "not-started", e = CallOf(events[j]) PROVE FALSE
      OBVIOUS
    <3>1. e.type = "tool/call"  BY CallFields DEF CallOf
    <3>2. Begins(s, e)
      <4>1. ~TurnStarts(s, e)  BY <3>1, <1>2, AfterTurnStart DEF Reads
      <4>2. ~TurnEnds(s, e)  BY <3>1, <1>2, AfterTurnEnd DEF Reads
      <4>3. ~StepStarts(s, e)  BY <3>1, <1>2, AfterStepStart DEF Reads
      <4>4. ~StepEnds(s, e)  BY <3>1, <1>2, AfterStepEnd DEF Reads
      <4>5. ~Asks(s, e)  BY <3>1, <1>2, AfterMessage DEF Reads
      <4>6. ~Gives(s, e)  BY <3>1, <1>2, AfterResult DEF Reads
      <4>7. ~Seeds(s, e)  BY <3>1, <1>2, AfterSeed DEF Reads
      <4> QED  BY <4>1, <4>2, <4>3, <4>4, <4>5, <4>6, <4>7, <1>2, Kinds
    <3>3. events[j].type = "tool/result"  BY <1>4 DEF Truthful
    <3> QED  BY <3>2, <3>3, <1>5
  <2> QED  BY <2>1, <1>1, <1>3, <1>4 DEF Truthful
<1>7. ASSUME e.type \notin {"tool/call", "tool/result"},
             e.code \notin {"outcome-unknown", "not-started"}
      PROVE  Truthful(events, n)
  BY <1>1, <1>3, <1>6, <1>7 DEF Truthful
<1>8. CASE Begins(s, e)
  <2>1. e.code = "none" /\ e.type = "tool/call" /\ e.turn = s.turn /\ e.step = s.step
        /\ e = Call(s.turn, s.step, e.id)
    BY <1>2, <1>8, AfterCall DEF Reads
  <2>2. e = CallOf(e)  BY <2>1 DEF CallOf
  <2> QED  BY <2>1, <2>2, <1>1, <1>3, <1>6 DEF Truthful
<1>9. CASE Gives(s, e)
  <2>1. /\ e.type = "tool/result" /\ e.turn = s.turn /\ e.step = s.step
        /\ e.id = s.calls[Len(s.given) + 1] /\ Len(s.given) + 1 \in 1 .. Len(s.calls)
        /\ e.code \in Truth(s, e.id)
    BY <1>2, <1>9, AfterResult DEF Reads
  <2>2. s.step # 0  BY <1>9 DEF Gives
  <2>3. e.id \in Ids
    <3>1. s.calls \in Seq(Ids)  BY <1>2 DEF Accounts
    <3> QED  BY <3>1, <2>1, ElementOfSeq
  <2>4. e.id \in s.begun <=> \E i \in 1 .. n - 1 : events[i] = CallOf(e)
    BY <2>1, <2>2, <2>3 DEF NextEvent, Story, Begun, CallOf
  <2>5. e.code = "outcome-unknown" => \E i \in 1 .. n - 1 : events[i] = CallOf(e)
    BY <2>1, <2>4 DEF Truth
  <2>6. e.code = "not-started" => \A i \in 1 .. n : events[i] # CallOf(e)
    <3>1. e # CallOf(e)  BY <2>1, CallFields DEF CallOf
    <3>2. e.code = "not-started" => \A i \in 1 .. n - 1 : events[i] # CallOf(e)
      BY <2>1, <2>4 DEF Truth
    <3> QED  BY <3>1, <3>2, <1>1, <1>3
  <2> QED  BY <2>1, <2>5, <2>6, <1>1, <1>3, <1>6 DEF Truthful
<1>10. CASE TurnStarts(s, e)  BY <1>2, <1>7, <1>10, AfterTurnStart DEF Reads
<1>11. CASE TurnEnds(s, e)
  <2>1. e.type = "turn/end" /\ e.code \in {"ended", "interrupted", "forked"}
    BY <1>2, <1>11, AfterTurnEnd DEF Reads
  <2> QED  BY <2>1, <1>7
<1>12. CASE StepStarts(s, e)  BY <1>2, <1>7, <1>12, AfterStepStart DEF Reads
<1>13. CASE StepEnds(s, e)  BY <1>2, <1>7, <1>13, AfterStepEnd DEF Reads
<1>14. CASE Asks(s, e)  BY <1>2, <1>7, <1>14, AfterMessage DEF Reads
<1>15. CASE Seeds(s, e)  BY <1>2, <1>7, <1>15, AfterSeed DEF Reads
<1> QED
  BY <1>2, <1>8, <1>9, <1>10, <1>11, <1>12, <1>13, <1>14, <1>15, Kinds

LEMMA StoryBegins ==
  ASSUME NEW events PROVE Story(events, 0, Blank)
<1>1. /\ Blank.turn = 0 /\ Blank.step = 0 /\ Blank.turns = 0 /\ Blank.steps = 0
      /\ Blank.last = 0 /\ Blank.asked = 0 /\ Blank.calls = <<>> /\ Blank.given = <<>>
      /\ Blank.begun = {}
  BY DEF Blank
<1>2. Blank \in Accounts  BY EmptySeq DEF Blank, Accounts
<1>3. Len(<<>>) = 0 /\ \A i \in 1 .. 0 : FALSE  BY EmptySeq
<1>4. Sound(Blank)  BY <1>1, <1>2, <1>3 DEF Sound, Distinct
<1>5. Bounded(events, 0, Blank) /\ Numbered(events, 0, Blank) /\ Chained(events, 0)
  BY <1>1, <1>3 DEF Bounded, Numbered, Chained
<1>6. LastBoundary(events, 0, Blank)  BY <1>1 DEF LastBoundary
<1>7. Asked(events, 0, Blank) /\ Begun(events, 0, Blank)  BY <1>1 DEF Asked, Begun
<1>8. Given(events, 0, Blank)  BY <1>1, <1>3 DEF Given
<1>9. Settled(events, 0, Blank) /\ Truthful(events, 0)  BY <1>3 DEF Settled, Truthful
<1> QED  BY <1>4, <1>5, <1>6, <1>7, <1>8, <1>9 DEF Story

LEMMA StoryStep ==
  ASSUME NEW events, NEW n, NEW s, NextEvent(events, n, s)
  PROVE  Story(events, n, After(s, events[n], n))
<1>1. Sound(After(s, events[n], n))
  <2>1. Sound(s) /\ Legal(s, events[n])  BY DEF NextEvent, Story
  <2> QED  BY <2>1, Scalars, SoundStep
<1> QED
  BY <1>1, BoundedStep, NumberedStep, LastBoundaryStep, ChainedStep, AskedStep, GivenStep,
     BegunStep, SettledStep, TruthfulStep DEF Story

\* The account of a log tells the story of each prefix.
LEMMA StoryHolds ==
  ASSUME NEW events \in Seq(Events), NEW h, Traces(h, events)
  PROVE  \A n \in 0 .. Len(events) : Story(events, n, h[n])
<1>1. Len(events) \in Nat  BY LenProperties
<1> DEFINE S == {n \in Nat : Story(events, n, h[n])}
<1>2. 0 \in S  BY StoryBegins DEF Traces
<1>3. ASSUME NEW n \in 1 .. Len(events), n - 1 \in S PROVE n \in S
  <2>1. Legal(h[n - 1], events[n]) /\ h[n] = After(h[n - 1], events[n], n)  BY DEF Traces
  <2>2. NextEvent(events, n, h[n - 1])  BY <2>1, <1>3 DEF NextEvent
  <2> QED  BY <2>1, <2>2, StoryStep
<1> HIDE DEF S
<1>4. \A n \in 0 .. Len(events) : n \in S  BY <1>1, <1>2, <1>3, Upwards
<1> QED  BY <1>4 DEF S

-----------------------------------------------------------------------------
(***************************************************************************)
(* The scan of the code is a function of the account.                      *)
(***************************************************************************)
Entries == [id : Ids, turn : Nat, step : Nat, started : BOOLEAN]

\* The entry of the k-th call without a result.
Waiting(s, k) ==
  LET id == s.calls[Len(s.given) + k]
  IN  [id |-> id, turn |-> s.turn, step |-> s.step, started |-> id \in s.begun]

LEMMA Measures ==
  ASSUME NEW s, Sound(s)
  PROVE  /\ s.calls \in Seq(Ids) /\ s.given \in Seq(Nat) /\ s.begun \subseteq Ids
         /\ s.turn \in Nat /\ s.step \in Nat
         /\ Len(s.calls) \in Nat /\ Len(s.given) \in Nat /\ Len(s.given) <= Len(s.calls)
         /\ \A k \in 1 .. Len(s.calls) : s.calls[k] \in Ids
<1>1. /\ s.calls \in Seq(Ids) /\ s.given \in Seq(Nat) /\ s.begun \subseteq Ids
      /\ s.turn \in Nat /\ s.step \in Nat
  BY DEF Sound, Accounts
<1>2. Len(s.calls) \in Nat /\ Len(s.given) \in Nat  BY <1>1, LenProperties
<1>3. \A k \in 1 .. Len(s.calls) : s.calls[k] \in Ids  BY <1>1, ElementOfSeq
<1> QED  BY <1>1, <1>2, <1>3 DEF Sound

LEMMA WaitingFields ==
  ASSUME NEW s, NEW k
  PROVE  /\ Waiting(s, k).id = s.calls[Len(s.given) + k]
         /\ Waiting(s, k).turn = s.turn /\ Waiting(s, k).step = s.step
         /\ Waiting(s, k).started <=> s.calls[Len(s.given) + k] \in s.begun
BY DEF Waiting

LEMMA LenOfDomain ==
  ASSUME NEW S, NEW seq \in Seq(S), NEW d \in Nat, DOMAIN seq = 1 .. d
  PROVE  Len(seq) = d
<1>1. 1 .. Len(seq) = 1 .. d /\ Len(seq) \in Nat  BY LenProperties
<1> QED  BY <1>1

LEMMA PendingIsSeq ==
  ASSUME NEW s, Sound(s)
  PROVE  /\ PendingOf(s) \in Seq(Entries)
         /\ Len(PendingOf(s)) = Len(s.calls) - Len(s.given)
         /\ PendingOf(s) = [k \in 1 .. Len(s.calls) - Len(s.given) |-> Waiting(s, k)]
<1>1. PendingOf(s) = [k \in 1 .. Len(s.calls) - Len(s.given) |-> Waiting(s, k)]
  BY DEF PendingOf, Waiting
<1>2. Len(s.calls) - Len(s.given) \in Nat  BY Measures
<1>3. ASSUME NEW k \in 1 .. Len(s.calls) - Len(s.given) PROVE Waiting(s, k) \in Entries
  <2>1. Len(s.given) + k \in 1 .. Len(s.calls)  BY Measures
  <2>2. s.calls[Len(s.given) + k] \in Ids /\ s.turn \in Nat /\ s.step \in Nat
    BY <2>1, Measures
  <2>3. (s.calls[Len(s.given) + k] \in s.begun) \in BOOLEAN  OBVIOUS
  <2> QED  BY <2>2, <2>3 DEF Waiting, Entries
<1>4. PendingOf(s) \in [1 .. Len(s.calls) - Len(s.given) -> Entries]  BY <1>1, <1>3
<1>5. PendingOf(s) \in Seq(Entries)  BY <1>2, <1>4, SeqDef
<1>6. Len(PendingOf(s)) = Len(s.calls) - Len(s.given)
  <2>1. DOMAIN PendingOf(s) = 1 .. Len(s.calls) - Len(s.given)  BY <1>1
  <2> QED  BY <2>1, <1>2, <1>5, LenOfDomain
<1> QED  BY <1>1, <1>5, <1>6

\* Nothing waits while no message has asked.
LEMMA NothingPending ==
  ASSUME NEW s, Sound(s), s.calls = <<>>
  PROVE  PendingOf(s) = <<>> /\ Len(s.given) = 0 /\ s.begun = {}
<1>1. Len(s.calls) = 0  BY EmptySeq
<1>2. Len(s.given) = 0  BY <1>1, Measures
<1>3. Len(PendingOf(s)) = 0 /\ PendingOf(s) \in Seq(Entries)
  <2>1. Len(PendingOf(s)) = Len(s.calls) - Len(s.given) /\ PendingOf(s) \in Seq(Entries)
    BY PendingIsSeq
  <2> QED  BY <2>1, <1>1, <1>2
<1>4. PendingOf(s) = <<>>  BY <1>3, EmptySeq
<1>5. s.begun = {}  BY <1>1 DEF Sound
<1> QED  BY <1>2, <1>4, <1>5

\* observe() of a message whose calls are distinct adds an entry for each.
LEMMA RegisteredAll ==
  ASSUME NEW e \in Events, Distinct(e.calls)
  PROVE  Registered(<<>>, e) = [k \in 1 .. Len(e.calls) |-> Entry(e, e.calls[k])]
<1>1. PICK N : N = Len(e.calls)  OBVIOUS
<1>2. /\ N \in Nat /\ e.turn \in Nat /\ e.step \in Nat
      /\ \A k \in 1 .. N : e.calls[k] \in Ids
  <2>1. e.calls \in Seq(Ids) /\ e.turn \in Nat /\ e.step \in Nat  BY DEF Events
  <2> QED  BY <2>1, <1>1, LenProperties, ElementOfSeq
<1> DEFINE first(m) == [k \in 1 .. m |-> Entry(e, e.calls[k])]
<1>3. \A k \in 1 .. N : Entry(e, e.calls[k]) \in Entries /\ Entry(e, e.calls[k]).id = e.calls[k]
  BY <1>2 DEF Entry, Entries
<1>4. \A m \in 0 .. N : first(m) \in Seq(Entries) /\ Len(first(m)) = m
  <2> SUFFICES ASSUME NEW m \in 0 .. N PROVE first(m) \in Seq(Entries) /\ Len(first(m)) = m
    OBVIOUS
  <2>1. m \in Nat /\ first(m) \in [1 .. m -> Entries]  BY <1>2, <1>3
  <2>2. first(m) \in Seq(Entries)  BY <2>1, SeqDef
  <2>3. DOMAIN first(m) = 1 .. m  OBVIOUS
  <2>4. DOMAIN first(m) = 1 .. Len(first(m)) /\ Len(first(m)) \in Nat
    BY <2>2, LenProperties
  <2> QED  BY <2>1, <2>2, <2>3, <2>4
<1>5. ASSUME NEW m \in 1 .. N
      PROVE  Register(first(m - 1), Entry(e, e.calls[m])) = first(m)
  <2>1. m - 1 \in 0 .. N /\ m \in 0 .. N /\ m \in Nat  BY <1>2
  <2>2. Len(first(m - 1)) = m - 1 /\ first(m - 1) \in Seq(Entries)
        /\ Len(first(m)) = m /\ first(m) \in Seq(Entries)
    BY <2>1, <1>4
  <2>3. \A i \in 1 .. m - 1 : first(m - 1)[i].id # Entry(e, e.calls[m]).id
    <3> SUFFICES ASSUME NEW i \in 1 .. m - 1
                 PROVE  first(m - 1)[i].id # Entry(e, e.calls[m]).id
      OBVIOUS
    <3>1. i \in 1 .. N /\ i # m  BY <2>1, <1>2
    <3>2. first(m - 1)[i] = Entry(e, e.calls[i])  OBVIOUS
    <3>3. e.calls[i] # e.calls[m]  BY <3>1, <1>1 DEF Distinct
    <3> HIDE DEF first
    <3> QED  BY <3>1, <3>2, <3>3, <1>3
  <2>4. Register(first(m - 1), Entry(e, e.calls[m])) = Append(first(m - 1), Entry(e, e.calls[m]))
    BY <2>2, <2>3 DEF Register
  <2>5. PICK grown : grown = Append(first(m - 1), Entry(e, e.calls[m]))  OBVIOUS
  <2>6. /\ grown \in Seq(Entries) /\ Len(grown) = m
        /\ \A i \in 1 .. m - 1 : grown[i] = first(m - 1)[i]
        /\ grown[m] = Entry(e, e.calls[m])
    <3>1. Entry(e, e.calls[m]) \in Entries  BY <1>3
    <3>2. (m - 1) + 1 = m  BY <2>1
    <3> HIDE DEF first
    <3> QED  BY <3>1, <3>2, <2>2, <2>5, AppendProperties
  <2>7. \A i \in 1 .. m : grown[i] = first(m)[i]
    <3>1. \A i \in 1 .. m : i \in 1 .. m - 1 \/ i = m  BY <2>1
    <3> QED  BY <3>1, <2>6
  <2>8. grown = first(m)
    <3> HIDE DEF first
    <3> QED  BY <2>2, <2>6, <2>7, SeqEqual
  <2> QED  BY <2>4, <2>5, <2>8
<1> DEFINE Step(f) ==
      [n \in 0 .. Len(e.calls) |->
         IF n = 0 THEN <<>> ELSE Register(f[n - 1], Entry(e, e.calls[n]))]
           reg == CHOOSE f : f = Step(f)
<1>6. Registered(<<>>, e) = reg[N]  BY <1>1 DEF Registered
<1>7. reg = Step(reg)
  <2> DEFINE all == [m \in 0 .. N |-> first(m)]
  <2>1. first(0) = <<>>
    <3>1. first(0) \in Seq(Entries) /\ Len(first(0)) = 0  BY <1>2, <1>4
    <3> HIDE DEF first
    <3> QED  BY <3>1, EmptySeq
  <2>2. all = Step(all)
    <3>1. \A m \in 1 .. N : m - 1 \in 0 .. N  BY <1>2
    <3>2. \A m \in 0 .. N : all[m] = IF m = 0 THEN <<>>
                                     ELSE Register(all[m - 1], Entry(e, e.calls[m]))
      <4> HIDE DEF first
      <4>1. \A m \in 0 .. N : m = 0 \/ m \in 1 .. N  BY <1>2
      <4> QED  BY <4>1, <3>1, <2>1, <1>5
    <3> HIDE DEF first
    <3> QED  BY <3>2, <1>1
  <2> HIDE DEF Step, all
  <2> QED  BY <2>2
<1>8. \A m \in 0 .. N : reg[m] = first(m)
  <2> DEFINE S == {m \in 0 .. N : reg[m] = first(m)}
  <2>0. first(0) = <<>>
    <3>1. first(0) \in Seq(Entries) /\ Len(first(0)) = 0  BY <1>2, <1>4
    <3> HIDE DEF first
    <3> QED  BY <3>1, EmptySeq
  <2> HIDE DEF first, reg
  <2>1. 0 \in S  BY <2>0, <1>1, <1>2, <1>7
  <2>2. ASSUME NEW m \in 1 .. N, m - 1 \in S PROVE m \in S
    <3>1. m \in 0 .. N /\ m # 0 /\ reg[m - 1] = first(m - 1)  BY <2>2, <1>2
    <3>2. reg[m] = Register(reg[m - 1], Entry(e, e.calls[m]))  BY <3>1, <1>1, <1>7
    <3> QED  BY <3>1, <3>2, <1>5
  <2> HIDE DEF S
  <2>3. \A m \in 0 .. N : m \in S  BY <2>1, <2>2, <1>2, Upwards
  <2> QED  BY <2>3 DEF S
<1>9. reg[N] = first(N)
  <2> HIDE DEF first, reg
  <2> QED  BY <1>2, <1>8
<1> QED  BY <1>1, <1>6, <1>9

\* One event observed.
LEMMA ScanStep ==
  ASSUME NEW s, Sound(s), NEW e, Legal(s, e), NEW n \in Nat \ {0}
  PROVE  Observe(ScanOf(s), e) = ScanOf(After(s, e, n))
<1>1. s \in Accounts  BY DEF Sound
<1>2. PICK r : r = After(s, e, n)  OBVIOUS
<1>3. Sound(r)  BY <1>2, SoundStep
<1>4. ScanOf(s).turn = s.turn /\ ScanOf(s).step = s.step /\ ScanOf(s).pending = PendingOf(s)
  BY DEF ScanOf
<1>5. SUFFICES /\ ObserveTurn(s.turn, e) = r.turn /\ ObserveStep(s.step, e) = r.step
               /\ ObservePending(PendingOf(s), e) = PendingOf(r)
  BY <1>2, <1>4 DEF Observe, ScanOf
<1>6. Sound(s) => (s.turn = 0 => s.step = 0) /\ (s.step = 0 => s.calls = <<>>)
  BY DEF Sound
<1>7. CASE TurnStarts(s, e)
  <2>1. s.turn = 0  BY <1>7 DEF TurnStarts
  <2>2. /\ e.type = "turn/start" /\ e.turn = s.turns + 1 /\ r.turn = s.turns + 1
        /\ r.step = s.step /\ r.calls = s.calls
    BY <1>1, <1>2, <1>7, AfterTurnStart DEF Becomes, Reads
  <2>3. PendingOf(r) = <<>>  BY <1>3, <1>6, <2>1, <2>2, NothingPending
  <2> QED  BY <1>6, <2>1, <2>2, <2>3 DEF ObserveTurn, ObserveStep, ObservePending
<1>8. CASE TurnEnds(s, e)
  <2>1. s.step = 0  BY <1>8 DEF TurnEnds
  <2>2. e.type = "turn/end" /\ r.turn = 0 /\ r.step = s.step /\ r.calls = s.calls
    <3>1. PICK cause : Reads(e, "turn/end", s.turn, 0, "none", <<>>, cause)
      BY <1>1, <1>8, AfterTurnEnd
    <3>2. Becomes(r, 0, s.step, s.turns, s.steps, n, s.asked, s.calls, s.given, s.begun)
      BY <1>1, <1>2, <1>8, AfterTurnEnd
    <3> QED  BY <3>1, <3>2 DEF Becomes, Reads
  <2>3. PendingOf(r) = <<>>  BY <1>3, <1>6, <2>1, <2>2, NothingPending
  <2> QED  BY <1>6, <2>1, <2>2, <2>3 DEF ObserveTurn, ObserveStep, ObservePending
<1>9. CASE StepStarts(s, e)
  <2>1. s.step = 0  BY <1>9 DEF StepStarts
  <2>2. /\ e.type = "step/start" /\ e.step = s.steps + 1 /\ r.turn = s.turn
        /\ r.step = s.steps + 1 /\ r.calls = s.calls
    BY <1>1, <1>2, <1>9, AfterStepStart DEF Becomes, Reads
  <2>3. PendingOf(r) = <<>> /\ PendingOf(s) = <<>>
    BY <1>3, <1>6, <2>1, <2>2, NothingPending
  <2> QED  BY <2>1, <2>2, <2>3 DEF ObserveTurn, ObserveStep, ObservePending
<1>10. CASE StepEnds(s, e)
  <2>1. e.type = "step/end" /\ r.turn = s.turn /\ r.step = 0 /\ r.calls = <<>>
    BY <1>1, <1>2, <1>10, AfterStepEnd DEF Becomes, Reads
  <2>2. PendingOf(r) = <<>>  BY <1>3, <2>1, NothingPending
  <2> QED  BY <2>1, <2>2 DEF ObserveTurn, ObserveStep, ObservePending
<1>11. CASE Asks(s, e)
  <2>1. s.calls = <<>>  BY <1>11 DEF Asks, Sound
  <2>2. PendingOf(s) = <<>> /\ Len(s.given) = 0 /\ s.begun = {}  BY <2>1, NothingPending
  <2>3. /\ Reads(e, "assistant/message", s.turn, s.step, "none", e.calls, "none")
        /\ Distinct(e.calls)
        /\ Becomes(r, s.turn, s.step, s.turns, s.steps, s.last, n, e.calls, s.given, s.begun)
    BY <1>1, <1>2, <1>11, AfterMessage
  <2>4. /\ e \in Events /\ e.type = "assistant/message" /\ e.turn = s.turn /\ e.step = s.step
        /\ r.turn = s.turn /\ r.step = s.step /\ r.calls = e.calls /\ r.given = s.given
        /\ r.begun = {}
    BY <2>2, <2>3 DEF Reads, Becomes
  <2>5. \A k \in 1 .. Len(e.calls) : Entry(e, e.calls[k]) = Waiting(r, k)
    <3> SUFFICES ASSUME NEW k \in 1 .. Len(e.calls) PROVE Entry(e, e.calls[k]) = Waiting(r, k)
      OBVIOUS
    <3>1. Len(e.calls) \in Nat  BY <1>3, <2>4, Measures
    <3>2. Len(r.given) + k = k  BY <2>2, <2>4, <3>1
    <3>3. (r.calls[Len(r.given) + k] \in r.begun) = FALSE  BY <2>4
    <3> QED  BY <2>4, <3>2, <3>3 DEF Entry, Waiting
  <2>6. PendingOf(r) = [k \in 1 .. Len(e.calls) |-> Waiting(r, k)]
    <3>1. Len(r.calls) - Len(r.given) = Len(e.calls)
      <4>1. Len(e.calls) \in Nat  BY <1>3, <2>4, Measures
      <4>2. Len(r.calls) = Len(e.calls) /\ Len(r.given) = 0  BY <2>2, <2>4
      <4> QED  BY <4>1, <4>2
    <3> QED  BY <3>1, <1>3, PendingIsSeq
  <2>7. Registered(<<>>, e) = PendingOf(r)  BY <2>3, <2>4, <2>5, <2>6, RegisteredAll
  <2> QED  BY <2>2, <2>4, <2>7 DEF ObserveTurn, ObserveStep, ObservePending
<1>12. CASE Begins(s, e)
  <2>1. /\ Reads(e, "tool/call", s.turn, s.step, e.id, <<>>, "none")
        /\ Becomes(r, s.turn, s.step, s.turns, s.steps, s.last, s.asked, s.calls, s.given,
                   s.begun \cup {e.id})
    BY <1>1, <1>2, <1>12, AfterCall
  <2>2. /\ e.type = "tool/call" /\ r.turn = s.turn /\ r.step = s.step /\ r.calls = s.calls
        /\ r.given = s.given /\ r.begun = s.begun \cup {e.id}
    BY <2>1 DEF Reads, Becomes
  <2>0. PICK d : d = Len(s.calls) - Len(s.given)  OBVIOUS
  <2>3. /\ PendingOf(s) = [k \in 1 .. d |-> Waiting(s, k)] /\ Len(PendingOf(s)) = d
        /\ PendingOf(r) = [k \in 1 .. d |-> Waiting(r, k)]
    BY <1>3, <2>0, <2>2, PendingIsSeq
  <2>4. ASSUME NEW k \in 1 .. d
        PROVE  Waiting(r, k) = IF Waiting(s, k).id = e.id
                               THEN [Waiting(s, k) EXCEPT !.started = TRUE] ELSE Waiting(s, k)
    <3> PICK id : id = s.calls[Len(s.given) + k]  OBVIOUS
    <3>1. r.calls[Len(r.given) + k] = id /\ Waiting(s, k).id = id
      BY <2>2, WaitingFields
    <3>2. CASE id = e.id
      <4>1. (id \in r.begun) = TRUE  BY <2>2, <3>2
      <4> QED  BY <4>1, <3>1, <3>2, <2>2 DEF Waiting
    <3>3. CASE id # e.id
      <4>1. (id \in r.begun) = (id \in s.begun)  BY <2>2, <3>3
      <4> QED  BY <4>1, <3>1, <3>3, <2>2 DEF Waiting
    <3> QED  BY <3>2, <3>3
  <2>5. ObservePending(PendingOf(s), e)
          = [k \in 1 .. d |-> IF PendingOf(s)[k].id = e.id
                              THEN [PendingOf(s)[k] EXCEPT !.started = TRUE]
                              ELSE PendingOf(s)[k]]
    BY <2>2, <2>3 DEF ObservePending
  <2>6. \A k \in 1 .. d : PendingOf(s)[k] = Waiting(s, k)  BY <2>3
  <2>7. ObservePending(PendingOf(s), e) = PendingOf(r)
    <3>1. \A k \in 1 .. d : Waiting(r, k) = IF PendingOf(s)[k].id = e.id
                                           THEN [PendingOf(s)[k] EXCEPT !.started = TRUE]
                                           ELSE PendingOf(s)[k]
      BY <2>4, <2>6
    <3>2. PendingOf(r) = [k \in 1 .. d |-> Waiting(r, k)]  BY <2>3
    <3> QED  BY ONLY <3>1, <3>2, <2>5, Zenon
  <2> QED  BY <2>2, <2>7 DEF ObserveTurn, ObserveStep
<1>13. CASE Gives(s, e)
  <2>1. /\ Reads(e, "tool/result", s.turn, s.step, s.calls[Len(s.given) + 1], <<>>, e.code)
        /\ Len(s.given) + 1 \in 1 .. Len(s.calls)
        /\ Becomes(r, s.turn, s.step, s.turns, s.steps, s.last, s.asked, s.calls,
                   Append(s.given, n), s.begun)
    BY <1>1, <1>2, <1>13, AfterResult
  <2>2. /\ e.type = "tool/result" /\ e.turn = s.turn /\ e.step = s.step
        /\ e.id = s.calls[Len(s.given) + 1] /\ r.turn = s.turn /\ r.step = s.step
        /\ r.calls = s.calls /\ r.given = Append(s.given, n) /\ r.begun = s.begun
    BY <2>1 DEF Reads, Becomes
  <2>3. Len(r.given) = Len(s.given) + 1
    <3>1. s.given \in Seq(Nat)  BY Measures
    <3> QED  BY <3>1, <2>2, AppendProperties
  <2>0. PICK d : d = Len(s.calls) - Len(s.given)  OBVIOUS
  <2>4. d \in Nat \ {0} /\ Len(s.calls) - Len(r.given) = d - 1  BY <2>0, <2>1, <2>3, Measures
  <2>5. /\ PendingOf(s) = [k \in 1 .. d |-> Waiting(s, k)] /\ Len(PendingOf(s)) = d
        /\ PendingOf(s) \in Seq(Entries)
    BY <2>0, PendingIsSeq
  <2>6. /\ PendingOf(r) = [k \in 1 .. d - 1 |-> Waiting(r, k)] /\ Len(PendingOf(r)) = d - 1
        /\ PendingOf(r) \in Seq(Entries)
    BY <1>3, <2>2, <2>4, PendingIsSeq
  <2>7. ASSUME NEW k \in 1 .. d - 1 PROVE Waiting(r, k) = PendingOf(s)[k + 1]
    <3>1. k + 1 \in 1 .. d /\ Len(r.given) + k = Len(s.given) + (k + 1)
      <4>1. Len(s.given) \in Nat /\ d \in Nat /\ k \in Nat  BY <2>4, Measures
      <4>2. k + 1 \in 1 .. d  BY <4>1
      <4>3. \A a, b \in Nat : (a + 1) + b = a + (b + 1)  OBVIOUS
      <4> QED  BY <4>1, <4>2, <4>3, <2>3
    <3>2. PendingOf(s)[k + 1] = Waiting(s, k + 1)  BY <3>1, <2>5
    <3> QED  BY <3>1, <3>2, <2>2 DEF Waiting
  <2>8. Answering(PendingOf(s), e) = {1}
    <3>1. \A k \in 1 .. d : /\ PendingOf(s)[k].id = s.calls[Len(s.given) + k]
                            /\ PendingOf(s)[k].turn = s.turn /\ PendingOf(s)[k].step = s.step
      BY <2>5, WaitingFields
    <3>2. \A k \in 1 .. d : s.calls[Len(s.given) + k] = e.id => k = 1
      <4> SUFFICES ASSUME NEW k \in 1 .. d, s.calls[Len(s.given) + k] = e.id PROVE k = 1
        OBVIOUS
      <4>1. Len(s.given) + k \in 1 .. Len(s.calls)  BY <2>0, Measures
      <4>2. Len(s.given) + k = Len(s.given) + 1
        BY <4>1, <2>1, <2>2 DEF Sound, Distinct
      <4> QED  BY <4>2, <2>4, Measures
    <3>3. 1 \in 1 .. d  BY <2>4
    <3> QED  BY <3>1, <3>2, <3>3, <2>2, <2>5 DEF Answering
  <2>9. Unanswered(PendingOf(s), e) = SubSeq(PendingOf(s), 1, 0) \o SubSeq(PendingOf(s), 2, d)
    <3>1. (CHOOSE i \in {1} : TRUE) = 1  OBVIOUS
    <3>2. 1 - 1 = 0 /\ 1 + 1 = 2  OBVIOUS
    <3> QED  BY <3>1, <3>2, <2>5, <2>8 DEF Unanswered
  <2>10. SubSeq(PendingOf(s), 1, 0) = <<>>  BY SubSeqEmpty
  <2>11. PICK rest : rest = SubSeq(PendingOf(s), 2, d)  OBVIOUS
  <2>12. /\ rest \in Seq(Entries) /\ Len(rest) = d - 1
         /\ \A k \in 1 .. d - 1 : rest[k] = PendingOf(s)[k + 1]
    <3>1. PendingOf(s) # <<>>  BY <2>4, <2>5, EmptySeq
    <3>2. rest = Tail(PendingOf(s))  BY <3>1, <2>5, <2>11, TailIsSubSeq
    <3> QED  BY <3>1, <3>2, <2>5, HeadTailProperties
  <2>13. rest = PendingOf(r)
    <3>1. \A k \in 1 .. d - 1 : PendingOf(r)[k] = Waiting(r, k)  BY <2>6
    <3> QED  BY <3>1, <2>6, <2>7, <2>12, SeqEqual
  <2>14. <<>> \o rest = rest  BY <2>12, ConcatEmptySeq
  <2>15. ObservePending(PendingOf(s), e) = PendingOf(r)
    BY <2>2, <2>9, <2>10, <2>11, <2>13, <2>14 DEF ObservePending
  <2> QED  BY <2>2, <2>15 DEF ObserveTurn, ObserveStep
<1>14. CASE Seeds(s, e)
  <2>1. e.type = "session/end-seed" /\ r = s  BY <1>1, <1>2, <1>14, AfterSeed DEF Reads
  <2> QED  BY <2>1 DEF ObserveTurn, ObserveStep, ObservePending
<1> QED
  BY <1>7, <1>8, <1>9, <1>10, <1>11, <1>12, <1>13, <1>14, Kinds

\* The scan of a told log.
LEMMA ScanTold ==
  ASSUME NEW events \in Seq(Events), NEW h, Traces(h, events)
  PROVE  Scanned(events) = ScanOf(h[Len(events)])
<1>1. PICK N : N = Len(events)  OBVIOUS
<1>2. N \in Nat  BY <1>1, LenProperties
<1>3. ASSUME NEW m \in 1 .. N PROVE Observe(ScanOf(h[m - 1]), events[m]) = ScanOf(h[m])
  <2>1. m - 1 \in 0 .. Len(events) /\ m \in Nat \ {0} /\ m \in 1 .. Len(events)  BY <1>1, <1>2
  <2>2. Sound(h[m - 1])  BY <2>1, StoryHolds DEF Story
  <2>3. Legal(h[m - 1], events[m]) /\ h[m] = After(h[m - 1], events[m], m)
    BY <2>1 DEF Traces
  <2> QED  BY <2>1, <2>2, <2>3, ScanStep
<1>4. ScanOf(h[0]) = Fresh
  <2>1. h[0] = Blank  BY DEF Traces
  <2>2. Sound(Blank)  BY StoryBegins DEF Story
  <2>3. Blank.turn = 0 /\ Blank.step = 0 /\ Blank.calls = <<>>  BY DEF Blank
  <2>4. PendingOf(Blank) = <<>>  BY <2>2, <2>3, NothingPending
  <2> QED  BY <2>1, <2>3, <2>4 DEF ScanOf, Fresh
<1> DEFINE Step(f) ==
      [m \in 0 .. Len(events) |-> IF m = 0 THEN Fresh ELSE Observe(f[m - 1], events[m])]
           scan == CHOOSE f : f = Step(f)
<1>5. Scanned(events) = scan[N]  BY <1>1 DEF Scanned
<1>6. scan = Step(scan)
  <2> DEFINE all == [m \in 0 .. N |-> ScanOf(h[m])]
  <2>1. \A m \in 0 .. N : all[m] = IF m = 0 THEN Fresh ELSE Observe(all[m - 1], events[m])
    <3> SUFFICES ASSUME NEW m \in 0 .. N
                 PROVE  all[m] = IF m = 0 THEN Fresh ELSE Observe(all[m - 1], events[m])
      OBVIOUS
    <3>1. CASE m = 0  BY <3>1, <1>2, <1>4
    <3>2. CASE m # 0
      <4>1. m \in 1 .. N /\ m - 1 \in 0 .. N  BY <3>2, <1>2
      <4>2. all[m] = ScanOf(h[m]) /\ all[m - 1] = ScanOf(h[m - 1])  BY <4>1
      <4> HIDE DEF all
      <4> QED  BY <4>1, <4>2, <3>2, <1>3
    <3> QED  BY <3>1, <3>2
  <2>2. all = Step(all)
    <3>1. all = [m \in 0 .. N |-> all[m]]  OBVIOUS
    <3> HIDE DEF all
    <3> QED  BY <3>1, <2>1, <1>1
  <2> HIDE DEF Step, all
  <2> QED  BY <2>2
<1>7. \A m \in 0 .. N : scan[m] = ScanOf(h[m])
  <2> DEFINE S == {m \in 0 .. N : scan[m] = ScanOf(h[m])}
  <2> HIDE DEF scan
  <2>1. 0 \in S  BY <1>1, <1>2, <1>4, <1>6
  <2>2. ASSUME NEW m \in 1 .. N, m - 1 \in S PROVE m \in S
    <3>1. m \in 0 .. N /\ m # 0 /\ scan[m - 1] = ScanOf(h[m - 1])  BY <2>2, <1>2
    <3>2. scan[m] = Observe(scan[m - 1], events[m])  BY <3>1, <1>1, <1>6
    <3> QED  BY <3>1, <3>2, <1>3
  <2> HIDE DEF S
  <2>3. \A m \in 0 .. N : m \in S  BY <2>1, <2>2, <1>2, Upwards
  <2> QED  BY <2>3 DEF S
<1>8. scan[N] = ScanOf(h[N])
  <2> HIDE DEF scan
  <2> QED  BY <1>2, <1>7
<1> QED  BY <1>1, <1>5, <1>8

-----------------------------------------------------------------------------
(***************************************************************************)
(* Telling a log: from nothing, one event more, and every prefix.          *)
(***************************************************************************)
\* The account of the whole log is s.
Tells(events, s) == events \in Seq(Events) /\ \E h : Traces(h, events) /\ h[Len(events)] = s

LEMMA ToldTells ==
  ASSUME NEW events \in Seq(Events), Told(events)
  PROVE  \E s : Tells(events, s)
BY DEF Told, Tells

LEMMA TellsTold ==
  ASSUME NEW events, NEW s, Tells(events, s)
  PROVE  events \in Seq(Events) /\ Told(events)
BY DEF Told, Tells

LEMMA TellsNothing == Tells(<<>>, Blank)
<1> DEFINE h == [n \in 0 .. 0 |-> Blank]
<1>1. Blank \in Accounts
  <2>1. Sound(Blank)  BY StoryBegins DEF Story
  <2> QED  BY <2>1 DEF Sound
<1>2. <<>> \in Seq(Events) /\ Len(<<>>) = 0  BY EmptySeq
<1>3. h \in [0 .. 0 -> Accounts] /\ h[0] = Blank  BY <1>1
<1>4. \A n \in 1 .. 0 : FALSE  OBVIOUS
<1> HIDE DEF h
<1>5. Traces(h, <<>>)  BY <1>2, <1>3, <1>4 DEF Traces
<1> QED  BY <1>2, <1>3, <1>5 DEF Tells

LEMMA LegalIsEvent ==
  ASSUME NEW s, Sound(s), NEW e, Legal(s, e)
  PROVE  e \in Events
<1>1. s \in Accounts /\ 1 \in Nat  BY DEF Sound
<1>2. CASE TurnStarts(s, e)  BY <1>1, <1>2, AfterTurnStart DEF Reads
<1>3. CASE TurnEnds(s, e)  BY <1>1, <1>3, AfterTurnEnd DEF Reads
<1>4. CASE StepStarts(s, e)  BY <1>1, <1>4, AfterStepStart DEF Reads
<1>5. CASE StepEnds(s, e)  BY <1>1, <1>5, AfterStepEnd DEF Reads
<1>6. CASE Asks(s, e)  BY <1>1, <1>6, AfterMessage DEF Reads
<1>7. CASE Begins(s, e)  BY <1>1, <1>7, AfterCall DEF Reads
<1>8. CASE Gives(s, e)  BY <1>1, <1>8, AfterResult DEF Reads
<1>9. CASE Seeds(s, e)  BY <1>1, <1>9, AfterSeed DEF Reads
<1> QED  BY <1>2, <1>3, <1>4, <1>5, <1>6, <1>7, <1>8, <1>9, Kinds

LEMMA TellsWhat ==
  ASSUME NEW events, NEW s, Tells(events, s)
  PROVE  /\ events \in Seq(Events) /\ Len(events) \in Nat
         /\ Story(events, Len(events), s) /\ Sound(s)
         /\ Scanned(events) = ScanOf(s)
<1>1. PICK h : Traces(h, events) /\ h[Len(events)] = s  BY DEF Tells
<1>2. events \in Seq(Events) /\ Len(events) \in Nat  BY LenProperties DEF Tells
<1>3. Len(events) \in 0 .. Len(events)  BY <1>2
<1>4. Story(events, Len(events), s)  BY <1>1, <1>2, <1>3, StoryHolds
<1>5. Scanned(events) = ScanOf(s)  BY <1>1, <1>2, ScanTold
<1> QED  BY <1>2, <1>4, <1>5 DEF Story

LEMMA TellsAppend ==
  ASSUME NEW events, NEW s, Tells(events, s), NEW e, Legal(s, e)
  PROVE  Tells(Append(events, e), After(s, e, Len(events) + 1))
<1>1. PICK h : Traces(h, events) /\ h[Len(events)] = s  BY DEF Tells
<1>2. PICK N : N = Len(events)  OBVIOUS
<1>3. events \in Seq(Events) /\ N \in Nat /\ N + 1 \in Nat \ {0} /\ Sound(s)
  BY <1>2, TellsWhat
<1>4. PICK t : t = After(s, e, N + 1)  OBVIOUS
<1>5. t \in Accounts
  <2>1. Sound(t)  BY <1>3, <1>4, SoundStep
  <2> QED  BY <2>1 DEF Sound
<1>6. PICK more : more = Append(events, e)  OBVIOUS
<1>7. /\ more \in Seq(Events) /\ Len(more) = N + 1 /\ more[N + 1] = e
      /\ \A i \in 1 .. N : more[i] = events[i]
  <2>1. e \in Events  BY <1>3, LegalIsEvent
  <2> QED  BY <2>1, <1>2, <1>3, <1>6, AppendProperties
<1> DEFINE g == [n \in 0 .. N + 1 |-> IF n = N + 1 THEN t ELSE h[n]]
<1>8. h \in [0 .. N -> Accounts] /\ h[0] = Blank  BY <1>1, <1>2 DEF Traces
<1>9. \A n \in 0 .. N + 1 : n \in 0 .. N \/ n = N + 1  BY <1>3
<1>10. g \in [0 .. N + 1 -> Accounts]  BY <1>5, <1>8, <1>9
<1>11. g[N + 1] = t /\ g[0] = Blank /\ \A n \in 0 .. N : g[n] = h[n]  BY <1>3, <1>8
<1> HIDE DEF g
<1>12. ASSUME NEW n \in 1 .. N + 1
       PROVE  Legal(g[n - 1], more[n]) /\ g[n] = After(g[n - 1], more[n], n)
  <2>1. CASE n = N + 1
    <3>1. n - 1 = N /\ N \in 0 .. N  BY <2>1, <1>3
    <3>2. g[n - 1] = s  BY <3>1, <1>1, <1>2, <1>11
    <3> QED  BY <3>2, <2>1, <1>4, <1>7, <1>11
  <2>2. CASE n \in 1 .. N
    <3>1. n \in 0 .. N /\ n - 1 \in 0 .. N  BY <2>2, <1>3
    <3>2. g[n - 1] = h[n - 1] /\ g[n] = h[n] /\ more[n] = events[n]
      BY <3>1, <2>2, <1>7, <1>11
    <3> QED  BY <3>2, <2>2, <1>1, <1>2 DEF Traces
  <2> QED  BY <2>1, <2>2, <1>3
<1>13. Traces(g, more)  BY <1>7, <1>10, <1>11, <1>12 DEF Traces
<1> QED  BY <1>2, <1>4, <1>6, <1>7, <1>11, <1>13 DEF Tells

LEMMA CutFields ==
  ASSUME NEW S, NEW seq \in Seq(S), NEW k \in 0 .. Len(seq)
  PROVE  /\ SubSeq(seq, 1, k) \in Seq(S) /\ Len(SubSeq(seq, 1, k)) = k
         /\ \A i \in 1 .. k : SubSeq(seq, 1, k)[i] = seq[i]
<1>1. Len(seq) \in Nat /\ k \in Nat /\ 1 \in Int /\ k \in Int  BY LenProperties
<1>2. \A i \in 1 .. k : i \in 1 .. Len(seq)  BY <1>1
<1>3. \A i \in 1 .. k : seq[i] \in S  BY <1>2, ElementOfSeq
<1>4. PICK cut : cut = SubSeq(seq, 1, k)  OBVIOUS
<1>5. /\ cut \in Seq(S) /\ Len(cut) = (IF 1 <= k THEN k - 1 + 1 ELSE 0)
      /\ \A i \in 1 .. k - 1 + 1 : cut[i] = seq[1 + i - 1]
  BY <1>1, <1>3, <1>4, SubSeqProperties
<1>6. k - 1 + 1 = k /\ (~ 1 <= k => k = 0) /\ \A i \in 1 .. k : 1 + i - 1 = i  BY <1>1
<1> QED  BY <1>4, <1>5, <1>6

LEMMA ToldPrefix ==
  ASSUME NEW events \in Seq(Events), Told(events), NEW k \in 0 .. Len(events)
  PROVE  /\ SubSeq(events, 1, k) \in Seq(Events) /\ Told(SubSeq(events, 1, k))
         /\ Len(SubSeq(events, 1, k)) = k
         /\ \A i \in 1 .. k : SubSeq(events, 1, k)[i] = events[i]
<1>1. PICK h : Traces(h, events)  BY DEF Told
<1>2. Len(events) \in Nat /\ k \in Nat  BY LenProperties
<1>3. PICK cut : cut = SubSeq(events, 1, k)  OBVIOUS
<1>4. /\ cut \in Seq(Events) /\ Len(cut) = k
      /\ \A i \in 1 .. k : cut[i] = events[i]
  BY <1>2, <1>3, CutFields
<1> DEFINE g == [n \in 0 .. k |-> h[n]]
<1>5. \A n \in 0 .. k : n \in 0 .. Len(events)  BY <1>2
<1>6. g \in [0 .. k -> Accounts] /\ g[0] = Blank /\ \A n \in 0 .. k : g[n] = h[n]
  BY <1>1, <1>2, <1>5 DEF Traces
<1> HIDE DEF g
<1>7. ASSUME NEW n \in 1 .. k
      PROVE  Legal(g[n - 1], cut[n]) /\ g[n] = After(g[n - 1], cut[n], n)
  <2>1. n \in 0 .. k /\ n - 1 \in 0 .. k /\ n \in 1 .. Len(events)  BY <1>2
  <2>2. g[n - 1] = h[n - 1] /\ g[n] = h[n] /\ cut[n] = events[n]  BY <2>1, <1>4, <1>6
  <2> QED  BY <2>1, <2>2, <1>1 DEF Traces
<1>8. Traces(g, cut)  BY <1>4, <1>6, <1>7 DEF Traces
<1> QED  BY <1>3, <1>4, <1>8 DEF Told

-----------------------------------------------------------------------------
(***************************************************************************)
(* Closers: the first closer of a told log is an event the order allows,   *)
(* and the log with it has the other closers.                              *)
(***************************************************************************)
ClosingOf(s, cause) ==
  IF s.turn = 0 THEN <<>>
  ELSE RecoveryResults(PendingOf(s))
       \o (IF s.step = 0 THEN <<>> ELSE <<Event("step/end", s.turn, s.step)>>)
       \o <<TurnEnd(s.turn, cause)>>

LEMMA ClosersTold ==
  ASSUME NEW events, NEW s, Tells(events, s), NEW cause
  PROVE  Closers(events, cause) = ClosingOf(s, cause)
<1>1. Scanned(events) = ScanOf(s)  BY TellsWhat
<1>2. ScanOf(s).turn = s.turn /\ ScanOf(s).step = s.step /\ ScanOf(s).pending = PendingOf(s)
  BY DEF ScanOf
<1> QED  BY <1>1, <1>2 DEF Closers, ClosingOf

\* The recovery result of the k-th call without a result.
Recovered(s, k) ==
  Result(s.turn, s.step, s.calls[Len(s.given) + k],
         IF s.calls[Len(s.given) + k] \in s.begun THEN "outcome-unknown" ELSE "not-started")

LEMMA RecoveryFields ==
  ASSUME NEW s, Sound(s)
  PROVE  /\ RecoveryResults(PendingOf(s)) \in Seq(Events)
         /\ Len(RecoveryResults(PendingOf(s))) = Len(s.calls) - Len(s.given)
         /\ RecoveryResults(PendingOf(s))
              = [k \in 1 .. Len(s.calls) - Len(s.given) |-> Recovered(s, k)]
<1>1. PICK d : d = Len(s.calls) - Len(s.given)  OBVIOUS
<1>2. d \in Nat  BY <1>1, Measures
<1>3. /\ PendingOf(s) = [k \in 1 .. d |-> Waiting(s, k)] /\ Len(PendingOf(s)) = d
  BY <1>1, PendingIsSeq
<1>4. \A k \in 1 .. d : PendingOf(s)[k] = Waiting(s, k)  BY <1>3
<1>5. \A k \in 1 .. d :
        Result(Waiting(s, k).turn, Waiting(s, k).step, Waiting(s, k).id,
               RecoveryCode(Waiting(s, k))) = Recovered(s, k)
  BY WaitingFields DEF Recovered, RecoveryCode
<1>6. RecoveryResults(PendingOf(s)) = [k \in 1 .. d |-> Recovered(s, k)]
  BY <1>3, <1>4, <1>5 DEF RecoveryResults
<1>7. ASSUME NEW k \in 1 .. d PROVE Recovered(s, k) \in Events
  <2>1. Len(s.given) + k \in 1 .. Len(s.calls)  BY <1>1, <1>2, Measures
  <2>2. s.calls[Len(s.given) + k] \in Ids /\ s.turn \in Nat /\ s.step \in Nat
    BY <2>1, Measures
  <2>3. \A code \in {"outcome-unknown", "not-started"} :
          Result(s.turn, s.step, s.calls[Len(s.given) + k], code) \in Events
    <3> SUFFICES ASSUME NEW code \in {"outcome-unknown", "not-started"}
                 PROVE  Result(s.turn, s.step, s.calls[Len(s.given) + k], code) \in Events
      OBVIOUS
    <3>1. code \in Codes /\ "tool/result" \in Types /\ <<>> \in Seq(Ids)
      BY EmptySeq DEF Codes, Types
    <3> PICK id \in Ids : id = s.calls[Len(s.given) + k]  BY <2>2
    <3>2. Reads(Logged("tool/result", s.turn, s.step, id, <<>>, code), "tool/result", s.turn,
                s.step, id, <<>>, code)
      BY <2>2, <3>1, LoggedReads
    <3> QED  BY <3>2 DEF Result, Reads
  <2> QED  BY <2>3 DEF Recovered
<1>8. RecoveryResults(PendingOf(s)) \in Seq(Events)
  <2>1. RecoveryResults(PendingOf(s)) \in [1 .. d -> Events]  BY <1>6, <1>7
  <2> QED  BY <2>1, <1>2, SeqDef
<1>9. Len(RecoveryResults(PendingOf(s))) = d
  <2>1. DOMAIN RecoveryResults(PendingOf(s)) = 1 .. d  BY <1>6
  <2> QED  BY <2>1, <1>2, <1>8, LenOfDomain
<1> QED  BY <1>1, <1>6, <1>8, <1>9

\* The first event of a longer sequence, and the rest of it.
LEMMA FirstOfConcat ==
  ASSUME NEW S, NEW a \in Seq(S), NEW b \in Seq(S), a # <<>>
  PROVE  (a \o b)[1] = a[1] /\ Tail(a \o b) = Tail(a) \o b /\ a \o b # <<>>
<1>1. Len(a) \in Nat \ {0} /\ Len(b) \in Nat  BY EmptySeq, LenProperties
<1>2. PICK c : c = a \o b  OBVIOUS
<1>3. /\ c \in Seq(S) /\ Len(c) = Len(a) + Len(b)
      /\ \A i \in 1 .. Len(a) + Len(b) : c[i] = IF i <= Len(a) THEN a[i] ELSE b[i - Len(a)]
  BY <1>2, ConcatProperties
<1>4. c # <<>>  BY <1>1, <1>3, EmptySeq
<1>5. c[1] = a[1]
  <2>1. 1 \in 1 .. Len(a) + Len(b) /\ 1 <= Len(a)  BY <1>1
  <2> QED  BY <2>1, <1>3
<1>6. /\ Tail(a) \in Seq(S) /\ Len(Tail(a)) = Len(a) - 1
      /\ \A i \in 1 .. Len(Tail(a)) : Tail(a)[i] = a[i + 1]
  BY HeadTailProperties
<1>7. /\ Tail(c) \in Seq(S) /\ Len(Tail(c)) = Len(c) - 1
      /\ \A i \in 1 .. Len(Tail(c)) : Tail(c)[i] = c[i + 1]
  BY <1>3, <1>4, HeadTailProperties
<1>8. PICK t : t = Tail(a) \o b  OBVIOUS
<1>9. /\ t \in Seq(S) /\ Len(t) = Len(Tail(a)) + Len(b)
      /\ \A i \in 1 .. Len(Tail(a)) + Len(b) :
           t[i] = IF i <= Len(Tail(a)) THEN Tail(a)[i] ELSE b[i - Len(Tail(a))]
  BY <1>6, <1>8, ConcatProperties
<1>10. Len(Tail(c)) = Len(t)  BY <1>1, <1>3, <1>6, <1>7, <1>9
<1>11. ASSUME NEW i \in 1 .. Len(Tail(c)) PROVE Tail(c)[i] = t[i]
  <2>1. /\ i \in Nat /\ i + 1 \in 1 .. Len(a) + Len(b) /\ i \in 1 .. Len(Tail(a)) + Len(b)
        /\ (i + 1) - Len(a) = i - Len(Tail(a)) /\ (i + 1 <= Len(a) <=> i <= Len(Tail(a)))
    BY <1>1, <1>3, <1>6, <1>7
  <2>2. Tail(c)[i] = c[i + 1]  BY <1>7
  <2>3. CASE i <= Len(Tail(a))
    <3>1. i \in 1 .. Len(Tail(a))  BY <2>1, <2>3, <1>1, <1>6
    <3> QED  BY <3>1, <2>1, <2>2, <2>3, <1>3, <1>6, <1>9
  <2>4. CASE ~ i <= Len(Tail(a))
    BY <2>1, <2>2, <2>4, <1>3, <1>9
  <2> QED  BY <2>3, <2>4
<1>12. Tail(c) = t  BY <1>7, <1>9, <1>10, <1>11, SeqEqual
<1> QED  BY <1>2, <1>4, <1>5, <1>8, <1>12

LEMMA FirstOfOne ==
  ASSUME NEW S, NEW x \in S
  PROVE  /\ <<x>> \in Seq(S) /\ <<x>> # <<>> /\ <<x>>[1] = x /\ Len(<<x>>) = 1
         /\ Tail(<<x>>) = <<>>
<1>1. <<x>> \in Seq(S) /\ <<x>> # <<>> /\ <<x>>[1] = x /\ Len(<<x>>) = 1  OBVIOUS
<1>2. Tail(<<x>>) \in Seq(S) /\ Len(Tail(<<x>>)) = 0  BY <1>1, HeadTailProperties
<1> QED  BY <1>1, <1>2, EmptySeq

LEMMA AfterResultPending ==
  ASSUME NEW s, Sound(s), NEW e, Gives(s, e), NEW n \in Nat \ {0}
  PROVE  LET r == After(s, e, n) IN
         /\ Sound(r) /\ r.turn = s.turn /\ r.step = s.step
         /\ RecoveryResults(PendingOf(s)) # <<>>
         /\ RecoveryResults(PendingOf(r)) = Tail(RecoveryResults(PendingOf(s)))
<1>1. PICK r : r = After(s, e, n)  OBVIOUS
<1>2. s \in Accounts /\ Legal(s, e)  BY DEF Sound, Legal
<1>3. Sound(r)  BY <1>1, <1>2, SoundStep
<1>4. /\ Len(s.given) + 1 \in 1 .. Len(s.calls)
      /\ Becomes(r, s.turn, s.step, s.turns, s.steps, s.last, s.asked, s.calls,
                 Append(s.given, n), s.begun)
  BY <1>1, <1>2, AfterResult
<1>5. /\ r.turn = s.turn /\ r.step = s.step /\ r.calls = s.calls
      /\ r.given = Append(s.given, n) /\ r.begun = s.begun
  BY <1>4 DEF Becomes
<1>6. Len(r.given) = Len(s.given) + 1
  <2>1. s.given \in Seq(Nat)  BY Measures
  <2> QED  BY <2>1, <1>5, AppendProperties
<1>7. PICK d : d = Len(s.calls) - Len(s.given)  OBVIOUS
<1>8. d \in Nat \ {0} /\ Len(r.calls) - Len(r.given) = d - 1
  BY <1>4, <1>5, <1>6, <1>7, Measures
<1>9. PICK p : p = RecoveryResults(PendingOf(s))  OBVIOUS
<1>10. PICK q : q = RecoveryResults(PendingOf(r))  OBVIOUS
<1>11. p \in Seq(Events) /\ Len(p) = d /\ p = [k \in 1 .. d |-> Recovered(s, k)]
  BY <1>7, <1>9, RecoveryFields
<1>12. q \in Seq(Events) /\ Len(q) = d - 1 /\ q = [k \in 1 .. d - 1 |-> Recovered(r, k)]
  BY <1>3, <1>8, <1>10, RecoveryFields
<1>13. p # <<>>  BY <1>8, <1>11, EmptySeq
<1>14. Tail(p) \in Seq(Events) /\ Len(Tail(p)) = d - 1
       /\ \A k \in 1 .. d - 1 : Tail(p)[k] = p[k + 1]
  BY <1>11, <1>13, HeadTailProperties
<1>15. ASSUME NEW k \in 1 .. d - 1 PROVE q[k] = Tail(p)[k]
  <2>1. Len(s.given) \in Nat /\ d \in Nat /\ k \in Nat  BY <1>8, Measures
  <2>2. k + 1 \in 1 .. d  BY <2>1
  <2>3. \A a, b \in Nat : (a + 1) + b = a + (b + 1)  OBVIOUS
  <2>4. Len(r.given) + k = Len(s.given) + (k + 1)  BY <2>1, <2>3, <1>6
  <2>5. p[k + 1] = Recovered(s, k + 1) /\ q[k] = Recovered(r, k)  BY <2>2, <1>11, <1>12
  <2>6. Recovered(r, k) = Recovered(s, k + 1)  BY <2>4, <1>5 DEF Recovered
  <2> QED  BY <2>5, <2>6, <1>14
<1>16. q = Tail(p)  BY <1>12, <1>14, <1>15, SeqEqual
<1> QED  BY <1>1, <1>3, <1>5, <1>9, <1>10, <1>13, <1>16

\* Closing an account in the way of openTurnClosers() is writing on in the loop's order.
LEMMA FirstCloser ==
  ASSUME NEW s, Sound(s), s.turn # 0, NEW cause \in {"interrupted", "forked"},
         NEW n \in Nat \ {0}
  PROVE  LET closing == ClosingOf(s, cause) IN
         /\ closing \in Seq(Events) /\ closing # <<>>
         /\ Legal(s, closing[1])
         /\ ClosingOf(After(s, closing[1], n), cause) = Tail(closing)
<1>1. PICK closing : closing = ClosingOf(s, cause)  OBVIOUS
<1>2. PICK results : results = RecoveryResults(PendingOf(s))  OBVIOUS
<1>3. PICK ends : ends = <<TurnEnd(s.turn, cause)>>  OBVIOUS
<1>4. PICK stops : stops = IF s.step = 0 THEN <<>> ELSE <<Event("step/end", s.turn, s.step)>>
  OBVIOUS
<1>5. closing = results \o stops \o ends  BY <1>1, <1>2, <1>3, <1>4 DEF ClosingOf
<1>6. s \in Accounts /\ s.turn \in Nat /\ s.step \in Nat  BY Measures DEF Sound
<1>7. TurnEnd(s.turn, cause) \in Events
  <2>1. cause \in Codes /\ "turn/end" \in Types /\ <<>> \in Seq(Ids)
    BY EmptySeq DEF Codes, Types
  <2> QED  BY <2>1, <1>6, LoggedReads DEF TurnEnd, Reads
<1>8. Event("step/end", s.turn, s.step) \in Events
  <2>1. "none" \in Codes /\ "step/end" \in Types /\ <<>> \in Seq(Ids)
    BY EmptySeq DEF Codes, Types
  <2> QED  BY <2>1, <1>6, LoggedReads DEF Event, Reads
<1>9. results \in Seq(Events) /\ stops \in Seq(Events) /\ ends \in Seq(Events)
  BY <1>2, <1>3, <1>4, <1>7, <1>8, RecoveryFields, EmptySeq, FirstOfOne
<1>10. results \o (stops \o ends) = closing /\ stops \o ends \in Seq(Events)
  <2>1. (results \o stops) \o ends = results \o (stops \o ends)
    BY <1>9, ConcatAssociative
  <2>2. stops \o ends \in Seq(Events)  BY <1>9, ConcatProperties
  <2> QED  BY <2>1, <2>2, <1>5
<1>11. closing \in Seq(Events)  BY <1>9, <1>10, ConcatProperties
<1>12. CASE results # <<>>
  <2>1. closing[1] = results[1] /\ Tail(closing) = Tail(results) \o (stops \o ends)
        /\ closing # <<>>
    BY <1>9, <1>10, <1>12, FirstOfConcat
  <2>2. PICK d : d = Len(s.calls) - Len(s.given)  OBVIOUS
  <2>3. Len(results) = d /\ results = [k \in 1 .. d |-> Recovered(s, k)]
    BY <2>2, <1>2, RecoveryFields
  <2>4. d \in Nat \ {0}
    <3>1. Len(results) \in Nat \ {0}  BY <1>9, <1>12, EmptySeq
    <3> QED  BY <3>1, <2>3
  <2>5. closing[1] = Recovered(s, 1)
    <3>1. 1 \in 1 .. d  BY <2>4
    <3> QED  BY <3>1, <2>1, <2>3
  <2>6. s.step # 0
    <3>1. s.calls # <<>>
      <4>1. Len(s.calls) # 0  BY <2>2, <2>4, Measures
      <4> QED  BY <4>1, EmptySeq
    <3> QED  BY <3>1 DEF Sound
  <2>7. Len(s.given) < Len(s.calls)  BY <2>2, <2>4, Measures
  <2>8. Gives(s, closing[1])
    <3> DEFINE code == IF s.calls[Len(s.given) + 1] \in s.begun THEN "outcome-unknown"
                       ELSE "not-started"
    <3>1. code \in Truth(s, s.calls[Len(s.given) + 1])  BY DEF Truth
    <3>2. closing[1] = Result(s.turn, s.step, s.calls[Len(s.given) + 1], code)
      BY <2>5 DEF Recovered
    <3> HIDE DEF code
    <3> QED  BY <3>1, <3>2, <2>6, <2>7 DEF Gives
  <2>9. PICK r : r = After(s, closing[1], n)  OBVIOUS
  <2>10. /\ Sound(r) /\ r.turn = s.turn /\ r.step = s.step
         /\ RecoveryResults(PendingOf(r)) = Tail(results)
    BY <2>8, <2>9, <1>2, AfterResultPending
  <2>11. ClosingOf(r, cause) = Tail(results) \o stops \o ends
    BY <2>10, <1>3, <1>4 DEF ClosingOf
  <2>12. Tail(results) \in Seq(Events)  BY <1>9, <1>12, HeadTailProperties
  <2>13. Tail(results) \o stops \o ends = Tail(results) \o (stops \o ends)
    BY <2>12, <1>9, ConcatAssociative
  <2>14. Legal(s, closing[1])  BY <2>8 DEF Legal
  <2> QED  BY <2>1, <2>9, <2>11, <2>13, <2>14, <1>1, <1>11
<1>13. ASSUME results = <<>> PROVE Len(s.given) = Len(s.calls)
  <2>1. Len(results) = 0  BY <1>13, EmptySeq
  <2>2. Len(s.calls) - Len(s.given) = 0  BY <2>1, <1>2, RecoveryFields
  <2>3. Len(s.calls) \in Nat /\ Len(s.given) \in Nat  BY Measures
  <2> QED  BY <2>2, <2>3
<1>14. RecoveryResults(<<>>) = <<>>
  <2>1. Len(<<>>) = 0  BY EmptySeq
  <2>2. RecoveryResults(<<>>) = [i \in 1 .. 0 |-> RecoveryResults(<<>>)[i]]
    BY <2>1 DEF RecoveryResults
  <2>3. \A i \in 1 .. 0 : RecoveryResults(<<>>)[i] \in Events  OBVIOUS
  <2>4. RecoveryResults(<<>>) \in [1 .. 0 -> Events]  BY <2>2, <2>3
  <2>5. RecoveryResults(<<>>) \in Seq(Events)  BY <2>4, SeqDef
  <2>6. DOMAIN RecoveryResults(<<>>) = 1 .. 0  BY <2>4
  <2>7. Len(RecoveryResults(<<>>)) = 0  BY <2>5, <2>6, LenOfDomain
  <2> QED  BY <2>5, <2>7, EmptySeq
<1>15. CASE results = <<>> /\ s.step # 0
  <2>1. closing = stops \o ends  BY <1>9, <1>10, <1>15, ConcatEmptySeq
  <2>2. PICK e : e = Event("step/end", s.turn, s.step)  OBVIOUS
  <2>3. stops = <<e>> /\ e \in Events  BY <2>2, <1>4, <1>8, <1>15
  <2>4. stops # <<>> /\ stops[1] = e /\ Tail(stops) = <<>>  BY <2>3, FirstOfOne
  <2>5. closing[1] = e /\ Tail(closing) = <<>> \o ends /\ closing # <<>>
    <3>1. stops # <<>>  BY <2>4
    <3>2. (stops \o ends)[1] = stops[1] /\ Tail(stops \o ends) = Tail(stops) \o ends
          /\ stops \o ends # <<>>
      BY <3>1, <1>9, FirstOfConcat
    <3> QED  BY <3>2, <2>1, <2>4
  <2>6. Tail(closing) = ends  BY <2>5, <1>9, ConcatEmptySeq
  <2>7. StepEnds(s, e)  BY <2>2, <1>13, <1>15 DEF StepEnds
  <2>8. Legal(s, e)  BY <2>7 DEF Legal
  <2>9. PICK r : r = After(s, e, n)  OBVIOUS
  <2>10. r.turn = s.turn /\ r.step = 0 /\ r.calls = <<>>
    BY <2>7, <2>9, <1>6, AfterStepEnd DEF Becomes
  <2>11. Sound(r)  BY <2>8, <2>9, SoundStep
  <2>12. PendingOf(r) = <<>>  BY <2>10, <2>11, NothingPending
  <2>13. ClosingOf(r, cause) = <<>> \o <<>> \o ends  BY <2>10, <2>12, <1>3, <1>14 DEF ClosingOf
  <2>14. <<>> \o <<>> \o ends = ends
    <3>1. <<>> \in Seq(Events)  BY EmptySeq
    <3>2. <<>> \o <<>> = <<>>  BY <3>1, ConcatEmptySeq
    <3> QED  BY <3>2, <1>9, ConcatEmptySeq
  <2> QED  BY <2>5, <2>6, <2>8, <2>9, <2>13, <2>14, <1>1, <1>11
<1>16. CASE results = <<>> /\ s.step = 0
  <2>1. stops = <<>>  BY <1>4, <1>16
  <2>2. closing = ends
    <3>1. <<>> \in Seq(Events)  BY EmptySeq
    <3>2. <<>> \o <<>> = <<>>  BY <3>1, ConcatEmptySeq
    <3> QED  BY <3>2, <2>1, <1>5, <1>9, <1>16, ConcatEmptySeq
  <2>3. PICK e : e = TurnEnd(s.turn, cause)  OBVIOUS
  <2>4. closing # <<>> /\ closing[1] = e /\ Tail(closing) = <<>>
    BY <2>2, <2>3, <1>3, <1>7, FirstOfOne
  <2>5. TurnEnds(s, e)  BY <2>3, <1>16 DEF TurnEnds
  <2>6. Legal(s, e)  BY <2>5 DEF Legal
  <2>7. After(s, e, n).turn = 0  BY <2>5, <1>6, AfterTurnEnd DEF Becomes
  <2>8. ClosingOf(After(s, e, n), cause) = <<>>  BY <2>7 DEF ClosingOf
  <2> QED  BY <2>4, <2>6, <2>8, <1>1, <1>11
<1> QED  BY <1>12, <1>15, <1>16

\* Every part of the closers is told, and leaves the rest of them to write.
LEMMA Closing ==
  ASSUME NEW events \in Seq(Events), Told(events), NEW cause \in {"interrupted", "forked"}
  PROVE  LET closers == Closers(events, cause) IN
         /\ closers \in Seq(Events)
         /\ \A k \in 0 .. Len(closers) :
              LET partial == events \o SubSeq(closers, 1, k) IN
              /\ partial \in Seq(Events) /\ Told(partial)
              /\ Closers(partial, cause) = SubSeq(closers, k + 1, Len(closers))
<1>1. PICK closers : closers = Closers(events, cause)  OBVIOUS
<1>2. PICK first : Tells(events, first)  BY ToldTells
<1>3. closers = ClosingOf(first, cause) /\ Sound(first)  BY <1>1, <1>2, ClosersTold, TellsWhat
<1>4. closers \in Seq(Events)
  <2>1. CASE first.turn = 0  BY <2>1, <1>3, EmptySeq DEF ClosingOf
  <2>2. CASE first.turn # 0
    <3>1. 1 \in Nat \ {0}  OBVIOUS
    <3> QED  BY <3>1, <2>2, <1>3, FirstCloser
  <2> QED  BY <2>1, <2>2
<1>5. PICK N : N = Len(closers)  OBVIOUS
<1>6. N \in Nat  BY <1>4, <1>5, LenProperties
<1> DEFINE Part(k) == events \o SubSeq(closers, 1, k)
           Rest(k) == SubSeq(closers, k + 1, N)
           S == {k \in 0 .. N : \E s : Tells(Part(k), s) /\ ClosingOf(s, cause) = Rest(k)}
<1>7. 0 \in S
  <2>1. SubSeq(closers, 1, 0) = <<>>  BY SubSeqEmpty
  <2>2. Part(0) = events  BY <2>1, ConcatEmptySeq
  <2>3. Rest(0) = closers
    <3>1. 0 + 1 = 1  OBVIOUS
    <3> QED  BY <3>1, <1>4, <1>5, SubSeqFull
  <2>4. 0 \in 0 .. N  BY <1>6
  <2> HIDE DEF Part, Rest
  <2> QED  BY <2>2, <2>3, <2>4, <1>2, <1>3
<1>8. ASSUME NEW k \in 1 .. N, k - 1 \in S PROVE k \in S
  <2>1. k - 1 \in 0 .. N /\ k \in 0 .. N /\ k \in Nat /\ (k - 1) + 1 = k  BY <1>6
  <2>2. PICK s : Tells(Part(k - 1), s) /\ ClosingOf(s, cause) = Rest(k - 1)  BY <1>8
  <2>3. PICK part : part = Part(k - 1)  OBVIOUS
  <2>4. PICK rest : rest = Rest(k - 1)  OBVIOUS
  <2>5. rest = SubSeq(closers, k, N)  BY <2>1, <2>4
  <2>6. Tells(part, s) /\ ClosingOf(s, cause) = rest  BY <2>2, <2>3, <2>4
  <2>7. part \in Seq(Events) /\ Len(part) \in Nat /\ Sound(s)  BY <2>6, TellsWhat
  <2>8. k \in 1 .. Len(closers) /\ N \in k .. Len(closers)  BY <1>5, <1>6
  <2>9. Head(rest) = closers[k] /\ Tail(rest) = SubSeq(closers, k + 1, N)
    BY <2>5, <2>8, <1>4, HeadTailOfSubSeq
  <2>10. rest # <<>> /\ rest[1] = closers[k]
    <3>1. rest = <<closers[k]>> \o SubSeq(closers, k + 1, N)
      BY <2>5, <2>8, <1>4, SubSeqRecursiveFirst
    <3>2. closers[k] \in Events  BY <2>8, <1>4, ElementOfSeq
    <3>3. SubSeq(closers, k + 1, N) \in Seq(Events)
      <4>1. \A i \in k + 1 .. N : i \in 1 .. Len(closers)  BY <2>1, <1>5, <1>6
      <4>2. \A i \in k + 1 .. N : closers[i] \in Events  BY <4>1, <1>4, ElementOfSeq
      <4>3. k + 1 \in Int /\ N \in Int  BY <2>1, <1>6
      <4> QED  BY <4>2, <4>3, SubSeqProperties
    <3> QED  BY <3>1, <3>2, <3>3, FirstOfConcat, FirstOfOne
  <2>11. s.turn # 0  BY <2>6, <2>10 DEF ClosingOf
  <2>12. Len(part) + 1 \in Nat \ {0}  BY <2>7
  <2>13. PICK t : t = After(s, closers[k], Len(part) + 1)  OBVIOUS
  <2>14. Legal(s, closers[k]) /\ ClosingOf(t, cause) = Tail(rest)
    BY <2>6, <2>7, <2>10, <2>11, <2>12, <2>13, FirstCloser
  <2>15. Tells(Append(part, closers[k]), t)  BY <2>6, <2>13, <2>14, TellsAppend
  <2>16. Append(part, closers[k]) = Part(k)
    <3>1. SubSeq(closers, 1, k) = SubSeq(closers, 1, k - 1) \o <<closers[k]>>
      <4>1. 1 \in 1 .. Len(closers) /\ k \in 1 .. Len(closers)  BY <2>8
      <4> QED  BY <4>1, <1>4, SubSeqRecursiveSecond
    <3>2. closers[k] \in Events  BY <2>8, <1>4, ElementOfSeq
    <3>3. SubSeq(closers, 1, k - 1) \in Seq(Events)
      BY <2>1, <1>4, <1>5, CutFields
    <3>4. <<closers[k]>> \in Seq(Events)  BY <3>2, FirstOfOne
    <3>5. part = events \o SubSeq(closers, 1, k - 1)  BY <2>3
    <3>6. Append(part, closers[k]) = part \o <<closers[k]>>  BY <2>7, <3>2, AppendIsConcat
    <3>7. part \o <<closers[k]>> = events \o (SubSeq(closers, 1, k - 1) \o <<closers[k]>>)
      <4>1. (events \o SubSeq(closers, 1, k - 1)) \o <<closers[k]>>
              = events \o (SubSeq(closers, 1, k - 1) \o <<closers[k]>>)
        <5>1. PICK u \in Seq(Events) : u = SubSeq(closers, 1, k - 1)  BY <3>3
        <5>2. PICK v \in Seq(Events) : v = <<closers[k]>>  BY <3>4
        <5>3. (events \o u) \o v = events \o (u \o v)  BY ConcatAssociative
        <5> QED  BY <5>1, <5>2, <5>3
      <4> QED  BY <4>1, <3>5
    <3> QED  BY <3>1, <3>6, <3>7
  <2>17. Tail(rest) = Rest(k)  BY <2>9
  <2> HIDE DEF Part, Rest
  <2> QED  BY <2>1, <2>14, <2>15, <2>16, <2>17
<1> HIDE DEF S
<1>9. \A k \in 0 .. N : k \in S  BY <1>6, <1>7, <1>8, Upwards
<1>10. ASSUME NEW k \in 0 .. N
       PROVE  /\ Part(k) \in Seq(Events) /\ Told(Part(k))
              /\ Closers(Part(k), cause) = Rest(k)
  <2>1. PICK s : Tells(Part(k), s) /\ ClosingOf(s, cause) = Rest(k)  BY <1>9 DEF S
  <2> HIDE DEF Part, Rest
  <2> QED  BY <2>1, TellsTold, ClosersTold
<1> QED  BY <1>1, <1>4, <1>5, <1>10

-----------------------------------------------------------------------------
(***************************************************************************)
(* What the story of a closed log says of it, and the properties.          *)
(***************************************************************************)
LEMMA ClosedIsWellFormed ==
  ASSUME NEW events, NEW s, Tells(events, s), s.turn = 0
  PROVE  WellFormed(events)
<1>1. PICK N : N = Len(events)  OBVIOUS
<1>2. events \in Seq(Events) /\ N \in Nat /\ Story(events, N, s) /\ Sound(s)
  BY <1>1, TellsWhat
<1>3. s.step = 0  BY <1>2 DEF Sound
<1>4. LastBoundary(events, N, s) /\ Chained(events, N) /\ Settled(events, N, s)
  BY <1>2 DEF Story
<1> DEFINE at == {i \in 1 .. Len(events) : events[i].type \in Boundaries}
<1>5. \A i : i \in at <=> i \in 1 .. N /\ IsBoundary(events, i)  BY <1>1 DEF IsBoundary
<1> HIDE DEF at
<1>6. ASSUME NEW i \in at, \A j \in at : i <= j PROVE events[i].type = "turn/start"
  <2>1. i \in 1 .. N /\ IsBoundary(events, i)  BY <1>5
  <2>2. ASSUME NEW j \in 1 .. i - 1 PROVE ~IsBoundary(events, j)
    <3>1. j \in 1 .. N /\ ~ i <= j  BY <2>1, <1>2
    <3> QED  BY <3>1, <1>5, <1>6
  <2> QED  BY <2>1, <2>2, <1>4 DEF Chained
<1>7. ASSUME NEW i \in at, \A j \in at : j <= i PROVE events[i].type = "turn/end"
  <2>1. i \in 1 .. N /\ IsBoundary(events, i)  BY <1>5
  <2>2. s.last \in 0 .. N /\ \A j \in s.last + 1 .. N : ~IsBoundary(events, j)
    BY <1>4 DEF LastBoundary
  <2>3. i <= s.last
    <3>1. i \notin s.last + 1 .. N  BY <2>1, <2>2
    <3> QED  BY <3>1, <2>1, <2>2, <1>2
  <2>4. s.last # 0 /\ s.last \in 1 .. N  BY <2>1, <2>2, <2>3, <1>2
  <2>5. events[s.last].type = "turn/end"  BY <2>4, <1>3, <1>4 DEF LastBoundary
  <2>6. s.last \in at  BY <2>4, <2>5, <1>5 DEF IsBoundary, Boundaries
  <2>7. s.last <= i  BY <2>6, <1>7
  <2>8. i = s.last  BY <2>1, <2>3, <2>4, <2>7
  <2> QED  BY <2>5, <2>8
<1>8. ASSUME NEW i \in at, NEW j \in at, i < j, \A k \in at : k <= i \/ j <= k
      PROVE  Follows(events[i], events[j])
  <2>1. i \in 1 .. N /\ IsBoundary(events, i) /\ j \in 1 .. N /\ IsBoundary(events, j)
    BY <1>5
  <2>2. ASSUME NEW k \in i + 1 .. j - 1 PROVE ~IsBoundary(events, k)
    <3>1. k \in 1 .. N /\ ~ k <= i /\ ~ j <= k  BY <2>1, <1>2
    <3> QED  BY <3>1, <1>5, <1>8
  <2> QED  BY <2>1, <2>2, <1>4, <1>8 DEF Chained
<1>9. Balanced(events)  BY <1>6, <1>7, <1>8 DEF Balanced, at
<1>10. ASSUME NEW i \in 1 .. Len(events), events[i].type = "step/start"
       PROVE  Answered(events, events[i])
  <2>1. AnsweredBy(events, N, events[i].turn, events[i].step)
    BY <1>1, <1>3, <1>4, <1>10 DEF Settled
  <2> QED  BY <2>1, <1>1 DEF AnsweredBy, Answered, InStep, Within
<1> QED  BY <1>9, <1>10 DEF WellFormed

LEMMA NoClosers ==
  ASSUME NEW events, NEW s, Tells(events, s), NEW cause \in {"interrupted", "forked"},
         Closers(events, cause) = <<>>
  PROVE  s.turn = 0
<1>1. Sound(s) /\ ClosingOf(s, cause) = <<>>  BY TellsWhat, ClosersTold
<1>2. 1 \in Nat \ {0}  OBVIOUS
<1> QED  BY <1>1, <1>2, FirstCloser

\* A told log with its closers.
LEMMA Completed ==
  ASSUME NEW events \in Seq(Events), Told(events), NEW cause \in {"interrupted", "forked"}
  PROVE  LET done == events \o Closers(events, cause) IN
         done \in Seq(Events) /\ Told(done) /\ WellFormed(done) /\ Closers(done, cause) = <<>>
<1>1. PICK closers : closers = Closers(events, cause)  OBVIOUS
<1>2. PICK N : N = Len(closers)  OBVIOUS
<1>3. /\ closers \in Seq(Events)
      /\ \A k \in 0 .. N :
           LET partial == events \o SubSeq(closers, 1, k) IN
           /\ partial \in Seq(Events) /\ Told(partial)
           /\ Closers(partial, cause) = SubSeq(closers, k + 1, N)
  BY <1>1, <1>2, Closing
<1>4. N \in Nat /\ N \in 0 .. N  BY <1>2, <1>3, LenProperties
<1>5. SubSeq(closers, 1, N) = closers  BY <1>2, <1>3, SubSeqFull
<1>6. SubSeq(closers, N + 1, N) = <<>>
  <2>1. N + 1 \in Int /\ N \in Int /\ N < N + 1  BY <1>4
  <2> QED  BY <2>1, SubSeqEmpty
<1>7. PICK done : done = events \o closers  OBVIOUS
<1>8. done \in Seq(Events) /\ Told(done) /\ Closers(done, cause) = <<>>
  BY <1>3, <1>4, <1>5, <1>6, <1>7
<1>9. PICK s : Tells(done, s)  BY <1>8, ToldTells
<1>10. WellFormed(done)  BY <1>8, <1>9, NoClosers, ClosedIsWellFormed
<1> QED  BY <1>1, <1>7, <1>8, <1>10

\* A fork seeded with any part of a told log.
LEMMA Forked ==
  ASSUME NEW events \in Seq(Events), Told(events), NEW k \in 1 .. Len(events)
  PROVE  /\ ForkSeed(events, k) \in Seq(Events) /\ Told(ForkSeed(events, k))
         /\ WellFormed(ForkSeed(events, k))
         /\ k <= Len(ForkSeed(events, k))
         /\ \A i \in 1 .. k : ForkSeed(events, k)[i] = events[i]
<1>1. Len(events) \in Nat /\ k \in 0 .. Len(events) /\ k \in Nat  BY LenProperties
<1>2. PICK cut : cut = SubSeq(events, 1, k)  OBVIOUS
<1>3. /\ cut \in Seq(Events) /\ Told(cut) /\ Len(cut) = k
      /\ \A i \in 1 .. k : cut[i] = events[i]
  BY <1>1, <1>2, ToldPrefix
<1>4. PICK s : Tells(cut, s)  BY <1>3, ToldTells
<1>5. PICK marker : marker = Event("session/end-seed", 0, 0)  OBVIOUS
<1>6. Legal(s, marker)  BY <1>5 DEF Legal, Seeds
<1>7. marker \in Events
  <2>1. Sound(s)  BY <1>4, TellsWhat
  <2> QED  BY <2>1, <1>6, LegalIsEvent
<1>8. PICK inherited : inherited = cut \o <<marker>>  OBVIOUS
<1>9. inherited = Append(cut, marker)  BY <1>3, <1>7, <1>8, AppendIsConcat
<1>10. Tells(inherited, After(s, marker, Len(cut) + 1))  BY <1>4, <1>6, <1>9, TellsAppend
<1>11. inherited \in Seq(Events) /\ Told(inherited)  BY <1>10, TellsTold
<1>12. Len(inherited) = k + 1 /\ \A i \in 1 .. k : inherited[i] = events[i]
  BY <1>3, <1>7, <1>9, AppendProperties
<1>13. PICK closers : closers = Closers(inherited, "forked")  OBVIOUS
<1>14. PICK seed : seed = inherited \o closers  OBVIOUS
<1>15. seed = ForkSeed(events, k)  BY <1>2, <1>5, <1>8, <1>13, <1>14 DEF ForkSeed
<1>16. seed \in Seq(Events) /\ Told(seed) /\ WellFormed(seed)
  BY <1>11, <1>13, <1>14, Completed
<1>17. closers \in Seq(Events)  BY <1>11, <1>13, Closing
<1>18. /\ Len(seed) = Len(inherited) + Len(closers) /\ Len(closers) \in Nat
       /\ \A i \in 1 .. Len(inherited) + Len(closers) :
            seed[i] = IF i <= Len(inherited) THEN inherited[i] ELSE closers[i - Len(inherited)]
  BY <1>11, <1>14, <1>17, ConcatProperties, LenProperties
<1>19. k <= Len(seed)  BY <1>1, <1>12, <1>18
<1>20. \A i \in 1 .. k : seed[i] = events[i]
  <2>1. \A i \in 1 .. k : i \in 1 .. Len(inherited) + Len(closers) /\ i <= Len(inherited)
    BY <1>1, <1>12, <1>18
  <2> QED  BY <2>1, <1>12, <1>18
<1> QED  BY <1>15, <1>16, <1>19, <1>20

\* Every cut of a told log completes.
LEMMA ToldCompletes ==
  ASSUME log \in Seq(Events), Told(log)
  PROVE  RepairCompletes
<1> SUFFICES ASSUME NEW k \in 0 .. Len(log)
             PROVE  LET cut == SubSeq(log, 1, k)
                        resumed == cut \o Closers(cut, "interrupted")
                    IN  /\ WellFormed(resumed) /\ Closers(resumed, "interrupted") = <<>>
                        /\ k > 0 => WellFormed(ForkSeed(log, k))
  BY DEF RepairCompletes
<1>1. PICK cut : cut = SubSeq(log, 1, k)  OBVIOUS
<1>2. cut \in Seq(Events) /\ Told(cut)  BY <1>1, ToldPrefix
<1>3. LET resumed == cut \o Closers(cut, "interrupted")
      IN  WellFormed(resumed) /\ Closers(resumed, "interrupted") = <<>>
  BY <1>2, Completed
<1>4. k > 0 => WellFormed(ForkSeed(log, k))
  <2>1. k > 0 => k \in 1 .. Len(log)  BY LenProperties
  <2> QED  BY <2>1, Forked
<1> QED  BY <1>1, <1>3, <1>4

\* A repair that is cut off and repaired writes the same history.
LEMMA ToldConverges ==
  ASSUME log \in Seq(Events), Told(log)
  PROVE  RepairConverges
<1>1. PICK closers : closers = Closers(log, "interrupted")  OBVIOUS
<1>2. PICK N : N = Len(closers)  OBVIOUS
<1>3. /\ closers \in Seq(Events)
      /\ \A k \in 0 .. N :
           Closers(log \o SubSeq(closers, 1, k), "interrupted") = SubSeq(closers, k + 1, N)
  BY <1>1, <1>2, Closing
<1>4. N \in Nat  BY <1>2, <1>3, LenProperties
<1>5. ASSUME NEW k \in 0 .. N
      PROVE  (log \o SubSeq(closers, 1, k)) \o SubSeq(closers, k + 1, N) = log \o closers
  <2>1. PICK a : a = SubSeq(closers, 1, k)  OBVIOUS
  <2>2. PICK b : b = SubSeq(closers, k + 1, N)  OBVIOUS
  <2>3. a \in Seq(Events)  BY <2>1, <1>2, <1>3, CutFields
  <2>4. b \in Seq(Events)
    <3>1. \A i \in k + 1 .. N : i \in 1 .. Len(closers)  BY <1>2, <1>4
    <3>2. \A i \in k + 1 .. N : closers[i] \in Events  BY <3>1, <1>3, ElementOfSeq
    <3>3. k + 1 \in Int /\ N \in Int  BY <1>4
    <3> QED  BY <3>2, <3>3, <2>2, SubSeqProperties
  <2>5. a \o b = closers
    <3>1. 1 \in 1 .. Len(closers) + 1 /\ k \in 1 - 1 .. Len(closers) /\ N \in k .. Len(closers)
      BY <1>2, <1>4
    <3>2. SubSeq(closers, 1, k) \o SubSeq(closers, k + 1, N) = SubSeq(closers, 1, N)
      BY <3>1, <1>3, ConcatAdjacentSubSeq
    <3>3. SubSeq(closers, 1, N) = closers  BY <1>2, <1>3, SubSeqFull
    <3> QED  BY <3>2, <3>3, <2>1, <2>2
  <2>6. (log \o a) \o b = log \o (a \o b)  BY <2>3, <2>4, ConcatAssociative
  <2> QED  BY <2>1, <2>2, <2>5, <2>6
<1> QED  BY <1>1, <1>2, <1>3, <1>5 DEF RepairConverges

LEMMA ToldIsHonest ==
  ASSUME log \in Seq(Events), Told(log)
  PROVE  HonestRecovery
<1>1. PICK s : Tells(log, s)  BY ToldTells
<1>2. Truthful(log, Len(log)) /\ Len(log) \in Nat  BY <1>1, TellsWhat DEF Story
<1> SUFFICES ASSUME NEW j \in 1 .. Len(log)
             PROVE  LET recorded == \E i \in 1 .. j - 1 :
                                      log[i] = Call(log[j].turn, log[j].step, log[j].id)
                    IN  /\ log[j].code = "outcome-unknown" => recorded
                        /\ log[j].code = "not-started" => ~recorded
  BY DEF HonestRecovery
<1>3. \A i \in 1 .. j - 1 : i \in 1 .. Len(log)  BY <1>2
<1> QED  BY <1>2, <1>3 DEF Truthful, CallOf

LEMMA ToldDeniesNothing ==
  ASSUME TypeOK, Told(log), RanRecorded
  PROVE  StartedNeverDenied
<1>1. PICK s : Tells(log, s)  BY ToldTells DEF TypeOK
<1>2. Truthful(log, Len(log)) /\ Len(log) \in Nat  BY <1>1, TellsWhat DEF Story
<1> SUFFICES ASSUME NEW j \in 1 .. Len(log), log[j].code = "not-started",
                    [turn |-> log[j].turn, step |-> log[j].step, id |-> log[j].id] \in ran
             PROVE  FALSE
  BY DEF StartedNeverDenied
<1>3. PICK r \in ran : r = [turn |-> log[j].turn, step |-> log[j].step, id |-> log[j].id]
  OBVIOUS
<1>4. PICK i \in 1 .. durable : log[i] = Call(r.turn, r.step, r.id)  BY DEF RanRecorded
<1>5. r.turn = log[j].turn /\ r.step = log[j].step /\ r.id = log[j].id  BY <1>3
<1>6. log[i] = CallOf(log[j])  BY <1>4, <1>5 DEF CallOf
<1>7. i \in 1 .. Len(log)  BY <1>2 DEF TypeOK
<1> QED  BY <1>2, <1>6, <1>7 DEF Truthful

-----------------------------------------------------------------------------
(***************************************************************************)
(* The invariant.  What the live process appends next is legal, and what a *)
(* crash keeps, a repair closes and a fork inherits is told.               *)
(***************************************************************************)
LEMMA OpenTold ==
  ASSUME NEW s, Tells(log, s)
  PROVE  Open.turn = s.turn /\ Open.step = s.step /\ Open.pending = PendingOf(s)
BY TellsWhat DEF Open, ScanOf

LEMMA LastOf ==
  ASSUME NEW n \in Nat, NEW starts \in SUBSET (1 .. n), NEW i \in starts,
         \A j \in i + 1 .. n : j \notin starts
  PROVE  starts # {} /\ LastStart(starts) = i
<1>1. \A j \in starts : j <= i
  <2> SUFFICES ASSUME NEW j \in starts PROVE j <= i  OBVIOUS
  <2>1. i \in 1 .. n /\ j \in 1 .. n /\ j \notin i + 1 .. n  OBVIOUS
  <2> QED  BY <2>1
<1>2. PICK c : c = LastStart(starts)  OBVIOUS
<1>3. c \in starts /\ \A j \in starts : j <= c  BY <1>1, <1>2 DEF LastStart
<1>4. c <= i /\ i <= c /\ c \in Nat /\ i \in Nat  BY <1>1, <1>3
<1> QED  BY <1>2, <1>4

LEMMA LastTurnTold ==
  ASSUME NEW s, Tells(log, s)
  PROVE  LastTurn = s.turns
<1>1. Numbered(log, Len(log), s) /\ Len(log) \in Nat  BY TellsWhat DEF Story
<1> DEFINE starts == {i \in 1 .. Len(log) : log[i].type = "turn/start"}
<1>2. LastTurn = IF starts = {} THEN 0 ELSE log[LastStart(starts)].turn  BY DEF LastTurn
<1>3. CASE s.turns = 0 /\ \A j \in 1 .. Len(log) : log[j].type # "turn/start"
  <2>1. starts = {}  BY <1>3
  <2> QED  BY <2>1, <1>2, <1>3
<1>4. CASE \E i \in 1 .. Len(log) :
             /\ log[i].type = "turn/start" /\ log[i].turn = s.turns
             /\ \A j \in i + 1 .. Len(log) : log[j].type # "turn/start"
  <2>1. PICK i \in 1 .. Len(log) :
             /\ log[i].type = "turn/start" /\ log[i].turn = s.turns
             /\ \A j \in i + 1 .. Len(log) : log[j].type # "turn/start"
    BY <1>4
  <2>2. i \in starts /\ starts \in SUBSET (1 .. Len(log))
        /\ \A j \in i + 1 .. Len(log) : j \notin starts
    BY <2>1
  <2> HIDE DEF starts
  <2>3. starts # {} /\ LastStart(starts) = i  BY <2>2, <1>1, LastOf
  <2> QED  BY <2>1, <2>3, <1>2
<1> QED  BY <1>1, <1>3, <1>4 DEF Numbered

LEMMA LastStepTold ==
  ASSUME NEW s, Tells(log, s), s.turn # 0
  PROVE  LastStep = s.steps
<1>1. Numbered(log, Len(log), s) /\ Len(log) \in Nat /\ Sound(s)  BY TellsWhat DEF Story
<1>2. Open.turn = s.turns  BY <1>1, OpenTold DEF Sound
<1> DEFINE Starts(j) == log[j].type = "step/start" /\ log[j].turn = s.turns
           starts == {i \in 1 .. Len(log) : Starts(i)}
<1>3. LastStep = IF starts = {} THEN 0 ELSE log[LastStart(starts)].step
  BY <1>2 DEF LastStep
<1>4. CASE s.steps = 0 /\ \A j \in 1 .. Len(log) : ~Starts(j)
  <2>1. starts = {}  BY <1>4
  <2> QED  BY <2>1, <1>3, <1>4
<1>5. CASE \E i \in 1 .. Len(log) : /\ Starts(i) /\ log[i].step = s.steps
                                    /\ \A j \in i + 1 .. Len(log) : ~Starts(j)
  <2>1. PICK i \in 1 .. Len(log) : /\ Starts(i) /\ log[i].step = s.steps
                                   /\ \A j \in i + 1 .. Len(log) : ~Starts(j)
    BY <1>5
  <2>2. i \in starts /\ starts \in SUBSET (1 .. Len(log))
        /\ \A j \in i + 1 .. Len(log) : j \notin starts
    BY <2>1
  <2> HIDE DEF starts, Starts
  <2>3. starts # {} /\ LastStart(starts) = i  BY <2>2, <1>1, LastOf
  <2> QED  BY <2>1, <2>3, <1>3
<1> QED  BY <1>1, <1>4, <1>5 DEF Numbered

\* A message goes only into a step that has just begun.
LEMMA JustBegun ==
  ASSUME NEW s, Tells(log, s), LastType = "step/start"
  PROVE  s.step # 0 /\ s.asked = 0
<1>1. PICK h : Traces(h, log) /\ h[Len(log)] = s  BY DEF Tells
<1>2. PICK N : N = Len(log)  OBVIOUS
<1>3. log \in Seq(Events) /\ N \in Nat  BY <1>2, TellsWhat
<1>4. log # <<>> /\ log[N].type = "step/start"  BY <1>2 DEF LastType
<1>5. N \in Nat \ {0}  BY <1>2, <1>3, <1>4, EmptySeq
<1>6. N \in 1 .. Len(log) /\ N - 1 \in 0 .. Len(log)  BY <1>2, <1>5
<1>7. PICK u : u = h[N - 1]  OBVIOUS
<1>8. Legal(u, log[N]) /\ s = After(u, log[N], N)  BY <1>1, <1>2, <1>6, <1>7 DEF Traces
<1>9. Sound(u)  BY <1>1, <1>3, <1>6, <1>7, StoryHolds DEF Story
<1>10. u \in Accounts /\ u.steps \in Nat  BY <1>9 DEF Sound, Accounts
<1>11. StepStarts(u, log[N])
  <2>1. ~TurnStarts(u, log[N])  BY <1>4, <1>5, <1>10, AfterTurnStart DEF Reads
  <2>2. ~TurnEnds(u, log[N])  BY <1>4, <1>5, <1>10, AfterTurnEnd DEF Reads
  <2>3. ~StepEnds(u, log[N])  BY <1>4, <1>5, <1>10, AfterStepEnd DEF Reads
  <2>4. ~Asks(u, log[N])  BY <1>4, <1>5, <1>10, AfterMessage DEF Reads
  <2>5. ~Begins(u, log[N])  BY <1>4, <1>5, <1>10, AfterCall DEF Reads
  <2>6. ~Gives(u, log[N])  BY <1>4, <1>5, <1>10, AfterResult DEF Reads
  <2>7. ~Seeds(u, log[N])  BY <1>4, <1>5, <1>10, AfterSeed DEF Reads
  <2> QED  BY <2>1, <2>2, <2>3, <2>4, <2>5, <2>6, <2>7, <1>8, Kinds
<1>12. s.step = u.steps + 1 /\ s.asked = u.asked
  BY <1>5, <1>8, <1>10, <1>11, AfterStepStart DEF Becomes
<1>13. u.step = 0  BY <1>11 DEF StepStarts
<1> QED  BY <1>9, <1>10, <1>12, <1>13 DEF Sound

\* What extends the log keeps every record.
LEMMA Extends ==
  ASSUME TypeOK, RanRecorded, NEW more \in Seq(Events), log' = log \o more, Told(log'),
         durable' \in Nat, durable <= durable', durable' <= Len(log'),
         live' \in BOOLEAN, ran' = ran
  PROVE  IInv'
<1>1. log \in Seq(Events) /\ Len(log) \in Nat /\ durable \in Nat /\ durable <= Len(log)
  BY LenProperties DEF TypeOK
<1>2. /\ log' \in Seq(Events) /\ Len(log') = Len(log) + Len(more) /\ Len(more) \in Nat
      /\ \A i \in 1 .. Len(log) + Len(more) :
           log'[i] = IF i <= Len(log) THEN log[i] ELSE more[i - Len(log)]
  BY <1>1, ConcatProperties, LenProperties
<1>3. \A i \in 1 .. durable : log'[i] = log[i] /\ i \in 1 .. durable'
  <2>1. \A i \in 1 .. durable : /\ i \in 1 .. Len(log) + Len(more) /\ i <= Len(log)
                                /\ i \in 1 .. durable'
    BY <1>1, <1>2
  <2> QED  BY <2>1, <1>2
<1>4. RanRecorded'  BY <1>3 DEF RanRecorded
<1>5. durable' \in 0 .. Len(log')  BY <1>1, <1>2
<1>6. TypeOK'  BY <1>2, <1>5 DEF TypeOK
<1> QED  BY <1>4, <1>6 DEF IInv

LEMMA Logs ==
  ASSUME IInv, NEW s, Tells(log, s), NEW e, Legal(s, e), Log(<<e>>)
  PROVE  IInv'
<1>1. TypeOK /\ RanRecorded /\ log \in Seq(Events)  BY DEF IInv, TypeOK
<1>2. e \in Events  BY TellsWhat, LegalIsEvent
<1>3. <<e>> \in Seq(Events)  BY <1>2, FirstOfOne
<1>4. log' = log \o <<e>> /\ durable' = durable /\ live' = live /\ ran' = ran  BY DEF Log
<1>5. log' = Append(log, e)  BY <1>1, <1>2, <1>4, AppendIsConcat
<1>6. Tells(log', After(s, e, Len(log) + 1))  BY <1>5, TellsAppend
<1>7. Told(log')  BY <1>6, TellsTold
<1>8. Len(log') = Len(log) + 1  BY <1>1, <1>2, <1>5, AppendProperties
<1>9. durable \in Nat /\ durable <= Len(log) /\ Len(log) \in Nat /\ live \in BOOLEAN
  BY <1>1, LenProperties DEF TypeOK
<1>10. durable' \in Nat /\ durable <= durable' /\ durable' <= Len(log') /\ live' \in BOOLEAN
  BY <1>4, <1>8, <1>9
<1> QED  BY <1>1, <1>3, <1>4, <1>7, <1>10, Extends

LEMMA InitOK ==
  ASSUME Init PROVE IInv
<1>1. log = <<>> /\ durable = 0 /\ live = TRUE /\ ran = {}  BY DEF Init
<1>2. <<>> \in Seq(Events) /\ Len(<<>>) = 0  BY EmptySeq
<1>3. TypeOK  BY <1>1, <1>2 DEF TypeOK
<1>4. Told(log)  BY <1>1, TellsNothing, TellsTold
<1> QED  BY <1>1, <1>3, <1>4 DEF IInv, RanRecorded

\* The entries that wait, seen from the calls of the message.
LEMMA OpenEntries ==
  ASSUME NEW s, Tells(log, s)
  PROVE  /\ Len(Open.pending) = Len(s.calls) - Len(s.given)
         /\ Len(Open.pending) \in Nat
         /\ \A i \in 1 .. Len(Open.pending) :
              /\ Len(s.given) + i \in Len(s.given) + 1 .. Len(s.calls)
              /\ Open.pending[i].id = s.calls[Len(s.given) + i]
              /\ Open.pending[i].started <=> s.calls[Len(s.given) + i] \in s.begun
              /\ s.step # 0
<1>1. Sound(s)  BY TellsWhat
<1>2. PICK d : d = Len(s.calls) - Len(s.given)  OBVIOUS
<1>3. d \in Nat  BY <1>1, <1>2, Measures
<1>4. /\ Open.pending = [k \in 1 .. d |-> Waiting(s, k)] /\ Len(Open.pending) = d
  BY <1>1, <1>2, OpenTold, PendingIsSeq
<1>5. \A i \in 1 .. d : Open.pending[i] = Waiting(s, i)  BY <1>4
<1>6. ASSUME NEW i \in 1 .. d
      PROVE  Len(s.given) + i \in Len(s.given) + 1 .. Len(s.calls) /\ s.step # 0
  <2>1. Len(s.given) + i \in Len(s.given) + 1 .. Len(s.calls)  BY <1>1, <1>2, <1>3, Measures
  <2>2. Len(s.calls) # 0  BY <2>1, <1>1, Measures
  <2>3. s.calls # <<>>  BY <2>2, EmptySeq
  <2> QED  BY <2>1, <2>3, <1>1 DEF Sound
<1> QED  BY <1>2, <1>3, <1>4, <1>5, <1>6, WaitingFields

LEMMA StartTurnOK ==
  ASSUME IInv, StartTurn PROVE IInv'
<1>1. PICK s : Tells(log, s)  BY ToldTells DEF IInv, TypeOK
<1>2. s.turn = 0 /\ LastTurn = s.turns  BY <1>1, OpenTold, LastTurnTold DEF StartTurn
<1>3. Log(<<Event("turn/start", s.turns + 1, 0)>>)  BY <1>2 DEF StartTurn
<1>4. Legal(s, Event("turn/start", s.turns + 1, 0))  BY <1>2 DEF Legal, TurnStarts
<1> QED  BY <1>1, <1>3, <1>4, Logs

LEMMA StartStepOK ==
  ASSUME IInv, StartStep PROVE IInv'
<1>1. PICK s : Tells(log, s)  BY ToldTells DEF IInv, TypeOK
<1>2. s.turn # 0 /\ s.step = 0 /\ Open.turn = s.turn  BY <1>1, OpenTold DEF StartStep
<1>3. LastStep = s.steps  BY <1>1, <1>2, LastStepTold
<1>4. Log(<<Event("step/start", s.turn, s.steps + 1)>>)  BY <1>2, <1>3 DEF StartStep
<1>5. Legal(s, Event("step/start", s.turn, s.steps + 1))  BY <1>2 DEF Legal, StepStarts
<1> QED  BY <1>1, <1>4, <1>5, Logs

LEMMA AssistantMessageOK ==
  ASSUME IInv, AssistantMessage PROVE IInv'
<1>1. PICK s : Tells(log, s)  BY ToldTells DEF IInv, TypeOK
<1>2. s.step # 0 /\ s.asked = 0  BY <1>1, JustBegun DEF AssistantMessage
<1>3. Open.turn = s.turn /\ Open.step = s.step  BY <1>1, OpenTold
<1>4. PICK calls \in Messages : Log(<<Assistant(s.turn, s.step, calls)>>)
  BY <1>3 DEF AssistantMessage
<1>5. calls \in Seq(Ids) /\ Distinct(calls)
  <2>1. PICK n \in 0 .. MaxCalls : calls \in [1 .. n -> Ids]  BY <1>4 DEF Messages
  <2>2. n \in Nat  BY SessionRepairConstants
  <2> QED  BY <2>1, <2>2, <1>4, SeqDef DEF Messages
<1>6. Legal(s, Assistant(s.turn, s.step, calls))  BY <1>2, <1>5 DEF Legal, Asks
<1> QED  BY <1>1, <1>4, <1>6, Logs

LEMMA ToolCallOK ==
  ASSUME IInv, ToolCall PROVE IInv'
<1>1. PICK s : Tells(log, s)  BY ToldTells DEF IInv, TypeOK
<1>2. PICK i \in 1 .. Len(Open.pending) :
        ~Open.pending[i].started /\ Log(<<Call(Open.turn, Open.step, Open.pending[i].id)>>)
  BY DEF ToolCall
<1>3. Open.turn = s.turn /\ Open.step = s.step  BY <1>1, OpenTold
<1>4. PICK k : k = Len(s.given) + i  OBVIOUS
<1>5. /\ k \in Len(s.given) + 1 .. Len(s.calls) /\ Open.pending[i].id = s.calls[k]
      /\ s.calls[k] \notin s.begun /\ s.step # 0
  BY <1>1, <1>2, <1>4, OpenEntries
<1>6. Legal(s, Call(s.turn, s.step, s.calls[k]))  BY <1>5 DEF Legal, Begins
<1>7. Log(<<Call(s.turn, s.step, s.calls[k])>>)  BY <1>2, <1>3, <1>5
<1> QED  BY <1>1, <1>6, <1>7, Logs

LEMMA ToolResultOK ==
  ASSUME IInv, ToolResult PROVE IInv'
<1>1. PICK s : Tells(log, s)  BY ToldTells DEF IInv, TypeOK
<1>2. Open.turn = s.turn /\ Open.step = s.step /\ Sound(s)  BY <1>1, OpenTold, TellsWhat
<1>3. 1 \in 1 .. Len(Open.pending)
  <2>1. Open.pending \in Seq(Entries)  BY <1>1, <1>2, OpenTold, PendingIsSeq
  <2>2. Len(Open.pending) \in Nat \ {0}  BY <2>1, EmptySeq DEF ToolResult
  <2> QED  BY <2>2
<1>4. PICK id : id = s.calls[Len(s.given) + 1]  OBVIOUS
<1>5. /\ Len(s.given) + 1 \in Len(s.given) + 1 .. Len(s.calls)
      /\ Open.pending[1].id = id /\ s.step # 0
      /\ Open.pending[1].started <=> id \in s.begun
  BY <1>1, <1>3, <1>4, OpenEntries
<1>6. id \in s.begun  BY <1>5 DEF ToolResult
<1>7. "answered" \in Truth(s, id)  BY <1>6 DEF Truth
<1>8. Len(s.given) < Len(s.calls)
  <2>1. Len(s.given) \in Nat /\ Len(s.calls) \in Nat  BY <1>2, Measures
  <2> QED  BY <2>1, <1>5
<1>9. Legal(s, Result(s.turn, s.step, id, "answered"))
  BY <1>4, <1>5, <1>7, <1>8 DEF Legal, Gives
<1>10. Log(<<Result(s.turn, s.step, id, "answered")>>)  BY <1>2, <1>5 DEF ToolResult
<1> QED  BY <1>1, <1>9, <1>10, Logs

LEMMA EndStepOK ==
  ASSUME IInv, EndStep PROVE IInv'
<1>1. PICK s : Tells(log, s)  BY ToldTells DEF IInv, TypeOK
<1>2. Open.turn = s.turn /\ Open.step = s.step /\ s.step # 0  BY <1>1, OpenTold DEF EndStep
<1>3. Len(s.given) = Len(s.calls)
  <2>1. Len(Open.pending) = 0  BY EmptySeq DEF EndStep
  <2>2. Len(s.calls) - Len(s.given) = 0  BY <2>1, <1>1, OpenEntries
  <2>3. Len(s.calls) \in Nat /\ Len(s.given) \in Nat  BY <1>1, TellsWhat, Measures
  <2> QED  BY <2>2, <2>3
<1>4. Legal(s, Event("step/end", s.turn, s.step))  BY <1>2, <1>3 DEF Legal, StepEnds
<1>5. Log(<<Event("step/end", s.turn, s.step)>>)  BY <1>2 DEF EndStep
<1> QED  BY <1>1, <1>4, <1>5, Logs

\* A failed step writes all the closers of its turn but the last.
LEMMA FailStepOK ==
  ASSUME IInv, FailStep PROVE IInv'
<1>1. PICK s : Tells(log, s)  BY ToldTells DEF IInv, TypeOK
<1>2. Open.turn = s.turn /\ Open.step = s.step /\ Open.pending = PendingOf(s) /\ s.step # 0
      /\ Sound(s) /\ s.turn # 0
  BY <1>1, OpenTold, TellsWhat DEF FailStep, Sound
<1>3. PICK results : results = RecoveryResults(PendingOf(s))  OBVIOUS
<1>4. PICK stop : stop = Event("step/end", s.turn, s.step)  OBVIOUS
<1>5. PICK end : end = TurnEnd(s.turn, "interrupted")  OBVIOUS
<1>6. results \in Seq(Events)  BY <1>2, <1>3, RecoveryFields
<1>7. s.turn \in Nat /\ s.step \in Nat /\ <<>> \in Seq(Ids)  BY <1>2, Measures, EmptySeq
<1>8. stop \in Events
  <2>1. "none" \in Codes /\ "step/end" \in Types  BY DEF Codes, Types
  <2> QED  BY <2>1, <1>4, <1>7, LoggedReads DEF Event, Reads
<1>9. end \in Events
  <2>1. "interrupted" \in Codes /\ "turn/end" \in Types  BY DEF Codes, Types
  <2> QED  BY <2>1, <1>5, <1>7, LoggedReads DEF TurnEnd, Reads
<1>10. PICK more : more = Append(results, stop)  OBVIOUS
<1>11. more = results \o <<stop>> /\ more \in Seq(Events)
  BY <1>6, <1>8, <1>10, AppendIsConcat, AppendProperties
<1>12. PICK closers : closers = Closers(log, "interrupted")  OBVIOUS
<1>13. closers = more \o <<end>>
  BY <1>1, <1>2, <1>3, <1>4, <1>5, <1>11, <1>12, ClosersTold DEF ClosingOf
<1>14. PICK m : m = Len(more)  OBVIOUS
<1>15. m \in 0 .. Len(closers) /\ m \in Nat /\ SubSeq(closers, 1, m) = more
  <2>1. <<end>> \in Seq(Events)  BY <1>9, FirstOfOne
  <2>2. closers = Append(more, end)  BY <1>9, <1>11, <1>13, AppendIsConcat
  <2>3. /\ closers \in Seq(Events) /\ Len(closers) = m + 1 /\ m \in Nat
        /\ \A i \in 1 .. m : closers[i] = more[i]
    BY <2>2, <1>9, <1>11, <1>14, AppendProperties, LenProperties
  <2>4. m \in 0 .. Len(closers)  BY <2>3
  <2>5. PICK cut : cut = SubSeq(closers, 1, m)  OBVIOUS
  <2>6. cut \in Seq(Events) /\ Len(cut) = m /\ \A i \in 1 .. m : cut[i] = closers[i]
    BY <2>3, <2>4, <2>5, CutFields
  <2>7. cut = more  BY <2>3, <2>6, <1>11, <1>14, SeqEqual
  <2> QED  BY <2>3, <2>4, <2>5, <2>7
<1>16. TypeOK /\ RanRecorded /\ log \in Seq(Events) /\ Told(log)  BY DEF IInv, TypeOK
<1>17. log' = log \o more /\ durable' = durable /\ live' = live /\ ran' = ran
  BY <1>2, <1>3, <1>4, <1>10 DEF FailStep, Log
<1>18. Told(log')
  <2>1. Told(log \o SubSeq(closers, 1, m))  BY <1>12, <1>15, <1>16, Closing
  <2> QED  BY <2>1, <1>15, <1>17
<1>19. Len(log') = Len(log) + m  BY <1>11, <1>14, <1>16, <1>17, ConcatProperties
<1>20. durable \in Nat /\ durable <= Len(log) /\ Len(log) \in Nat /\ live \in BOOLEAN
  BY <1>16, LenProperties DEF TypeOK
<1>21. durable' \in Nat /\ durable <= durable' /\ durable' <= Len(log') /\ live' \in BOOLEAN
  BY <1>15, <1>17, <1>19, <1>20
<1> QED  BY <1>11, <1>16, <1>17, <1>18, <1>21, Extends

LEMMA EndTurnOK ==
  ASSUME IInv, EndTurn PROVE IInv'
<1>1. PICK s : Tells(log, s)  BY ToldTells DEF IInv, TypeOK
<1>2. Open.turn = s.turn /\ s.turn # 0 /\ s.step = 0  BY <1>1, OpenTold DEF EndTurn
<1>3. Legal(s, TurnEnd(s.turn, "ended"))  BY <1>2 DEF Legal, TurnEnds
<1>4. Log(<<TurnEnd(s.turn, "ended")>>)  BY <1>2 DEF EndTurn
<1> QED  BY <1>1, <1>3, <1>4, Logs

\* A body runs only behind the checkpoint that covers its call.
LEMMA RunBodyOK ==
  ASSUME IInv, RunBody PROVE IInv'
<1>1. PICK s : Tells(log, s)  BY ToldTells DEF IInv, TypeOK
<1>2. log' = log /\ durable' = durable /\ live' = live  BY DEF RunBody
<1>3. PICK seq \in 1 .. Len(log) :
        /\ log[seq].type = "tool/call" /\ Checkpointed(seq)
        /\ log[seq].turn = Open.turn /\ log[seq].step = Open.step
        /\ \E i \in 1 .. Len(Open.pending) : Open.pending[i].id = log[seq].id
        /\ ran' = ran \cup {[turn |-> Open.turn, step |-> Open.step, id |-> log[seq].id]}
  BY DEF RunBody
<1>4. Truthful(log, Len(log)) /\ log \in Seq(Events) /\ Len(log) \in Nat
  BY <1>1, TellsWhat DEF Story
<1>5. log[seq] = CallOf(log[seq])  BY <1>3, <1>4 DEF Truthful
<1>6. seq \in 1 .. durable  BY <1>3, <1>4 DEF Checkpointed, IInv, TypeOK
<1>7. PICK new : new = [turn |-> Open.turn, step |-> Open.step, id |-> log[seq].id]  OBVIOUS
<1>8. ran' = ran \cup {new} /\ new.turn = log[seq].turn /\ new.step = log[seq].step
      /\ new.id = log[seq].id
  BY <1>3, <1>7
<1>9. log[seq] = Call(new.turn, new.step, new.id)  BY <1>5, <1>8 DEF CallOf
<1>10. RanRecorded'  BY <1>2, <1>6, <1>8, <1>9 DEF RanRecorded, IInv
<1>11. new \in [turn : Nat, step : Nat, id : Ids]
  <2>1. Open.turn \in Nat /\ Open.step \in Nat
    BY <1>1, OpenTold, TellsWhat, Measures
  <2>2. log[seq].id \in Ids
    <3>1. PICK i \in 1 .. Len(Open.pending) : Open.pending[i].id = log[seq].id  BY <1>3
    <3>2. PICK k : k = Len(s.given) + i  OBVIOUS
    <3>3. k \in Len(s.given) + 1 .. Len(s.calls) /\ log[seq].id = s.calls[k]
      BY <1>1, <3>1, <3>2, OpenEntries
    <3>4. /\ Len(s.given) \in Nat /\ Len(s.calls) \in Nat
          /\ \A j \in 1 .. Len(s.calls) : s.calls[j] \in Ids
      BY <1>1, TellsWhat, Measures
    <3>5. k \in 1 .. Len(s.calls)  BY <3>3, <3>4
    <3> QED  BY <3>3, <3>4, <3>5
  <2> QED  BY <2>1, <2>2, <1>7
<1>12. TypeOK'  BY <1>2, <1>8, <1>11 DEF IInv, TypeOK
<1> QED  BY <1>2, <1>10, <1>12 DEF IInv

LEMMA PersistOK ==
  ASSUME IInv, Persist PROVE IInv'
<1>1. log' = log /\ live' = live /\ ran' = ran /\ durable' \in durable + 1 .. Len(log)
  BY DEF Persist
<1>2. durable \in Nat /\ Len(log) \in Nat  BY LenProperties DEF IInv, TypeOK
<1>3. durable' \in 0 .. Len(log') /\ \A i \in 1 .. durable : i \in 1 .. durable'
  BY <1>1, <1>2
<1>4. TypeOK' /\ RanRecorded'  BY <1>1, <1>3 DEF IInv, TypeOK, RanRecorded
<1> QED  BY <1>1, <1>4 DEF IInv

LEMMA CrashOK ==
  ASSUME IInv, Crash PROVE IInv'
<1>1. log' = SubSeq(log, 1, durable) /\ durable' = durable /\ live' = FALSE /\ ran' = ran
  BY DEF Crash, Survives
<1>2. /\ log' \in Seq(Events) /\ Told(log') /\ Len(log') = durable
      /\ \A i \in 1 .. durable : log'[i] = log[i]
  BY <1>1, ToldPrefix DEF IInv, TypeOK
<1>3. durable \in Nat  BY LenProperties DEF IInv, TypeOK
<1>4. TypeOK'
  <2>1. durable' \in 0 .. Len(log')  BY <1>1, <1>2, <1>3
  <2>2. ran' \subseteq [turn : Nat, step : Nat, id : Ids]  BY <1>1 DEF IInv, TypeOK
  <2> QED  BY <1>1, <1>2, <2>1, <2>2 DEF TypeOK
<1>5. RanRecorded'  BY <1>1, <1>2 DEF IInv, RanRecorded
<1> QED  BY <1>2, <1>4, <1>5 DEF IInv

LEMMA ResumeOK ==
  ASSUME IInv, \/ Resume
               \/ CrashWhileResuming
  PROVE  IInv'
<1>1. PICK closers : closers = Closers(log, "interrupted")  OBVIOUS
<1>2. PICK N : N = Len(closers)  OBVIOUS
<1>3. TypeOK /\ RanRecorded /\ log \in Seq(Events) /\ Told(log)  BY DEF IInv, TypeOK
<1>4. /\ closers \in Seq(Events)
      /\ \A k \in 0 .. N : Told(log \o SubSeq(closers, 1, k))
  BY <1>1, <1>2, <1>3, Closing
<1>5. N \in Nat  BY <1>2, <1>4, LenProperties
<1>6. PICK n \in 0 .. N : log' = log \o SubSeq(closers, 1, n)
  <2>1. CASE Resume
    <3>1. SubSeq(closers, 1, N) = closers  BY <1>2, <1>4, SubSeqFull
    <3>2. log' = log \o closers  BY <2>1, <1>1 DEF Resume
    <3>3. N \in 0 .. N  BY <1>5
    <3> QED  BY <3>1, <3>2, <3>3
  <2>2. CASE CrashWhileResuming
    <3>1. \E n \in 1 .. N : log' = log \o SubSeq(closers, 1, n)
      BY <2>2, <1>1, <1>2 DEF CrashWhileResuming
    <3>2. \A n \in 1 .. N : n \in 0 .. N  BY <1>5
    <3> QED  BY <3>1, <3>2
  <2> QED  BY <2>1, <2>2
<1>7. durable' = Len(log') /\ live' \in BOOLEAN /\ ran' = ran
  BY <1>3 DEF Resume, CrashWhileResuming, TypeOK
<1>8. PICK more : more = SubSeq(closers, 1, n)  OBVIOUS
<1>9. more \in Seq(Events)  BY <1>2, <1>4, <1>8, CutFields
<1>10. log' = log \o more /\ Told(log')  BY <1>4, <1>6, <1>8
<1>11. Len(log') = Len(log) + Len(more)  BY <1>3, <1>9, <1>10, ConcatProperties
<1>12. /\ durable \in Nat /\ durable <= Len(log) /\ Len(log) \in Nat /\ Len(more) \in Nat
  BY <1>3, <1>9, LenProperties DEF TypeOK
<1>13. durable' \in Nat /\ durable <= durable' /\ durable' <= Len(log')
  BY <1>7, <1>11, <1>12
<1> QED  BY <1>3, <1>7, <1>9, <1>10, <1>13, Extends

LEMMA ForkOK ==
  ASSUME IInv, Fork PROVE IInv'
<1>1. PICK k \in 1 .. Len(log) :
        /\ log' = ForkSeed(log, k)
        /\ ran' = {r \in ran : \E i \in 1 .. k : log[i] = Call(r.turn, r.step, r.id)}
  BY DEF Fork
<1>2. durable' = Len(log') /\ live' = live  BY DEF Fork
<1>3. /\ log' \in Seq(Events) /\ Told(log') /\ k <= Len(log')
      /\ \A i \in 1 .. k : log'[i] = log[i]
  BY <1>1, Forked DEF IInv, TypeOK
<1>4. Len(log') \in Nat /\ Len(log) \in Nat  BY <1>3, LenProperties DEF IInv, TypeOK
<1>5. TypeOK'  BY <1>1, <1>2, <1>3, <1>4 DEF IInv, TypeOK
<1>6. \A i \in 1 .. k : i \in 1 .. durable'  BY <1>2, <1>3, <1>4
<1>7. RanRecorded'  BY <1>1, <1>3, <1>6 DEF RanRecorded
<1> QED  BY <1>3, <1>5, <1>7 DEF IInv

\* One step per action.
LEMMA InvariantStep ==
  ASSUME IInv, [Next]_vars PROVE IInv'
<1>1. CASE StartTurn  BY <1>1, StartTurnOK
<1>2. CASE StartStep  BY <1>2, StartStepOK
<1>3. CASE AssistantMessage  BY <1>3, AssistantMessageOK
<1>4. CASE ToolCall  BY <1>4, ToolCallOK
<1>5. CASE ToolResult  BY <1>5, ToolResultOK
<1>6. CASE EndStep  BY <1>6, EndStepOK
<1>7. CASE FailStep  BY <1>7, FailStepOK
<1>8. CASE EndTurn  BY <1>8, EndTurnOK
<1>9. CASE RunBody  BY <1>9, RunBodyOK
<1>10. CASE Persist  BY <1>10, PersistOK
<1>11. CASE Crash  BY <1>11, CrashOK
<1>12. CASE Resume  BY <1>12, ResumeOK
<1>13. CASE CrashWhileResuming  BY <1>13, ResumeOK
<1>14. CASE Fork  BY <1>14, ForkOK
<1>15. CASE UNCHANGED vars  BY <1>15 DEF vars, IInv, TypeOK, RanRecorded
<1> QED
  BY <1>1, <1>2, <1>3, <1>4, <1>5, <1>6, <1>7, <1>8, <1>9, <1>10, <1>11, <1>12, <1>13,
     <1>14, <1>15 DEF Next

THEOREM InvariantHolds == Spec => []IInv
<1>1. Init => IInv  BY InitOK
<1>2. IInv /\ [Next]_vars => IInv'  BY InvariantStep
<1> QED  BY <1>1, <1>2, PTL DEF Spec

(***************************************************************************)
(* Whatever prefix of the log a crash leaves or a fork inherits, closing   *)
(* it gives well-formed history in which nothing is left to close, and a   *)
(* repair that is itself cut off is repaired into the same history.        *)
(***************************************************************************)
THEOREM RepairCorrect == Spec => []RepairInv
<1>1. IInv => RepairInv
  BY ToldCompletes, ToldConverges DEF IInv, TypeOK, RepairInv
<1> QED  BY <1>1, InvariantHolds, PTL

(***************************************************************************)
(* Every recovery result says "outcome unknown" exactly of the calls whose *)
(* start the log holds before it.                                          *)
(***************************************************************************)
THEOREM HonestCorrect == Spec => []HonestRecovery
<1>1. IInv => HonestRecovery  BY ToldIsHonest DEF IInv, TypeOK
<1> QED  BY <1>1, InvariantHolds, PTL

(***************************************************************************)
(* No call whose body was started is ever recorded as not started, through *)
(* any number of crashes, repairs and forks.                               *)
(***************************************************************************)
THEOREM StartedCorrect == Spec => []StartedNeverDenied
<1>1. IInv => StartedNeverDenied  BY ToldDeniesNothing DEF IInv
<1> QED  BY <1>1, InvariantHolds, PTL
=============================================================================
