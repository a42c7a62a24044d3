--------------------------- MODULE InboxLogProofs ---------------------------
(***************************************************************************)
(* The inbox against its log, for every set of messages, range of          *)
(* coordinates and length of the log: a restart rebuilds the lists, and a  *)
(* claim takes exactly the batch of its boundary.                          *)
(***************************************************************************)
EXTENDS InboxLog, SequenceTheorems, TLAPS

(***************************************************************************)
(* A splice, by what it leaves of a list.                                  *)
(***************************************************************************)
LEMMA EmptyList == ASSUME NEW S PROVE <<>> \in Seq(S) /\ Len(<<>>) = 0
BY EmptySeq

LEMMA OneItem ==
  ASSUME NEW S, NEW e \in S
  PROVE  <<e>> \in Seq(S) /\ Len(<<e>>) = 1 /\ <<e>>[1] = e
OBVIOUS

LEMMA Piece ==
  ASSUME NEW S, NEW s \in Seq(S), NEW a \in Nat \ {0}, NEW b \in 0 .. Len(s)
  PROVE  /\ SubSeq(s, a, b) \in Seq(S)
         /\ Len(SubSeq(s, a, b)) = IF a <= b THEN b - a + 1 ELSE 0
         /\ \A i \in 1 .. b - a + 1 : SubSeq(s, a, b)[i] = s[a + i - 1]
<1>1. Len(s) \in Nat  BY LenProperties
<1>2. \A i \in a .. b : s[i] \in S  BY <1>1, ElementOfSeq
<1> QED  BY <1>1, <1>2, SubSeqProperties

LEMMA SplicedType ==
  ASSUME NEW S, NEW s \in Seq(S), NEW ins \in Seq(S),
         NEW at \in 0 .. Len(s), NEW n \in 0 .. Len(s) - at
  PROVE  Spliced(s, at, n, ins) \in Seq(S)
<1>1. Len(s) \in Nat  BY LenProperties
<1>2. SubSeq(s, 1, at) \in Seq(S)  BY <1>1, Piece
<1>3. SubSeq(s, at + n + 1, Len(s)) \in Seq(S)  BY <1>1, Piece
<1> QED  BY <1>2, <1>3, ConcatProperties DEF Spliced

\* A splice that removes and inserts nothing.
LEMMA SplicedNothing ==
  ASSUME NEW S, NEW s \in Seq(S), NEW at \in 0 .. Len(s)
  PROVE  Spliced(s, at, 0, <<>>) = s
<1>1. Len(s) \in Nat  BY LenProperties
<1>2. SubSeq(s, 1, at) \in Seq(S)  BY <1>1, Piece
<1>3. SubSeq(s, 1, at) \o <<>> = SubSeq(s, 1, at)  BY <1>2, ConcatEmptySeq
<1>4. SubSeq(s, 1, at) \o SubSeq(s, at + 1, Len(s)) = SubSeq(s, 1, Len(s))
  <2>1. 1 \in 1 .. Len(s) + 1 /\ at \in 1 - 1 .. Len(s) /\ Len(s) \in at .. Len(s)  BY <1>1
  <2> DEFINE n == Len(s)
  <2>2. 1 \in 1 .. n + 1 /\ at \in 1 - 1 .. n /\ n \in at .. n /\ n = Len(s)  BY <2>1
  <2> HIDE DEF n
  <2>3. SubSeq(s, 1, at) \o SubSeq(s, at + 1, n) = SubSeq(s, 1, n)
    BY <2>2, ConcatAdjacentSubSeq
  <2> QED  BY <2>2, <2>3
<1>5. SubSeq(s, 1, Len(s)) = s  BY SubSeqFull
<1>6. at + 0 + 1 = at + 1  OBVIOUS
<1> QED  BY <1>3, <1>4, <1>5, <1>6 DEF Spliced

\* A splice that takes n messages from the front.
LEMMA SplicedFront ==
  ASSUME NEW S, NEW s \in Seq(S), NEW n \in 0 .. Len(s)
  PROVE  Spliced(s, 0, n, <<>>) = SubSeq(s, n + 1, Len(s))
<1>1. Len(s) \in Nat  BY LenProperties
<1>2. SubSeq(s, 1, 0) = <<>>  BY SubSeqEmpty
<1>3. SubSeq(s, n + 1, Len(s)) \in Seq(S)  BY <1>1, Piece
<1>4. <<>> \o <<>> = <<>>  BY EmptyList, ConcatEmptySeq
<1>5. <<>> \o SubSeq(s, n + 1, Len(s)) = SubSeq(s, n + 1, Len(s))  BY <1>3, ConcatEmptySeq
<1>6. 0 + n + 1 = n + 1  OBVIOUS
<1> QED  BY <1>2, <1>4, <1>5, <1>6 DEF Spliced

LEMMA SplicedAll ==
  ASSUME NEW S, NEW s \in Seq(S)
  PROVE  Spliced(s, 0, Len(s), <<>>) = <<>>
<1>1. Len(s) \in Nat  BY LenProperties
<1> QED  BY <1>1, SplicedFront, SubSeqEmpty

LEMMA SplicedHead ==
  ASSUME NEW S, NEW s \in Seq(S), s # <<>>
  PROVE  Spliced(s, 0, 1, <<>>) = Tail(s)
<1>1. Len(s) \in Nat \ {0}  BY EmptySeq
<1> QED  BY <1>1, SplicedFront, TailIsSubSeq
-----------------------------------------------------------------------------
(***************************************************************************)
(* Replaying a log.  The projection's states on the prefixes of the log    *)
(* are the one function f that Runs holds of; the invariant keeps such a   *)
(* function g next to the log and grows it event by event, so that nothing *)
(* about replay needs an induction on the log's length.                    *)
(***************************************************************************)
Runs(f, n, events) ==
  f = [i \in 0 .. n |-> IF i = 0 THEN EmptyInbox ELSE Apply(f[i - 1], events[i])]

Follows(g, events, lists) ==
  /\ Runs(g, Len(events), events)
  /\ \A n \in 0 .. Len(events) : \A f : Runs(f, n, events) => f[n] = g[n]
  /\ \A i \in 1 .. Len(events) : Replays(g[i - 1], events[i])
  /\ g[Len(events)] = lists

Splices == [target : Targets, start : Nat, removed : Nat, inserted : Seq(Messages)]

Agree(events, others, n) == \A i \in 1 .. n : events[i] = others[i]

LEMMA RunsPrefix ==
  ASSUME NEW n \in Nat, NEW k \in 0 .. n, NEW events, NEW others, NEW f,
         Runs(f, n, events), Agree(events, others, k)
  PROVE  \E h : Runs(h, k, others) /\ h[k] = f[k]
<1> DEFINE h == [i \in 0 .. k |-> f[i]]
<1>1. h \in [0 .. k -> {f[i] : i \in 0 .. k}]  OBVIOUS
<1>2. \A i \in 0 .. k : h[i] = f[i]  OBVIOUS
<1>3. \A i \in 0 .. n : f[i] = IF i = 0 THEN EmptyInbox ELSE Apply(f[i - 1], events[i])
  BY DEF Runs
<1>4. \A i \in 0 .. k : f[i] = IF i = 0 THEN EmptyInbox ELSE Apply(h[i - 1], others[i])
  <2> SUFFICES ASSUME NEW i \in 0 .. k
               PROVE  f[i] = IF i = 0 THEN EmptyInbox ELSE Apply(h[i - 1], others[i])
    OBVIOUS
  <2>1. CASE i = 0  BY <1>3, <2>1
  <2>2. CASE i # 0
    <3>1. i \in 0 .. n /\ i - 1 \in 0 .. k /\ i \in 1 .. k  BY <2>2
    <3>2. h[i - 1] = f[i - 1] /\ events[i] = others[i]  BY <1>2, <3>1 DEF Agree
    <3>3. f[i] = Apply(f[i - 1], events[i])  BY <1>3, <2>2, <3>1
    <3> QED  BY <2>2, <3>2, <3>3
  <2> QED  BY <2>1, <2>2
<1>5. h = [i \in 0 .. k |-> IF i = 0 THEN EmptyInbox ELSE Apply(h[i - 1], others[i])]
  BY <1>4
<1>6. Runs(h, k, others)  BY <1>5 DEF Runs
<1>7. h[k] = f[k]  BY <1>2
<1> HIDE DEF h
<1> QED  BY <1>6, <1>7

LEMMA ReplayedIs ==
  ASSUME NEW n \in Nat, NEW g, Runs(g, n, log),
         \A f : Runs(f, n, log) => f[n] = g[n]
  PROVE  Replayed(n) = g[n]
<1> DEFINE r == CHOOSE f : Runs(f, n, log)
<1>1. Runs(r, n, log)  OBVIOUS
<1>2. r[n] = g[n]  BY <1>1
<1>3. Replayed(n) = r[n]  BY DEF Replayed, Runs
<1> QED  BY <1>2, <1>3

\* A log the lists follow replays to them.
LEMMA FollowedReplays ==
  ASSUME log \in Seq(Splices), NEW g, Follows(g, log, inbox)
  PROVE  LogReplays
<1>1. Len(log) \in Nat  BY LenProperties
<1>2. ASSUME NEW n \in 0 .. Len(log) PROVE Replayed(n) = g[n]
  <2>1. Runs(g, Len(log), log) /\ Agree(log, log, n)  BY DEF Follows, Agree
  <2> PICK h : Runs(h, n, log) /\ h[n] = g[n]  BY <1>1, <2>1, RunsPrefix
  <2>2. Runs(h, n, log) /\ h[n] = g[n]  OBVIOUS
  <2>3. \A f : Runs(f, n, log) => f[n] = h[n]  BY <2>2 DEF Follows
  <2> QED  BY <1>1, <2>2, <2>3, ReplayedIs
<1>3. ASSUME NEW i \in 1 .. Len(log) PROVE Replays(Replayed(i - 1), log[i])
  <2>1. i - 1 \in 0 .. Len(log)  BY <1>1
  <2>2. Replayed(i - 1) = g[i - 1]  BY <1>2, <2>1
  <2>3. Replays(g[i - 1], log[i])  BY DEF Follows
  <2> QED  BY <2>2, <2>3
<1>4. Replayed(Len(log)) = inbox  BY <1>1, <1>2 DEF Follows
<1> QED  BY <1>3, <1>4 DEF LogReplays

LEMMA NothingFollows ==
  \E g : Follows(g, <<>>, EmptyInbox)
<1> DEFINE g == [i \in 0 .. 0 |-> EmptyInbox]
<1>1. Len(<<>>) = 0  OBVIOUS
<1>2. 0 .. 0 = {0}  OBVIOUS
<1>3. g = [i \in 0 .. 0 |-> IF i = 0 THEN EmptyInbox ELSE Apply(g[i - 1], <<>>[i])]
  BY <1>2
<1>4. \A f : Runs(f, 0, <<>>) => f[0] = EmptyInbox  BY <1>2 DEF Runs
<1>5. g[0] = EmptyInbox  BY <1>2
<1> HIDE DEF g
<1>6. \A n \in 0 .. 0 : \A f : Runs(f, n, <<>>) => f[n] = g[n]  BY <1>2, <1>4, <1>5
<1>7. Runs(g, 0, <<>>)  BY <1>3 DEF Runs
<1>8. \A i \in 1 .. 0 : Replays(g[i - 1], <<>>[i])  OBVIOUS
<1> QED  BY <1>1, <1>5, <1>6, <1>7, <1>8 DEF Follows

\* An event the lists accept extends both.
LEMMA FollowsOneMore ==
  ASSUME NEW events \in Seq(Splices), NEW lists, NEW g, Follows(g, events, lists),
         NEW e \in Splices, Replays(lists, e)
  PROVE  \E h : Follows(h, Append(events, e), Apply(lists, e))
<1> PICK n \in Nat : n = Len(events)  BY LenProperties
<1>1. n \in Nat  OBVIOUS
<1> PICK more : more = Append(events, e)  OBVIOUS
<1>2. /\ Len(more) = n + 1 /\ more[n + 1] = e
      /\ \A i \in 1 .. n : more[i] = events[i]
  BY AppendProperties
<1> DEFINE h == [i \in 0 .. n + 1 |-> IF i = n + 1 THEN Apply(lists, e) ELSE g[i]]
<1>3. /\ Runs(g, n, events) /\ g[n] = lists
      /\ \A k \in 0 .. n : \A f : Runs(f, k, events) => f[k] = g[k]
      /\ \A i \in 1 .. n : Replays(g[i - 1], events[i])
  BY DEF Follows
<1>4. h[n + 1] = Apply(lists, e) /\ \A i \in 0 .. n : h[i] = g[i]  BY <1>1
<1>5. \A i \in 0 .. n : g[i] = IF i = 0 THEN EmptyInbox ELSE Apply(g[i - 1], events[i])
  BY <1>3 DEF Runs
<1>6. \A i \in 0 .. n + 1 : (IF i = n + 1 THEN Apply(lists, e) ELSE g[i])
                              = IF i = 0 THEN EmptyInbox ELSE Apply(h[i - 1], more[i])
  <2> HIDE DEF h
  <2> SUFFICES ASSUME NEW i \in 0 .. n + 1
               PROVE  (IF i = n + 1 THEN Apply(lists, e) ELSE g[i])
                        = IF i = 0 THEN EmptyInbox ELSE Apply(h[i - 1], more[i])
    OBVIOUS
  <2>1. CASE i = n + 1
    <3>1. h[i - 1] = lists /\ more[i] = e /\ i # 0  BY <1>1, <1>2, <1>3, <1>4, <2>1
    <3> QED  BY <2>1, <3>1
  <2>2. CASE i = 0  BY <1>1, <1>5, <2>2
  <2>3. CASE i \in 1 .. n
    <3>1. i - 1 \in 0 .. n /\ i \in 0 .. n /\ i # n + 1 /\ i # 0  BY <1>1, <2>3
    <3>2. h[i - 1] = g[i - 1] /\ more[i] = events[i]  BY <1>2, <1>4, <2>3, <3>1
    <3>3. g[i] = Apply(g[i - 1], events[i])  BY <1>5, <3>1
    <3> QED  BY <3>1, <3>2, <3>3
  <2> QED  BY <1>1, <2>1, <2>2, <2>3
<1>7. Runs(h, n + 1, more)  BY <1>6 DEF Runs
<1> HIDE DEF h
<1>8. ASSUME NEW k \in 0 .. n + 1, NEW f, Runs(f, k, more) PROVE f[k] = h[k]
  <2>1. CASE k \in 0 .. n
    <3>1. k \in Nat /\ k \in 0 .. k /\ Agree(more, events, k)
      BY <1>1, <1>2, <2>1 DEF Agree
    <3>2. Runs(f, k, more)  BY <1>8
    <3> PICK r : Runs(r, k, events) /\ r[k] = f[k]  BY <3>1, <3>2, RunsPrefix
    <3> QED  BY <1>3, <1>4, <2>1
  <2>2. CASE k = n + 1
    <3>1. n \in 0 .. k /\ k \in Nat /\ Runs(f, k, more) /\ Agree(more, events, n)
      BY <1>1, <1>2, <1>8, <2>2 DEF Agree
    <3> PICK r : Runs(r, n, events) /\ r[n] = f[n]  BY <3>1, RunsPrefix
    <3>3. f[n] = lists  BY <1>1, <1>3
    <3>4. f[k] = Apply(f[k - 1], more[k])
      <4>1. \A i \in 0 .. k : f[i] = IF i = 0 THEN EmptyInbox ELSE Apply(f[i - 1], more[i])
        BY <3>1 DEF Runs
      <4> QED  BY <1>1, <2>2, <4>1
    <3>5. k - 1 = n  BY <1>1, <2>2
    <3> QED  BY <1>2, <1>4, <2>2, <3>3, <3>4, <3>5
  <2> QED  BY <1>1, <2>1, <2>2
<1>9. ASSUME NEW i \in 1 .. n + 1 PROVE Replays(h[i - 1], more[i])
  <2>1. CASE i = n + 1
    <3>1. i - 1 = n /\ h[n] = lists  BY <1>1, <1>3, <1>4, <2>1
    <3> QED  BY <1>2, <2>1, <3>1
  <2>2. CASE i \in 1 .. n
    <3>1. i - 1 \in 0 .. n  BY <1>1, <2>2
    <3>2. h[i - 1] = g[i - 1] /\ more[i] = events[i]  BY <1>2, <1>4, <2>2, <3>1
    <3>3. Replays(g[i - 1], events[i])  BY <1>3, <2>2
    <3> QED  BY <3>2, <3>3
  <2> QED  BY <1>1, <2>1, <2>2
<1>10. Follows(h, more, Apply(lists, e))  BY <1>2, <1>4, <1>7, <1>8, <1>9 DEF Follows
<1> QED  BY <1>10

\* So does an event that is logged only when it changes something.
LEMMA FollowsEffective ==
  ASSUME NEW events \in Seq(Splices), NEW lists, NEW g, Follows(g, events, lists),
         NEW e \in Splices, Replays(lists, e), NoEffect(e) => Apply(lists, e) = lists
  PROVE  /\ events \o Effective(e) \in Seq(Splices)
         /\ \E h : Follows(h, events \o Effective(e), Apply(lists, e))
<1>1. CASE NoEffect(e)
  <2>1. events \o Effective(e) = events  BY <1>1, ConcatEmptySeq DEF Effective
  <2> QED  BY <1>1, <2>1
<1>2. CASE ~NoEffect(e)
  <2>1. events \o Effective(e) = Append(events, e)  BY <1>2, AppendIsConcat DEF Effective
  <2>2. Append(events, e) \in Seq(Splices)  BY AppendProperties
  <2> QED  BY <2>1, <2>2, FollowsOneMore
<1> QED  BY <1>1, <1>2

LEMMA EffectiveType ==
  ASSUME NEW e \in Splices
  PROVE  Effective(e) \in Seq(Splices)
BY EmptyList, OneItem DEF Effective

LEMMA TwoEffective ==
  ASSUME NEW events \in Seq(Splices), NEW e \in Splices, NEW f \in Splices
  PROVE  events \o (Effective(e) \o Effective(f)) = (events \o Effective(e)) \o Effective(f)
<1> PICK x \in Seq(Splices) : x = Effective(e)  BY EffectiveType
<1> PICK y \in Seq(Splices) : y = Effective(f)  BY EffectiveType
<1>1. events \o (x \o y) = (events \o x) \o y  BY ConcatAssociative
<1> QED  BY <1>1

-----------------------------------------------------------------------------
(***************************************************************************)
(* What the live inbox normalises, the projection accepts.                 *)
(***************************************************************************)
Lists == [Targets -> Seq(Messages)]

NoRepeats(lists) ==
  \A t \in Targets : Distinct(lists[t]) /\ Disjoint(lists[t], lists[Other(t)])

LEMMA Others == \A t \in Targets : Other(t) \in Targets /\ Other(t) # t /\ Other(Other(t)) = t
BY DEF Targets, Other

LEMMA TwoTargets == \A t, u \in Targets : u = t \/ u = Other(t)
BY DEF Targets, Other

LEMMA Records ==
  ASSUME NEW t \in Targets, NEW at \in Nat, NEW n \in Nat, NEW ins \in Seq(Messages)
  PROVE  [target |-> t, start |-> at, removed |-> n, inserted |-> ins] \in Splices
BY DEF Splices

LEMMA Applied ==
  ASSUME NEW lists \in Lists, NEW e \in Splices, Replays(lists, e)
  PROVE  /\ Apply(lists, e) \in Lists
         /\ NoRepeats(lists) => NoRepeats(Apply(lists, e))
<1> PICK t \in Targets, s \in Seq(Messages) : t = e.target /\ s = lists[t]
  BY DEF Splices, Lists
<1> PICK at \in Nat, n \in Nat, ins \in Seq(Messages) :
           at = e.start /\ n = e.removed /\ ins = e.inserted
  BY DEF Splices
<1>1. at \in 0 .. Len(s) /\ n \in 0 .. Len(s) - at
  <2>1. at \in Nat /\ n \in Nat /\ Len(s) \in Nat  BY LenProperties DEF Splices
  <2>2. at \in 0 .. Len(s) /\ at + n <= Len(s)  BY DEF Replays
  <2> QED  BY <2>1, <2>2
<1> PICK c : c = Spliced(s, at, n, ins)  OBVIOUS
<1>2. c \in Seq(Messages)  BY <1>1, SplicedType
<1>3. Candidate(lists, e) = c  BY DEF Candidate
<1>4. Apply(lists, e) = [lists EXCEPT ![t] = c]  BY <1>3 DEF Apply
<1>5. Distinct(c) /\ Disjoint(c, lists[Other(t)])  BY <1>3 DEF Replays, Accepts
<1>6. Apply(lists, e) \in Lists  BY <1>2, <1>4 DEF Lists
<1>7. /\ Apply(lists, e)[t] = c
      /\ \A u \in Targets : u # t => Apply(lists, e)[u] = lists[u]
  BY <1>4 DEF Lists
<1>8. ASSUME NoRepeats(lists), NEW u \in Targets
      PROVE  /\ Distinct(Apply(lists, e)[u])
             /\ Disjoint(Apply(lists, e)[u], Apply(lists, e)[Other(u)])
  <2> PICK after : after = Apply(lists, e)  OBVIOUS
  <2>1. CASE u = t
    <3>1. after[u] = c /\ after[Other(u)] = lists[Other(t)]  BY <1>7, <2>1, Others
    <3> QED  BY <1>5, <3>1
  <2>2. CASE u # t
    <3>1. u = Other(t) /\ Other(u) = t  BY <2>2, TwoTargets, Others
    <3>2. after[u] = lists[u] /\ after[Other(u)] = c  BY <1>7, <2>2, <3>1
    <3>3. Distinct(lists[u])  BY <1>8 DEF NoRepeats
    <3>4. Disjoint(lists[u], c)  BY <1>5, <3>1 DEF Disjoint
    <3> QED  BY <3>2, <3>3, <3>4
  <2> QED  BY <2>1, <2>2
<1> QED  BY <1>6, <1>8 DEF NoRepeats

LEMMA NormalisedSplice ==
  ASSUME NEW lists \in Lists, NEW t \in Targets, NEW start \in Int, NEW count \in Int,
         NEW ins \in Seq(Messages),
         Accepts(lists, Normalised(lists, t, start, count, ins))
  PROVE  /\ Normalised(lists, t, start, count, ins) \in Splices
         /\ Replays(lists, Normalised(lists, t, start, count, ins))
<1> PICK n \in Nat : n = Len(lists[t])  BY LenProperties DEF Lists
<1> DEFINE from == IF start < 0 THEN n + start ELSE start
<1>1. from \in Int  OBVIOUS
<1> HIDE DEF from
<1> PICK at \in 0 .. n : at = Clamp(from, 0, n)  BY <1>1 DEF Clamp
<1> PICK k \in 0 .. n - at : k = Clamp(count, 0, n - at)  BY DEF Clamp
<1> PICK e : e = [target |-> t, start |-> at, removed |-> k, inserted |-> ins]  OBVIOUS
<1>2. Normalised(lists, t, start, count, ins) = e  BY DEF Normalised, from
<1>3. e \in Splices  BY Records
<1>4. e.target = t /\ e.start = at /\ e.removed = k  OBVIOUS
<1>5. Replays(lists, e)  BY <1>2, <1>4 DEF Replays
<1> QED  BY <1>2, <1>3, <1>5

\* Messages taken from the front, as claim() and clear() do.
Front(t, n) == [target |-> t, start |-> 0, removed |-> n, inserted |-> <<>>]

LEMMA FrontSplice ==
  ASSUME NEW lists \in Lists, NoRepeats(lists), NEW t \in Targets,
         NEW n \in 0 .. Len(lists[t])
  PROVE  /\ Front(t, n) \in Splices
         /\ Replays(lists, Front(t, n))
         /\ Apply(lists, Front(t, n)) = [lists EXCEPT ![t] = Spliced(lists[t], 0, n, <<>>)]
         /\ NoEffect(Front(t, n)) => Apply(lists, Front(t, n)) = lists
<1> PICK s \in Seq(Messages) : s = lists[t]  BY DEF Lists
<1>1. Len(s) \in Nat /\ n \in Nat  BY LenProperties
<1>2. Front(t, n) \in Splices  BY <1>1, Records, EmptyList DEF Front
<1> PICK c : c = SubSeq(s, n + 1, Len(s))  OBVIOUS
<1>3. Spliced(s, 0, n, <<>>) = c  BY SplicedFront
<1>4. Candidate(lists, Front(t, n)) = c  BY <1>3 DEF Candidate, Front
<1>5. Apply(lists, Front(t, n)) = [lists EXCEPT ![t] = c]  BY <1>4 DEF Apply, Front
<1>6. /\ Len(c) = Len(s) - n
      /\ \A i \in 1 .. Len(s) - n : c[i] = s[n + i]
  <2>1. /\ Len(c) = IF n + 1 <= Len(s) THEN Len(s) - (n + 1) + 1 ELSE 0
        /\ \A i \in 1 .. Len(s) - (n + 1) + 1 : c[i] = s[n + 1 + i - 1]
    BY <1>1, Piece
  <2> QED  BY <1>1, <2>1
<1>7. Distinct(s) /\ Disjoint(s, lists[Other(t)])  BY DEF NoRepeats
<1>8. Distinct(c)
  <2> SUFFICES ASSUME NEW i \in 1 .. Len(c), NEW j \in 1 .. Len(c), c[i] = c[j]
               PROVE  i = j
    BY DEF Distinct
  <2>1. n + i \in 1 .. Len(s) /\ n + j \in 1 .. Len(s)  BY <1>1, <1>6
  <2>2. s[n + i] = s[n + j]  BY <1>6
  <2>3. n + i = n + j  BY <1>7, <2>1, <2>2 DEF Distinct
  <2> QED  BY <1>1, <1>6, <2>3
<1>9. Disjoint(c, lists[Other(t)])
  <2> SUFFICES ASSUME NEW i \in 1 .. Len(c), NEW j \in 1 .. Len(lists[Other(t)])
               PROVE  c[i] # lists[Other(t)][j]
    BY DEF Disjoint
  <2>1. n + i \in 1 .. Len(s) /\ c[i] = s[n + i]  BY <1>1, <1>6
  <2> QED  BY <1>7, <2>1 DEF Disjoint
<1>10. Replays(lists, Front(t, n))
  <2>1. Accepts(lists, Front(t, n))  BY <1>4, <1>8, <1>9 DEF Accepts, Front
  <2> QED  BY <1>1, <2>1 DEF Replays, Front
<1>11. ASSUME NoEffect(Front(t, n)) PROVE Apply(lists, Front(t, n)) = lists
  <2>1. n = 0  BY <1>11 DEF NoEffect, Front
  <2>2. Spliced(s, 0, 0, <<>>) = s  BY <1>1, SplicedNothing
  <2> QED  BY <1>3, <1>5, <2>1, <2>2 DEF Lists
<1> QED  BY <1>2, <1>3, <1>5, <1>10, <1>11

LEMMA FrontNormalised ==
  ASSUME NEW lists \in Lists, NEW t \in Targets
  PROVE  /\ Normalised(lists, t, 0, Len(lists[t]), <<>>) = Front(t, Len(lists[t]))
         /\ Normalised(lists, t, 0, 0, <<>>) = Front(t, 0)
         /\ lists[t] # <<>> => Normalised(lists, t, 0, 1, <<>>) = Front(t, 1)
         /\ lists[t] = <<>> => Normalised(lists, t, 0, 1, <<>>) = Front(t, 0)
<1> PICK s \in Seq(Messages) : s = lists[t]  BY DEF Lists
<1>1. Len(s) \in Nat /\ (s # <<>> => Len(s) >= 1) /\ (s = <<>> => Len(s) = 0)
  BY LenProperties, EmptySeq
<1> PICK n \in Nat : n = Len(s)  BY <1>1
<1>2. /\ Clamp(0, 0, n) = 0 /\ n - 0 = n
      /\ Clamp(n, 0, n) = n /\ Clamp(0, 0, n) = 0
      /\ n >= 1 => Clamp(1, 0, n) = 1
      /\ n = 0 => Clamp(1, 0, n) = 0
  BY DEF Clamp
<1> QED  BY <1>1, <1>2 DEF Normalised, Front

-----------------------------------------------------------------------------
(***************************************************************************)
(* The invariant: typed lists that hold each message once, and a log they  *)
(* follow.  The projection accepts the next event because the live lists   *)
(* hold no message twice; it reaches those lists because they follow the   *)
(* log so far.                                                             *)
(***************************************************************************)
LogInv ==
  /\ inbox \in Lists
  /\ log \in Seq(Splices)
  /\ NoRepeats(inbox)
  /\ \E g : Follows(g, log, inbox)

LEMMA InitLog == Init => LogInv
<1> SUFFICES ASSUME Init PROVE LogInv  OBVIOUS
<1>1. inbox \in Lists  BY EmptyList DEF Init, EmptyInbox, Lists
<1>2. log \in Seq(Splices)  BY EmptyList DEF Init
<1>3. \A t \in Targets : inbox[t] = <<>>  BY DEF Init, EmptyInbox
<1>4. NoRepeats(inbox)
  <2>1. Len(<<>>) = 0  OBVIOUS
  <2>2. Distinct(<<>>) /\ Disjoint(<<>>, <<>>)  BY <2>1 DEF Distinct, Disjoint
  <2> QED  BY <1>3, <2>2, Others DEF NoRepeats
<1> QED  BY <1>1, <1>2, <1>4, NothingFollows DEF Init, LogInv

LEMMA MutateLog ==
  ASSUME LogInv, NEW t \in Targets, NEW start \in Int, NEW count \in Int,
         NEW ins \in Seq(Messages), Mutate(t, start, count, ins)
  PROVE  LogInv'
<1> PICK e : e = Normalised(inbox, t, start, count, ins)  OBVIOUS
<1>1. Accepts(inbox, e) /\ log' = Append(log, e) /\ inbox' = Apply(inbox, e)
  BY DEF Mutate
<1>2. e \in Splices /\ Replays(inbox, e)  BY <1>1, NormalisedSplice DEF LogInv
<1>3. inbox' \in Lists /\ NoRepeats(inbox')  BY <1>1, <1>2, Applied DEF LogInv
<1>4. log' \in Seq(Splices)  BY <1>1, <1>2, AppendProperties DEF LogInv
<1>5. \E g : Follows(g, log', inbox')  BY <1>1, <1>2, FollowsOneMore DEF LogInv
<1> QED  BY <1>3, <1>4, <1>5 DEF LogInv

LEMMA Located ==
  ASSUME LogInv, NEW m \in Messages, IsPending(m)
  PROVE  Holder(m) \in Targets /\ At(Holder(m), m) - 1 \in Int
<1> PICK t \in Targets : t = Holder(m)  BY DEF Holder, Targets
<1> PICK s \in Seq(Messages) : s = inbox[t]  BY DEF LogInv, Lists
<1>1. \E i \in 1 .. Len(s) : s[i] = m  BY DEF IsPending, Holder, Targets
<1>2. At(t, m) \in 1 .. Len(s)  BY <1>1 DEF At
<1> QED  BY <1>2, LenProperties

\* Two batches taken from the front, one from each list.
LEMMA BatchesLog ==
  ASSUME LogInv, NEW k \in 0 .. Len(inbox["next-turn"]),
         log' = log \o (Effective(Front("next-step", Len(inbox["next-step"])))
                          \o Effective(Front("next-turn", k))),
         inbox' = Apply(Apply(inbox, Front("next-step", Len(inbox["next-step"]))),
                        Front("next-turn", k))
  PROVE  LogInv'
<1>1. "next-step" \in Targets /\ "next-turn" \in Targets  BY DEF Targets
<1>2. inbox["next-step"] \in Seq(Messages)  BY <1>1 DEF LogInv, Lists
<1> PICK n \in Nat : n = Len(inbox["next-step"])  BY <1>2, LenProperties
<1> PICK a : a = Front("next-step", n)  OBVIOUS
<1> PICK b : b = Front("next-turn", k)  OBVIOUS
<1>3. /\ a \in Splices /\ Replays(inbox, a)
      /\ Apply(inbox, a) = [inbox EXCEPT !["next-step"] = Spliced(inbox["next-step"], 0, n, <<>>)]
      /\ NoEffect(a) => Apply(inbox, a) = inbox
  <2>1. n \in 0 .. Len(inbox["next-step"])  OBVIOUS
  <2> QED  BY <1>1, <2>1, FrontSplice DEF LogInv
<1> PICK mid : mid = Apply(inbox, a)  OBVIOUS
<1>4. mid \in Lists /\ NoRepeats(mid)  BY <1>3, Applied DEF LogInv
<1>5. mid["next-turn"] = inbox["next-turn"]  BY <1>1, <1>3 DEF LogInv, Lists
<1>6. /\ b \in Splices /\ Replays(mid, b)
      /\ NoEffect(b) => Apply(mid, b) = mid
  <2>1. k \in 0 .. Len(mid["next-turn"])  BY <1>5
  <2> QED  BY <1>1, <1>4, <2>1, FrontSplice
<1> PICK half : half = log \o Effective(a)  OBVIOUS
<1>7. half \in Seq(Splices) /\ \E g : Follows(g, half, mid)
  BY <1>3, FollowsEffective DEF LogInv
<1>8. half \o Effective(b) \in Seq(Splices)
      /\ \E g : Follows(g, half \o Effective(b), Apply(mid, b))
  BY <1>6, <1>7, FollowsEffective
<1>9. log' = half \o Effective(b)
  <2>1. log \in Seq(Splices)  BY DEF LogInv
  <2>2. log \o (Effective(a) \o Effective(b)) = (log \o Effective(a)) \o Effective(b)
    BY <1>3, <1>6, <2>1, TwoEffective
  <2> QED  BY <2>2
<1>10. inbox' = Apply(mid, b)  OBVIOUS
<1>11. inbox' \in Lists /\ NoRepeats(inbox')  BY <1>4, <1>6, <1>10, Applied
<1> QED  BY <1>8, <1>9, <1>10, <1>11 DEF LogInv

\* What claim() normalises: both batches start at the front.
LEMMA ClaimBatches ==
  ASSUME LogInv, NEW target \in Targets
  PROVE  /\ ClaimSteps = Front("next-step", Len(inbox["next-step"]))
         /\ \E k \in 0 .. Len(inbox["next-turn"]) :
              /\ ClaimTurns(target) = Front("next-turn", k)
              /\ k = IF target = "next-turn" /\ inbox["next-turn"] # <<>> THEN 1 ELSE 0
         /\ Apply(inbox, ClaimSteps) = [inbox EXCEPT !["next-step"] = <<>>]
<1>1. "next-step" \in Targets /\ "next-turn" \in Targets  BY DEF Targets
<1> PICK s \in Seq(Messages) : s = inbox["next-step"]  BY <1>1 DEF LogInv, Lists
<1> PICK q \in Seq(Messages) : q = inbox["next-turn"]  BY <1>1 DEF LogInv, Lists
<1>2. Len(s) \in Nat /\ Len(q) \in Nat /\ (q # <<>> => Len(q) >= 1)
  BY LenProperties, EmptySeq
<1>3. ClaimSteps = Front("next-step", Len(s))
  BY <1>1, FrontNormalised DEF ClaimSteps, LogInv
<1>4. Apply(inbox, ClaimSteps) = [inbox EXCEPT !["next-step"] = <<>>]
  <2>1. Apply(inbox, Front("next-step", Len(s)))
          = [inbox EXCEPT !["next-step"] = Spliced(s, 0, Len(s), <<>>)]
    BY <1>1, <1>2, FrontSplice DEF LogInv
  <2>2. Spliced(s, 0, Len(s), <<>>) = <<>>  BY SplicedAll
  <2> QED  BY <1>3, <2>1, <2>2
<1> PICK mid : mid = Apply(inbox, ClaimSteps)  OBVIOUS
<1>5. mid \in Lists /\ mid["next-turn"] = q  BY <1>1, <1>4, EmptyList DEF LogInv, Lists
<1>6. ClaimTurns(target) = Front("next-turn", IF target = "next-turn" /\ q # <<>> THEN 1 ELSE 0)
  <2>1. ClaimTurns(target)
          = Normalised(mid, "next-turn", 0, IF target = "next-turn" THEN 1 ELSE 0, <<>>)
    BY DEF ClaimTurns
  <2>2. CASE target # "next-turn"  BY <1>1, <1>5, <2>1, <2>2, FrontNormalised
  <2>3. CASE target = "next-turn"  BY <1>1, <1>5, <2>1, <2>3, FrontNormalised
  <2> QED  BY <2>2, <2>3
<1> PICK k : k = IF target = "next-turn" /\ q # <<>> THEN 1 ELSE 0  OBVIOUS
<1>7. k \in 0 .. Len(q)  BY <1>2
<1> QED  BY <1>3, <1>4, <1>6, <1>7

LEMMA ClaimLog == ASSUME LogInv, Claim PROVE LogInv'
<1> PICK target \in Targets :
           /\ log' = log \o (Effective(ClaimSteps) \o Effective(ClaimTurns(target)))
           /\ inbox' = Apply(Apply(inbox, ClaimSteps), ClaimTurns(target))
  BY DEF Claim, Claimed
<1> PICK k \in 0 .. Len(inbox["next-turn"]) : ClaimTurns(target) = Front("next-turn", k)
  BY ClaimBatches
<1>1. ClaimSteps = Front("next-step", Len(inbox["next-step"]))  BY ClaimBatches
<1> QED  BY <1>1, BatchesLog

LEMMA ClearLog == ASSUME LogInv, Clear PROVE LogInv'
<1>1. "next-step" \in Targets /\ "next-turn" \in Targets  BY DEF Targets
<1> PICK s \in Seq(Messages) : s = inbox["next-step"]  BY <1>1 DEF LogInv, Lists
<1> PICK q \in Seq(Messages) : q = inbox["next-turn"]  BY <1>1 DEF LogInv, Lists
<1>2. Len(s) \in Nat /\ Len(q) \in Nat  BY LenProperties
<1> PICK a : a = Front("next-step", Len(s))  OBVIOUS
<1> PICK b : b = Front("next-turn", Len(q))  OBVIOUS
<1>3. /\ Normalised(inbox, "next-step", 0, Len(s), <<>>) = a
      /\ Normalised(inbox, "next-turn", 0, Len(q), <<>>) = b
  BY <1>1, FrontNormalised DEF LogInv
<1>4. log' = log \o (Effective(a) \o Effective(b)) /\ inbox' = EmptyInbox
  BY <1>3 DEF Clear
<1>5. Apply(inbox, a) = [inbox EXCEPT !["next-step"] = <<>>]
  <2>1. Apply(inbox, a) = [inbox EXCEPT !["next-step"] = Spliced(s, 0, Len(s), <<>>)]
    <3>1. inbox \in Lists /\ NoRepeats(inbox)  BY DEF LogInv
    <3> PICK k \in 0 .. Len(inbox["next-step"]) : k = Len(s)  BY <1>2
    <3>2. Apply(inbox, Front("next-step", k))
            = [inbox EXCEPT !["next-step"] = Spliced(inbox["next-step"], 0, k, <<>>)]
      BY <1>1, <3>1, FrontSplice
    <3> QED  BY <3>2
  <2> QED  BY <2>1, SplicedAll
<1> PICK mid : mid = Apply(inbox, a)  OBVIOUS
<1>6. mid \in Lists /\ NoRepeats(mid)
  BY <1>1, <1>2, FrontSplice, Applied DEF LogInv
<1>7. mid["next-turn"] = q /\ mid["next-step"] = <<>>  BY <1>1, <1>5 DEF LogInv, Lists
<1>8. Apply(mid, b) = [mid EXCEPT !["next-turn"] = <<>>]
  <2>1. Apply(mid, b) = [mid EXCEPT !["next-turn"] = Spliced(q, 0, Len(q), <<>>)]
    BY <1>1, <1>2, <1>6, <1>7, FrontSplice
  <2> QED  BY <2>1, SplicedAll
<1>9. Apply(mid, b) = EmptyInbox
  BY <1>6, <1>7, <1>8 DEF Lists, EmptyInbox, Targets
<1>10. Len(q) \in 0 .. Len(inbox["next-turn"])  BY <1>2
<1>11. /\ log' = log \o (Effective(Front("next-step", Len(inbox["next-step"])))
                          \o Effective(Front("next-turn", Len(q))))
       /\ inbox' = Apply(Apply(inbox, Front("next-step", Len(inbox["next-step"]))),
                         Front("next-turn", Len(q)))
  BY <1>4, <1>9
<1> QED  BY <1>10, <1>11, BatchesLog

LEMMA StepLog == LogInv /\ [Next]_vars => LogInv'
<1> SUFFICES ASSUME LogInv, [Next]_vars PROVE LogInv'  OBVIOUS
<1>0. \A m \in Messages : <<m>> \in Seq(Messages)  BY OneItem
<1>1. CASE Splice
  <2> PICK t \in Targets, start \in -Span .. Span, count \in -1 .. Span :
             \/ Mutate(t, start, count, <<>>)
             \/ \E m \in Messages : Mutate(t, start, count, <<m>>)
    BY <1>1 DEF Splice
  <2>1. start \in Int /\ count \in Int  BY InboxLogConstants
  <2> QED  BY <1>0, <2>1, EmptyList, MutateLog
<1>2. CASE Prepend  BY <1>0, <1>2, MutateLog DEF Prepend
<1>3. CASE Replace
  <2> PICK old \in Messages, new \in Messages :
             IsPending(old) /\ Mutate(Holder(old), At(Holder(old), old) - 1, 1, <<new>>)
    BY <1>3 DEF Replace
  <2> PICK t \in Targets, at \in Int : t = Holder(old) /\ at = At(Holder(old), old) - 1
    BY Located
  <2> PICK n \in Int : n = 1  OBVIOUS
  <2> PICK ins \in Seq(Messages) : ins = <<new>>  BY <1>0
  <2>1. Mutate(t, at, n, ins)  OBVIOUS
  <2> QED  BY <2>1, MutateLog
<1>4. CASE Remove
  <2> PICK m \in Messages : IsPending(m) /\ Mutate(Holder(m), At(Holder(m), m) - 1, 1, <<>>)
    BY <1>4 DEF Remove
  <2> PICK t \in Targets, at \in Int : t = Holder(m) /\ at = At(Holder(m), m) - 1
    BY Located
  <2> PICK n \in Int : n = 1  OBVIOUS
  <2> PICK ins \in Seq(Messages) : ins = <<>>  BY EmptyList
  <2>1. Mutate(t, at, n, ins)  OBVIOUS
  <2> QED  BY <2>1, MutateLog
<1>5. CASE Claim  BY <1>5, ClaimLog
<1>6. CASE Clear  BY <1>6, ClearLog
<1>7. CASE UNCHANGED vars  BY <1>7 DEF vars, LogInv
<1> QED  BY <1>1, <1>2, <1>3, <1>4, <1>5, <1>6, <1>7 DEF Next

LEMMA LogInvariant == Spec => []LogInv
BY InitLog, StepLog, PTL DEF Spec

(***************************************************************************)
(* A process restarted after any number of splices, claims and clears      *)
(* rebuilds its inbox: the projection of inbox.ts rejects no event that    *)
(* mutate() committed, and the replayed lists are the live ones.           *)
(***************************************************************************)
THEOREM InboxCorrect == Spec => []InboxInv
<1>1. ASSUME LogInv PROVE InboxInv
  <2>1. TypeOK
    <3>1. \A i \in 1 .. Len(log) : log[i] \in Splices  BY <1>1, ElementOfSeq DEF LogInv
    <3> QED  BY <1>1, <3>1 DEF LogInv, TypeOK, Lists, Splices
  <2>2. LogReplays  BY <1>1, FollowedReplays DEF LogInv
  <2> QED  BY <2>1, <2>2 DEF InboxInv
<1> QED  BY <1>1, LogInvariant, PTL

(***************************************************************************)
(* claim() logs the removal of exactly the batch its boundary admits       *)
(* (next-step input, then at most one queued prompt), whatever the lists,  *)
(* and leaves the rest in its order.                                       *)
(***************************************************************************)
THEOREM ClaimCorrect == Spec => []ClaimTakesBoundaryBatch
<1>1. ASSUME LogInv, NEW target \in Targets
      PROVE  /\ Claimed(target) = Unclaimed(inbox, target)
             /\ inbox["next-step"] \o SubSeq(inbox["next-turn"], 1, ClaimTurns(target).removed)
                  = Batch(inbox, target)
  <2>1. "next-step" \in Targets /\ "next-turn" \in Targets  BY DEF Targets
  <2> PICK s \in Seq(Messages) : s = inbox["next-step"]  BY <1>1, <2>1 DEF LogInv, Lists
  <2> PICK q \in Seq(Messages) : q = inbox["next-turn"]  BY <1>1, <2>1 DEF LogInv, Lists
  <2> PICK k \in 0 .. Len(q) : /\ ClaimTurns(target) = Front("next-turn", k)
                               /\ k = IF target = "next-turn" /\ q # <<>> THEN 1 ELSE 0
    BY <1>1, ClaimBatches
  <2> PICK mid : mid = Apply(inbox, ClaimSteps)  OBVIOUS
  <2>2. mid = [inbox EXCEPT !["next-step"] = <<>>]  BY <1>1, ClaimBatches
  <2>3. mid["next-turn"] = q /\ mid["next-step"] = <<>> /\ mid \in Lists
    BY <1>1, <2>1, <2>2, EmptyList DEF LogInv, Lists
  <2>4. Spliced(q, 0, k, <<>>) = IF k = 1 THEN Tail(q) ELSE q
    <3>1. CASE k = 0  BY <3>1, LenProperties, SplicedNothing
    <3>2. CASE k = 1
      <4>1. q # <<>>  BY <3>2
      <4> QED  BY <3>2, <4>1, SplicedHead
    <3> QED  BY <3>1, <3>2
  <2>5. Claimed(target) = [mid EXCEPT !["next-turn"] = Spliced(q, 0, k, <<>>)]
    <3> PICK b : b = Front("next-turn", k)  OBVIOUS
    <3>1. b.target = "next-turn" /\ b.start = 0 /\ b.removed = k /\ b.inserted = <<>>
      BY DEF Front
    <3>2. Candidate(mid, b) = Spliced(q, 0, k, <<>>)  BY <2>3, <3>1 DEF Candidate
    <3>3. Claimed(target) = Apply(mid, b)  BY DEF Claimed
    <3> QED  BY <3>1, <3>2, <3>3 DEF Apply
  <2>6. Claimed(target) = Unclaimed(inbox, target)
    <3>1. Claimed(target) = [mid EXCEPT !["next-turn"] = IF k = 1 THEN Tail(q) ELSE q]
      BY <2>4, <2>5
    <3> PICK rest : rest = IF k = 1 THEN Tail(q) ELSE q  OBVIOUS
    <3>2. rest = IF target = "next-turn" /\ inbox["next-turn"] # <<>>
                 THEN Tail(inbox["next-turn"]) ELSE inbox["next-turn"]
      OBVIOUS
    <3>3. Unclaimed(inbox, target) = [t \in Targets |-> IF t = "next-step" THEN <<>> ELSE rest]
      BY <3>2 DEF Unclaimed, Targets
    <3>4. [mid EXCEPT !["next-turn"] = rest]
            = [t \in Targets |-> IF t = "next-step" THEN <<>> ELSE rest]
      BY <2>3 DEF Lists, Targets
    <3> QED  BY <3>1, <3>3, <3>4
  <2>7. s \o SubSeq(q, 1, k) = Batch(inbox, target)
    <3>1. CASE k = 0
      <4>1. SubSeq(q, 1, k) = <<>>  BY <3>1, SubSeqEmpty
      <4>2. ~(target = "next-turn" /\ q # <<>>)  BY <3>1
      <4>3. Batch(inbox, target) = s \o <<>>  BY <4>2 DEF Batch
      <4> QED  BY <4>1, <4>3
    <3>2. CASE k = 1
      <4>1. q # <<>> /\ target = "next-turn"  BY <3>2
      <4>2. SubSeq(q, 1, 1) = <<Head(q)>>
        <5>1. Len(q) \in Nat \ {0}  BY <4>1, EmptySeq
        <5>2. SubSeq(q, 1, 1) \in Seq(Messages) /\ Len(SubSeq(q, 1, 1)) = 1
              /\ SubSeq(q, 1, 1)[1] = q[1]
          <6>1. 1 \in Nat \ {0} /\ 1 \in 0 .. Len(q)  BY <5>1
          <6>2. /\ SubSeq(q, 1, 1) \in Seq(Messages)
                /\ Len(SubSeq(q, 1, 1)) = IF 1 <= 1 THEN 1 - 1 + 1 ELSE 0
                /\ \A i \in 1 .. 1 - 1 + 1 : SubSeq(q, 1, 1)[i] = q[1 + i - 1]
            BY <6>1, Piece
          <6> QED  BY <6>2
        <5>3. Head(q) = q[1] /\ Head(q) \in Messages  BY <4>1, HeadTailProperties
        <5>4. /\ <<Head(q)>> \in Seq(Messages) /\ Len(<<Head(q)>>) = 1
              /\ <<Head(q)>>[1] = Head(q)
          BY <5>3, OneItem
        <5> PICK one : one = <<Head(q)>>  OBVIOUS
        <5> PICK piece : piece = SubSeq(q, 1, 1)  OBVIOUS
        <5>5. /\ one \in Seq(Messages) /\ piece \in Seq(Messages)
              /\ Len(one) = Len(piece) /\ \A i \in 1 .. Len(one) : one[i] = piece[i]
          BY <5>2, <5>3, <5>4
        <5>6. one = piece  BY <5>5, SeqEqual
        <5> QED  BY <5>6
      <4> QED  BY <3>2, <4>1, <4>2 DEF Batch
    <3> QED  BY <3>1, <3>2
  <2>8. ClaimTurns(target).removed = k  BY DEF Front
  <2> QED  BY <2>6, <2>7, <2>8
<1>2. LogInv => ClaimTakesBoundaryBatch  BY <1>1 DEF ClaimTakesBoundaryBatch
<1> QED  BY <1>2, LogInvariant, PTL
=============================================================================
