--------------------------- MODULE GoalRoundsProofs ---------------------------
(***************************************************************************)
(* Proofs about GoalRounds, for any limits and any number of messages,     *)
(* operations and mishaps.                                                 *)
(*                                                                         *)
(* A world is good (Good) when it is one of the program's worlds, the      *)
(* fences hold in it (Fenced) and so does the account of the checkpoints   *)
(* (Flushes).  There is a lemma for every operator from worlds to worlds:  *)
(* of a good world it makes a good one.  An action is such an operator     *)
(* applied to the current world, so its proof follows the handler.         *)
(*                                                                         *)
(* Fenced: no step has two rounds, no round of the live revision is beyond *)
(* its limit, what goes on to the log has passed the second fence and is   *)
(* still what the fold expects, and once the plugin is unloading, a step   *)
(* with a round is one the unloading awaits.                               *)
(* Flushes: as long as the driver may go on without another checkpoint,    *)
(* all that is logged is flushed or in the flush some loop awaits.         *)
(*                                                                         *)
(* A second invariant, on top of a good world, is about the inbox          *)
(* (Ordered): where the reservation is, and what waits in front of it.     *)
(***************************************************************************)
EXTENDS GoalRounds, SequenceTheorems, FiniteSetTheorems, WellFoundedInduction, TLAPS

(* The types. *)

Sents == [kind : {"sent"}, id : 1..MaxSent, ref : {0}, round : {0}]
RoundMessages == [kind : {"round"}, id : Nat, ref : Nat, round : 0..MaxRounds]
Messages == Sents \cup RoundMessages

Agents ==
  [kind : {"idle", "maintenance", "running"},
   pc : {"none", "assembling", "hooks", "preparing", "streaming", "rejected",
         "between", "retiring"},
   abort : BOOLEAN, latch : BOOLEAN, batch : Seq(Messages), guarded : BOOLEAN]
Inboxes == {f \in [Targets -> Seq(Messages)] : f["next-step"] \in Seq(Sents)}
Attempts == [at : {"none", "queued", "claimed", "admitted"}, message : RoundMessages,
             cancelled : BOOLEAN, stale : BOOLEAN, sent : Nat]
LoopIds == Nat \ {0}
Loops == [id : LoopIds, at : {"flush", "again", "retire"}, covers : Nat]
Drivers ==
  [life : {"loaded", "stopping", "gone"}, attempt : Attempts, competing : BOOLEAN,
   checkpoint : BOOLEAN, requested : BOOLEAN, run : Nat, loops : SUBSET Loops,
   waker : [loop : Nat, first : BOOLEAN], awaits : Nat, awaitsIdle : BOOLEAN]
Pasts == [logged : Nat, saved : Nat, slipped : BOOLEAN, orphan : BOOLEAN, dropped : BOOLEAN]

Worlds == [goal : Goals, agent : Agents, inbox : Inboxes, driver : Drivers, past : Pasts]

-----------------------------------------------------------------------------
(* The fences. *)

Stages(w) ==
  /\ w.agent.pc = "none" <=> w.agent.kind # "running"
  /\ w.agent.pc \in {"none", "between", "retiring"} => w.agent.batch = <<>>

OneRound(messages) ==
  \A i, j \in DOMAIN messages : IsRound(messages[i]) /\ IsRound(messages[j]) => i = j

\* A round of the live revision is within its limit.
Within(g, m) == IsRound(m) => m.ref <= g.ref /\ (m.ref = g.ref => m.round <= g.limit)
Limits(w) ==
  /\ w.goal.rounds <= MaxRounds /\ w.goal.limit <= MaxRounds
  /\ \A m \in Elements(w.agent.batch) \cup Elements(w.inbox["next-turn"]) : Within(w.goal, m)

Excused(w) == w.past.slipped \/ w.past.orphan

\* A fence has let the round in, and it is still the one the fold expects.
Fences(w) ==
  /\ w.goal.failed => Excused(w)
  /\ w.agent.pc = "hooks" /\ HasRound(w.agent.batch) => w.agent.guarded \/ w.driver.life = "gone"
  /\ w.agent.pc = "preparing" /\ HasRound(w.agent.batch) /\ ~Excused(w) =>
       FoldsRound(w.goal, FirstRound(w.agent.batch).ref, FirstRound(w.agent.batch).round)

\* What the unloading awaits, or has given up on.
Unloading(w) ==
  /\ w.driver.life = "loaded" => ~w.past.orphan
  /\ w.driver.life # "loaded" /\ ~w.past.orphan =>
       /\ ~HasRound(w.inbox["next-turn"])
       /\ HasRound(w.agent.batch) => w.driver.life = "stopping" /\ w.driver.awaitsIdle

Fenced(w) ==
  Stages(w) /\ OneRound(w.agent.batch) /\ Limits(w) /\ Fences(w) /\ Unloading(w)

-----------------------------------------------------------------------------
(* The checkpoints. *)

\* The driver may queue a round without another checkpoint.
Owing(w) ==
  w.driver.life = "loaded" /\ ~w.driver.checkpoint /\ Continues(w.goal) /\ ~w.goal.failed
Covers(w, l) == l.at = "flush" /\ l.covers = w.past.logged
Flushed(w) == w.past.saved = w.past.logged \/ \E l \in w.driver.loops : Covers(w, l)
\* ... but for the loop `id`, which is about to move on.
FlushedBut(w, id) ==
  w.past.saved = w.past.logged \/ \E l \in w.driver.loops : l.id # id /\ Covers(w, l)

LoopsApart(loops) == \A l, m \in loops : l.id = m.id => l = m
Flushes(w) ==
  /\ IsFiniteSet(w.driver.loops) /\ LoopsApart(w.driver.loops)
  /\ w.past.saved <= w.past.logged
  /\ \A l \in w.driver.loops : l.covers <= w.past.logged
  /\ Owing(w) => Flushed(w)

Good(w) == w \in Worlds /\ Fenced(w) /\ Flushes(w)

-----------------------------------------------------------------------------
(***************************************************************************)
(* Induction over a set of numbers, which a minimal counterexample gives:  *)
(* with it, what a recursive function returns can be proved.               *)
(***************************************************************************)
LEMMA WellFoundedSetInduction ==
  ASSUME NEW less, IsWellFoundedOn(less, Nat), \A m, n \in Nat : m < n => <<m, n>> \in less,
         NEW S \in SUBSET Nat, 0 \in S, \A n \in S : n + 1 \in S
  PROVE  S = Nat
<1>1. SUFFICES ASSUME Nat \ S # {} PROVE FALSE  OBVIOUS
<1>2. PICK C : C = Nat \ S  OBVIOUS
<1>3. PICK n \in C : \A m \in C : <<m, n>> \notin less
  <2>1. C \subseteq Nat /\ C # {}  BY <1>1, <1>2
  <2> QED  BY ONLY <2>1, WFMin, IsWellFoundedOn(less, Nat)
<1>4. n - 1 \in Nat /\ n - 1 < n /\ (n - 1) + 1 = n  BY <1>2, <1>3
<1>5. n - 1 \in S  BY <1>2, <1>3, <1>4
<1> QED  BY <1>2, <1>3, <1>4, <1>5

LEMMA SetInduction ==
  ASSUME NEW S \in SUBSET Nat, 0 \in S, \A n \in S : n + 1 \in S
  PROVE  S = Nat
<1>1. \A m, n \in Nat : m < n => <<m, n>> \in OpToRel(<, Nat)  BY DEF OpToRel
<1>2. IsWellFoundedOn(OpToRel(<, Nat), Nat)  BY NatLessThanWellFounded
<1> QED  BY <1>1, <1>2, WellFoundedSetInduction

\* What Kept computes, step by step.
LEMMA KeptType ==
  ASSUME NEW S, NEW s \in Seq(S), NEW R
  PROVE  Kept(s, R) \in Seq(R)
<1> DEFINE Step(f, n) == IF n = 0 THEN <<>>
                         ELSE IF s[n] \in R THEN Append(f[n - 1], s[n]) ELSE f[n - 1]
           Computes(f, k) == f \in [0 .. k -> Seq(R)] /\ \A n \in 0 .. k : f[n] = Step(f, n)
           Reached == {k \in Nat : \E f : Computes(f, k)}
<1>1. 0 \in Reached
  <2>1. Computes([n \in 0 .. 0 |-> <<>>], 0)  BY EmptySeq
  <2> QED  BY <2>1
<1>2. ASSUME NEW k \in Reached PROVE k + 1 \in Reached
  <2>1. PICK f : Computes(f, k)  BY <1>2
  <2> DEFINE g == [n \in 0 .. k + 1 |->
                    IF n = k + 1 THEN IF s[n] \in R THEN Append(f[k], s[n]) ELSE f[k]
                    ELSE f[n]]
  <2>2. k \in Nat /\ f[k] \in Seq(R)  BY <2>1
  <2>3. g \in [0 .. k + 1 -> Seq(R)]  BY <2>1, <2>2, AppendProperties
  <2>4. ASSUME NEW n \in 0 .. k + 1 PROVE g[n] = Step(g, n)
    <3>1. CASE n = k + 1  BY <3>1, <2>2
    <3>2. CASE n \in 0 .. k
      <4>1. g[n] = f[n]  BY <3>2, <2>2
      <4>2. f[n] = Step(f, n)  BY <3>2, <2>1
      <4>3. n # 0 => n - 1 \in 0 .. k + 1 /\ n - 1 # k + 1  BY <3>2, <2>2
      <4>4. n # 0 => g[n - 1] = f[n - 1]  BY <4>3
      <4> HIDE DEF g
      <4> QED  BY <4>1, <4>2, <4>4
    <3> QED  BY <3>1, <3>2, <2>2
  <2> HIDE DEF g, Step
  <2>5. k + 1 \in Nat /\ Computes(g, k + 1)  BY <2>2, <2>3, <2>4
  <2> HIDE DEF Computes
  <2> QED  BY <2>5
<1>3. Reached = Nat  
  <2> HIDE DEF Reached
  <2>1. Reached \subseteq Nat BY DEF Reached
  <2> QED BY <1>1, <1>2, <2>1, SetInduction
<1>4. Len(s) \in Nat  BY LenProperties
<1>5. PICK f : Computes(f, Len(s))  BY <1>3, <1>4
<1> DEFINE F == CHOOSE g : g = [n \in 0 .. Len(s) |-> Step(g, n)]
<1>6. f = [n \in 0 .. Len(s) |-> Step(f, n)]  BY <1>5
<1>7. F = [n \in 0 .. Len(s) |-> Step(F, n)]  BY <1>6
<1>8. Kept(s, R) = F[Len(s)]  BY DEF Kept
<1> DEFINE Typed == {n \in Nat : n <= Len(s) => F[n] \in Seq(R)}
<1> HIDE DEF F
<1>9. 0 \in Typed  BY <1>4, <1>7, EmptySeq
<1>10. ASSUME NEW n \in Typed PROVE n + 1 \in Typed
  <2> SUFFICES ASSUME n + 1 <= Len(s) PROVE F[n + 1] \in Seq(R)  OBVIOUS
  <2>1. n \in Nat /\ n + 1 \in 0 .. Len(s) /\ F[n] \in Seq(R)  BY <1>4
  <2>2. F[n + 1] = IF s[n + 1] \in R THEN Append(F[n], s[n + 1]) ELSE F[n]
    <3>1. F[n + 1] = Step(F, n + 1)  BY <1>7, <2>1
    <3>2. n + 1 # 0 /\ (n + 1) - 1 = n  BY <2>1
    <3> QED  BY <3>1, <3>2
  <2> QED  BY <2>1, <2>2, AppendProperties
<1>11. Typed = Nat
  <2>1. Typed \subseteq Nat  OBVIOUS
  <2> HIDE DEF Typed
  <2> QED  BY <1>9, <1>10, <2>1, SetInduction
<1> QED  BY <1>4, <1>8, <1>11

-----------------------------------------------------------------------------
(* Numbers that are free, and what sequences hold. *)

LEMMA FreeNumber ==
  ASSUME NEW S, IsFiniteSet(S)
  PROVE  \E i \in 1..Cardinality(S) + 1 : i \notin S
<1>1. Cardinality(S) \in Nat  BY FS_CardinalityType
<1>2. SUFFICES ASSUME 1..Cardinality(S) + 1 \subseteq S PROVE FALSE  OBVIOUS
<1>3. Cardinality(1..Cardinality(S) + 1) <= Cardinality(S)  BY <1>2, FS_Subset
<1>4. Cardinality(1..Cardinality(S) + 1) = Cardinality(S) + 1  BY <1>1, FS_Interval
<1> QED  BY <1>1, <1>3, <1>4

LEMMA Image ==
  ASSUME NEW S, IsFiniteSet(S), NEW f
  PROVE  IsFiniteSet({f[x] : x \in S}) /\ Cardinality({f[x] : x \in S}) <= Cardinality(S)
<1> DEFINE T == {f[x] : x \in S}
           g == [x \in S |-> f[x]]
<1>1. g \in Surjection(S, T)  BY DEF Surjection
<1> HIDE DEF g, T
<1> QED  BY <1>1, FS_Surjection DEF T

LEMMA FreshLoop ==
  ASSUME NEW w, w.driver.loops \subseteq Loops, IsFiniteSet(w.driver.loops)
  PROVE  FreeId(w) \in LoopIds /\ \A l \in w.driver.loops : l.id # FreeId(w)
<1> DEFINE Ids == {l.id : l \in w.driver.loops}
<1>1. IsFiniteSet(Ids) /\ Cardinality(Ids) <= Cardinality(w.driver.loops)
  <2> DEFINE idOf == [l \in w.driver.loops |-> l.id]
  <2>1. Ids = {idOf[l] : l \in w.driver.loops}  OBVIOUS
  <2> HIDE DEF idOf, Ids
  <2> QED  BY <2>1, Image
<1>2. Cardinality(Ids) \in Nat /\ Cardinality(w.driver.loops) \in Nat  BY <1>1, FS_CardinalityType
<1>3. PICK i \in 1..Cardinality(Ids) + 1 : i \notin Ids  BY <1>1, FreeNumber
<1>4. i \in 1..Cardinality(w.driver.loops) + 1 /\ \A l \in w.driver.loops : l.id # i
  BY <1>1, <1>2, <1>3
<1>5. FreeId(w) \in 1..Cardinality(w.driver.loops) + 1 /\ \A l \in w.driver.loops : l.id # FreeId(w)
  BY <1>4 DEF FreeId
<1> QED  BY <1>2, <1>5 DEF LoopIds

LEMMA ElementsType ==
  ASSUME NEW S, NEW s \in Seq(S)
  PROVE  Elements(s) \subseteq S /\ IsFiniteSet(Elements(s))
<1>1. Len(s) \in Nat /\ DOMAIN s = 1..Len(s) /\ \A i \in 1..Len(s) : s[i] \in S
  BY LenProperties, ElementOfSeq
<1>2. IsFiniteSet(1..Len(s))  BY <1>1, FS_Interval
<1>3. IsFiniteSet({s[i] : i \in 1..Len(s)})  BY <1>2, Image
<1> QED  BY <1>1, <1>3 DEF Elements

LEMMA PendingElements ==
  ASSUME NEW f \in Inboxes
  PROVE  Pending(f) = Elements(f["next-turn"]) \cup Elements(f["next-step"])
<1>1. f["next-turn"] \in Seq(Messages) /\ f["next-step"] \in Seq(Messages)
  BY DEF Inboxes, Targets
<1>2. \A t \in Targets : DOMAIN f[t] = 1..Len(f[t])  BY <1>1, LenProperties DEF Targets
<1>3. \A t \in Targets : {f[t][i] : i \in 1..Len(f[t])} = Elements(f[t])  BY <1>2 DEF Elements
<1>4. Pending(f) = UNION {{f[t][i] : i \in 1..Len(f[t])} : t \in Targets}  BY DEF Pending
<1> QED  BY <1>3, <1>4 DEF Targets

LEMMA FreshMessage ==
  ASSUME NEW w \in Worlds
  PROVE  /\ FreshId(w) \in Nat \ {0}
         /\ \A x \in Elements(w.inbox["next-turn"]) \cup Elements(w.agent.batch) :
              IsRound(x) => x.id # FreshId(w)
<1> DEFINE all == Pending(w.inbox) \cup Elements(w.agent.batch)
           chosen == {x \in all : IsRound(x)}
           taken == {m.id : m \in chosen}
<1>1. w.inbox \in Inboxes /\ w.agent.batch \in Seq(Messages)  BY DEF Worlds, Agents
<1>2. w.inbox["next-turn"] \in Seq(Messages) /\ w.inbox["next-step"] \in Seq(Messages)
  BY <1>1 DEF Inboxes, Targets
<1>3. IsFiniteSet(all)  BY <1>1, <1>2, ElementsType, PendingElements, FS_Union
<1>4. IsFiniteSet(chosen)  BY <1>3, FS_Subset
<1>5. IsFiniteSet(taken)
  <2> DEFINE idOf == [m \in chosen |-> m.id]
  <2>1. taken = {idOf[m] : m \in chosen}  OBVIOUS
  <2> HIDE DEF idOf, chosen, taken
  <2> QED  BY <1>4, <2>1, Image
<1>6. Cardinality(taken) \in Nat  BY <1>5, FS_CardinalityType
<1>7. \E i \in 1..Cardinality(taken) + 1 : i \notin taken  BY <1>5, FreeNumber
<1>8. FreshId(w) = CHOOSE i \in 1..Cardinality(taken) + 1 : i \notin taken  BY DEF FreshId
<1>9. FreshId(w) \in 1..Cardinality(taken) + 1 /\ FreshId(w) \notin taken
  <2> HIDE DEF taken
  <2> QED  BY <1>7, <1>8
<1>10. Elements(w.inbox["next-turn"]) \subseteq Pending(w.inbox)  BY <1>1, PendingElements
<1> QED  BY <1>6, <1>9, <1>10

-----------------------------------------------------------------------------
(* Scheduling: what only moves the loops leaves the fences alone. *)

Scheduled(v, w) ==
  /\ v \in Worlds
  /\ v.goal = w.goal /\ v.agent = w.agent /\ v.inbox = w.inbox /\ v.past = w.past
  /\ v.driver.life = w.driver.life /\ v.driver.attempt = w.driver.attempt
  /\ v.driver.waker = w.driver.waker /\ v.driver.awaitsIdle = w.driver.awaitsIdle

LEMMA ScheduledFenced ==
  ASSUME NEW v, NEW w, Scheduled(v, w), Fenced(w)
  PROVE  Fenced(v)
BY DEF Scheduled, Fenced, Stages, Limits, Fences, Unloading, Excused

LEMMA LoopAtFields ==
  ASSUME NEW w \in Worlds, NEW id \in LoopIds, NEW at \in {"again", "retire"},
         NEW v, v = LoopAt(w, id, at)
  PROVE  /\ Scheduled(v, w)
         /\ v.driver.checkpoint = w.driver.checkpoint
         /\ v.driver.requested = w.driver.requested /\ v.driver.run = w.driver.run
         /\ v.driver.loops = {l \in w.driver.loops : l.id # id} \cup {Loop(id, at, 0)}
BY DEF LoopAt, Worlds, Drivers, Scheduled, Loop, Loops

LEMMA CheckpointsFields ==
  ASSUME NEW w \in Worlds, NEW id \in LoopIds, NEW v, v = Checkpoints(w, id)
  PROVE  /\ Scheduled(v, w)
         /\ v.driver.checkpoint = FALSE
         /\ v.driver.requested = w.driver.requested /\ v.driver.run = w.driver.run
         /\ v.driver.loops = {l \in w.driver.loops : l.id # id}
                               \cup {Loop(id, "flush", w.past.logged)}
<1> PICK l : l = Loop(id, "flush", w.past.logged)  OBVIOUS
<1> PICK loops : loops = {x \in w.driver.loops : x.id # id} \cup {l}  OBVIOUS
<1>1. w.driver \in Drivers /\ w.past.logged \in Nat  BY DEF Worlds, Pasts
<1>2. l \in Loops  BY <1>1 DEF Loop, Loops
<1>3. loops \in SUBSET Loops  BY <1>1, <1>2 DEF Drivers
<1>4. v = [w EXCEPT !.driver.checkpoint = FALSE, !.driver.loops = loops]  BY DEF Checkpoints
<1>5. PICK d : d = [w.driver EXCEPT !.checkpoint = FALSE, !.loops = loops]  OBVIOUS
<1>6. v = [w EXCEPT !.driver = d]  BY <1>4, <1>5 DEF Worlds
<1>7. /\ d \in Drivers /\ d.checkpoint = FALSE /\ d.requested = w.driver.requested
      /\ d.run = w.driver.run /\ d.loops = loops /\ d.life = w.driver.life
      /\ d.attempt = w.driver.attempt /\ d.waker = w.driver.waker
      /\ d.awaitsIdle = w.driver.awaitsIdle
  BY <1>1, <1>3, <1>5 DEF Drivers
<1>8. v \in Worlds /\ v.driver = d /\ v.goal = w.goal /\ v.agent = w.agent
      /\ v.inbox = w.inbox /\ v.past = w.past
  BY <1>6, <1>7 DEF Worlds
<1> QED  BY <1>7, <1>8 DEF Scheduled

LEMMA MovedLoops ==
  ASSUME NEW loops \in SUBSET Loops, IsFiniteSet(loops), LoopsApart(loops),
         NEW id, NEW l, l.id = id
  PROVE  /\ IsFiniteSet({x \in loops : x.id # id} \cup {l})
         /\ LoopsApart({x \in loops : x.id # id} \cup {l})
<1>1. IsFiniteSet({x \in loops : x.id # id})  BY FS_Subset
<1>2. IsFiniteSet({x \in loops : x.id # id} \cup {l})  BY <1>1, FS_AddElement
<1> QED  BY <1>2 DEF LoopsApart

\* The loop may move on: what it awaited is flushed, or another loop sees to it.
Settled(w, id) == Owing(w) => FlushedBut(w, id)

LEMMA LoopAtGood ==
  ASSUME NEW w, Good(w), NEW id \in LoopIds, NEW at \in {"again", "retire"}, Settled(w, id)
  PROVE  Good(LoopAt(w, id, at)) /\ Settled(LoopAt(w, id, at), id)
<1> PICK v : v = LoopAt(w, id, at)  OBVIOUS
<1>1. w \in Worlds  BY DEF Good
<1>2. /\ Scheduled(v, w) /\ v.driver.checkpoint = w.driver.checkpoint
      /\ v.driver.loops = {l \in w.driver.loops : l.id # id} \cup {Loop(id, at, 0)}
  BY <1>1, LoopAtFields
<1>3. Loop(id, at, 0).id = id /\ Loop(id, at, 0).covers = 0  BY DEF Loop
<1>4. w.driver.loops \in SUBSET Loops /\ w.past.logged \in Nat  BY <1>1 DEF Worlds, Drivers, Pasts
<1>5. IsFiniteSet(v.driver.loops) /\ LoopsApart(v.driver.loops)
  BY <1>2, <1>3, <1>4, MovedLoops DEF Good, Flushes
<1>6. Owing(v) => Owing(w)  BY <1>2 DEF Owing, Scheduled
<1>7. FlushedBut(w, id) => FlushedBut(v, id)  BY <1>2 DEF FlushedBut, Covers, Scheduled
<1>8. FlushedBut(v, id) => Flushed(v)  BY DEF FlushedBut, Flushed
<1>9. \A l \in v.driver.loops : l.covers <= v.past.logged
  BY <1>2, <1>3, <1>4 DEF Scheduled, Good, Flushes
<1>10. Flushes(v)  BY <1>2, <1>5, <1>6, <1>7, <1>8, <1>9 DEF Flushes, Settled, Good, Scheduled
<1> QED  BY <1>2, <1>6, <1>7, <1>10, ScheduledFenced DEF Good, Settled, Scheduled

LEMMA CheckpointsGood ==
  ASSUME NEW w, Good(w), NEW id \in LoopIds
  PROVE  Good(Checkpoints(w, id))
<1> PICK v : v = Checkpoints(w, id)  OBVIOUS
<1> PICK l : l = Loop(id, "flush", w.past.logged)  OBVIOUS
<1>1. w \in Worlds  BY DEF Good
<1>2. /\ Scheduled(v, w)
      /\ v.driver.loops = {x \in w.driver.loops : x.id # id} \cup {l}
  BY <1>1, CheckpointsFields
<1>3. l.id = id /\ l.at = "flush" /\ l.covers = w.past.logged  BY DEF Loop
<1>4. w.driver.loops \in SUBSET Loops /\ w.past.logged \in Nat  BY <1>1 DEF Worlds, Drivers, Pasts
<1>5. IsFiniteSet(v.driver.loops) /\ LoopsApart(v.driver.loops)
  <2>1. IsFiniteSet(w.driver.loops) /\ LoopsApart(w.driver.loops)  BY DEF Good, Flushes
  <2> QED  BY <2>1, <1>2, <1>3, <1>4, MovedLoops
<1>6. Flushed(v)  BY <1>2, <1>3 DEF Flushed, Covers, Scheduled
<1>7. \A x \in v.driver.loops : x.covers <= v.past.logged
  BY <1>2, <1>3, <1>4 DEF Scheduled, Good, Flushes
<1>8. Flushes(v)  BY <1>2, <1>5, <1>6, <1>7 DEF Flushes, Good, Scheduled
<1> QED  BY <1>2, <1>8, ScheduledFenced DEF Good, Scheduled

\* An idle loop, or none at all, is not what the flush waits for.
LEMMA OtherLoops ==
  ASSUME NEW w, Good(w), NEW id, \A l \in w.driver.loops : l.id = id => l.at # "flush"
  PROVE  Settled(w, id)
BY DEF Good, Flushes, Settled, Flushed, FlushedBut, Covers

\* Which loop is the current one, and what is requested, concerns no invariant.
LEMMA NotedGood ==
  ASSUME NEW v, NEW w, Good(w), Scheduled(v, w), v.driver.checkpoint = w.driver.checkpoint,
         v.driver.loops = w.driver.loops
  PROVE  Good(v) /\ \A id : Settled(w, id) => Settled(v, id)
BY ScheduledFenced DEF Good, Flushes, Scheduled, Owing, Flushed, Covers, Settled, FlushedBut

Requests(w, requested) == [w EXCEPT !.driver.requested = requested]
LEMMA RequestsFields ==
  ASSUME NEW w \in Worlds, NEW requested \in BOOLEAN, NEW v, v = Requests(w, requested)
  PROVE  /\ Scheduled(v, w) /\ v.driver.checkpoint = w.driver.checkpoint
         /\ v.driver.loops = w.driver.loops
<1>1. PICK d : d = [w.driver EXCEPT !.requested = requested]  OBVIOUS
<1>2. w.driver \in Drivers  BY DEF Worlds
<1>3. /\ d \in Drivers /\ d.checkpoint = w.driver.checkpoint /\ d.loops = w.driver.loops
      /\ d.life = w.driver.life /\ d.attempt = w.driver.attempt
      /\ d.waker = w.driver.waker /\ d.awaitsIdle = w.driver.awaitsIdle
  BY <1>1, <1>2 DEF Drivers
<1>4. v = [w EXCEPT !.driver = d]  BY <1>1 DEF Requests, Worlds
<1> QED  BY <1>3, <1>4 DEF Scheduled, Worlds

LEMMA DriveChangedGood ==
  ASSUME NEW w, Good(w), w.driver.checkpoint, NEW v, v = DriveChanged(w)
  PROVE  /\ Good(v) /\ Scheduled(v, w)
         /\ \A id : (\E l \in w.driver.loops : l.id = id) => Settled(v, id)
<1>1. w \in Worlds  BY DEF Good
<1>2. w.driver.loops \subseteq Loops /\ IsFiniteSet(w.driver.loops) /\ Scheduled(w, w) /\ ~Owing(w)
  BY <1>1 DEF Worlds, Drivers, Good, Flushes, Scheduled, Owing
<1>3. CASE w.driver.life # "loaded"  BY <1>2, <1>3 DEF DriveChanged, Settled
<1>4. CASE w.driver.life = "loaded" /\ w.driver.run # 0
  <2>1. v = Requests(w, TRUE)  BY <1>4 DEF DriveChanged, Requests
  <2>2. /\ Scheduled(v, w) /\ v.driver.checkpoint = w.driver.checkpoint
        /\ v.driver.loops = w.driver.loops
    BY ONLY <1>1, <2>1, RequestsFields
  <2> QED  BY <1>2, <2>2, NotedGood DEF Settled
<1>5. CASE w.driver.life = "loaded" /\ w.driver.run = 0
  <2> PICK id : id = FreeId(w)  OBVIOUS
  <2>7. PICK u : u = [w EXCEPT !.driver.requested = FALSE, !.driver.run = id]  OBVIOUS
  <2>1. id \in LoopIds /\ \A l \in w.driver.loops : l.id # id  BY <1>2, FreshLoop
  <2>2. /\ Scheduled(u, w) /\ u.driver.checkpoint = w.driver.checkpoint
        /\ u.driver.loops = w.driver.loops
    BY <1>1, <2>1, <2>7 DEF LoopIds, Scheduled, Worlds, Drivers
  <2>3. Good(u) /\ ~Owing(u)  BY <1>2, <2>2, NotedGood DEF Owing
  <2>4. v = IF ReadyToDrive(u) THEN Checkpoints(u, id) ELSE LoopAt(u, id, "again")
    BY <1>5, <2>7 DEF DriveChanged
  <2>5. CASE ReadyToDrive(u)
    <3>1. Good(v)  BY <2>1, <2>3, <2>4, <2>5, CheckpointsGood
    <3> u \in Worlds  BY <2>3 DEF Good
    <3>2. Scheduled(v, u) /\ v.driver.loops = {l \in u.driver.loops : l.id # id}
                                   \cup {Loop(id, "flush", u.past.logged)}
      BY <2>1, <2>4, <2>5, CheckpointsFields
    <3>3. Loop(id, "flush", u.past.logged) \in v.driver.loops
      BY <3>2
    <3>4. Covers(v, Loop(id, "flush", u.past.logged)) /\ Loop(id, "flush", u.past.logged).id = id
      BY <3>2 DEF Covers, Loop, Scheduled
    <3>5. \A k : (\E l \in w.driver.loops : l.id = k) => FlushedBut(v, k)
      BY <2>1, <3>3, <3>4 DEF FlushedBut
    <3> QED  BY <2>2, <3>1, <3>2, <3>5 DEF Scheduled, Settled
  <2>6. CASE ~ReadyToDrive(u)
    <3>1. Settled(u, id)  BY <2>3 DEF Settled
    <3>2. Good(v)  BY <2>1, <2>3, <2>4, <2>6, <3>1, LoopAtGood
    <3> u \in Worlds  BY <2>3 DEF Good
    <3>3. Scheduled(v, u) /\ v.driver.checkpoint = u.driver.checkpoint
      BY <2>1, <2>4, <2>6, LoopAtFields
    <3>4. ~Owing(v)  BY <3>3, <2>3 DEF Owing, Scheduled
    <3> QED  BY <2>2, <3>2, <3>3, <3>4 DEF Scheduled, Settled
  <2> QED  BY <2>5, <2>6
<1> QED  BY <1>1, <1>3, <1>4, <1>5 DEF Worlds, Drivers

-----------------------------------------------------------------------------
(* Changes of the goal *)

LEMMA ChangedGoal ==
  ASSUME NEW g \in Goals, NEW op \in Operations, NEW limit \in 0..MaxRounds, Admits(g, op),
         NEW h, h = Changed(g, op, limit)
  PROVE  /\ h \in Goals /\ h.ref = g.ref + 1 /\ h.failed = FALSE
         /\ h.rounds \in {0, g.rounds} /\ h.limit \in {limit, g.limit}
<1> PICK n : n = Snapshot(g, op, limit)  OBVIOUS
<1>5. PICK phase : phase = CASE op = "clear" -> "none"
                             [] op = "pause" -> "paused"
                             [] op = "block" -> "blocked"
                             [] op = "complete" -> "complete"
                             [] op \in {"create", "resume"} -> "active"
                             [] OTHER -> g.phase
  OBVIOUS
<1>6. PICK rounds : rounds = IF op \in {"create", "clear"} THEN 0 ELSE g.rounds  OBVIOUS
<1>7. PICK most : most = IF op \in {"create", "edit"} THEN limit ELSE g.limit  OBVIOUS
<1>8. PICK armed : armed = IF op = "edit" THEN g.armed ELSE op \in {"create", "resume"}  OBVIOUS
<1>13. PICK ref : ref = g.ref + 1  OBVIOUS
<1>9. n = [g EXCEPT !.ref = ref, !.phase = phase, !.rounds = rounds, !.limit = most,
                    !.armed = armed]
  BY <1>5, <1>6, <1>7, <1>8, <1>13 DEF Snapshot
<1>10. /\ phase \in {"none", "active", "paused", "blocked", "complete"}
       /\ op = "create" => phase = "active"
       /\ op = "edit" => phase = g.phase
  <2>1. g.phase \in {"none", "active", "paused", "blocked", "complete"}  BY DEF Goals
  <2>2. CASE op = "edit"  BY <1>5, <2>1, <2>2
  <2>3. CASE op # "edit"  BY <1>5, <2>3 DEF Operations
  <2> QED  BY <2>2, <2>3
<1>11. rounds \in Nat /\ most \in Nat  BY <1>6, <1>7 DEF Goals
<1>12. armed \in BOOLEAN /\ ref \in Nat
  <2>1. g.armed \in BOOLEAN /\ g.ref \in Nat  BY DEF Goals
  <2>2. CASE op = "edit"  BY <1>8, <1>13, <2>1, <2>2
  <2>3. CASE op # "edit"
    <3>1. armed = (op \in {"create", "resume"})  BY <1>8, <2>3
    <3>2. armed \in BOOLEAN  BY <3>1
    <3> QED  BY <1>13, <2>1, <3>2
  <2> QED  BY <2>2, <2>3
<1>1. g.ref \in Nat /\ ~g.failed /\ g.failed \in BOOLEAN  BY DEF Goals, Admits
<1>2. /\ n \in Goals /\ n.ref = g.ref + 1 /\ n.failed = g.failed
      /\ n.rounds = (IF op \in {"create", "clear"} THEN 0 ELSE g.rounds)
      /\ n.limit = (IF op \in {"create", "edit"} THEN limit ELSE g.limit)
      /\ op = "create" => n.phase = "active"
      /\ op = "edit" => n.phase = g.phase
  <2>1. n \in Goals  BY <1>9, <1>10, <1>11, <1>12 DEF Goals
  <2>2. /\ n.ref = ref /\ n.failed = g.failed /\ n.phase = phase /\ n.rounds = rounds
        /\ n.limit = most
    BY <1>9 DEF Goals
  <2> QED  BY <1>6, <1>7, <1>10, <1>13, <2>1, <2>2
<1>3. FoldsChange(g, op, n)  BY <1>2 DEF FoldsChange, Admits, Operations
<1>4. h = n  BY <1>3 DEF Changed
<1> QED  BY <1>1, <1>2, <1>4

\* What a change of the goal leaves alone.
Altered(v, w) ==
  /\ v \in Worlds /\ v.inbox = w.inbox
  /\ v.agent.kind = w.agent.kind /\ v.agent.pc = w.agent.pc /\ v.agent.batch = w.agent.batch
  /\ v.agent.guarded = w.agent.guarded
  /\ v.driver.life = w.driver.life /\ v.driver.attempt = w.driver.attempt
  /\ v.driver.waker = w.driver.waker /\ v.driver.awaitsIdle = w.driver.awaitsIdle
  /\ v.past.orphan = w.past.orphan

LEMMA ScheduledAltered ==
  ASSUME NEW u, NEW v, NEW w, Altered(u, w), Scheduled(v, u)
  PROVE  Altered(v, w)
BY DEF Altered, Scheduled

LogsChange(w, g, logged, slipped) ==
  [w EXCEPT !.goal = g, !.past.logged = logged, !.past.slipped = slipped]

LEMMA LoggedFields ==
  ASSUME NEW w \in Worlds, NEW g \in Goals, NEW slipped \in BOOLEAN, NEW logged \in Nat,
         NEW v, v = LogsChange(w, g, logged, slipped)
  PROVE  /\ Altered(v, w) /\ v.goal = g /\ v.past.slipped = slipped
         /\ v.past.logged = logged /\ v.past.saved = w.past.saved
         /\ v.driver = w.driver
<1>1. PICK p : p = [w.past EXCEPT !.logged = logged, !.slipped = slipped]  OBVIOUS
<1>2. v = [w EXCEPT !.goal = g, !.past = p]  BY <1>1 DEF Worlds, LogsChange
<1>3. /\ p \in Pasts /\ p.logged = logged /\ p.slipped = slipped
      /\ p.saved = w.past.saved /\ p.orphan = w.past.orphan
  BY <1>1 DEF Worlds, Pasts
<1>4. /\ v \in Worlds /\ v.goal = g /\ v.past = p /\ v.driver = w.driver /\ v.agent = w.agent
      /\ v.inbox = w.inbox
  BY <1>2, <1>3 DEF Worlds
<1> QED  BY <1>3, <1>4 DEF Altered

LEMMA OwesFields ==
  ASSUME NEW w \in Worlds, NEW v, v = [w EXCEPT !.driver.checkpoint = TRUE]
  PROVE  /\ Altered(v, w) /\ v.goal = w.goal /\ v.past = w.past /\ v.agent = w.agent
         /\ v.driver.checkpoint = TRUE /\ v.driver.loops = w.driver.loops
BY DEF Worlds, Drivers, Altered

LEMMA AbortFields ==
  ASSUME NEW w \in Worlds, NEW v, v = [w EXCEPT !.agent.abort = TRUE]
  PROVE  Altered(v, w) /\ v.goal = w.goal /\ v.past = w.past /\ v.driver = w.driver
BY DEF Worlds, Agents, Altered

\* The goal has moved on to a new revision, by an event the log now holds.
LEMMA MovedOn ==
  ASSUME NEW w, Good(w), NEW v, Altered(v, w), v.driver.loops = w.driver.loops,
         v.goal.ref = w.goal.ref + 1, v.goal.failed = FALSE,
         v.goal.rounds <= MaxRounds, v.goal.limit <= MaxRounds,
         v.past.slipped = (w.past.slipped \/ (w.agent.pc = "preparing" /\ HasRound(w.agent.batch))),
         v.past.logged = w.past.logged + 1, v.past.saved = w.past.saved,
         v.driver.checkpoint \/ v.driver.life = "gone"
  PROVE  Good(v)
<1>1. w \in Worlds /\ v \in Worlds /\ w.past.logged \in Nat /\ w.past.saved \in Nat
      /\ w.driver.loops \subseteq Loops
  BY DEF Good, Altered, Worlds, Pasts, Drivers
<1>2. ~Owing(v)  BY DEF Owing
<1>3. \A l \in v.driver.loops : l.covers <= v.past.logged
  BY <1>1 DEF Good, Flushes, Loops
<1>4. Flushes(v)  BY <1>1, <1>2, <1>3 DEF Good, Flushes
<1>5. \A m \in Elements(w.agent.batch) \cup Elements(w.inbox["next-turn"]) : Within(v.goal, m)
  <2> SUFFICES ASSUME NEW m \in Elements(w.agent.batch) \cup Elements(w.inbox["next-turn"]),
                      IsRound(m)
               PROVE  m.ref <= v.goal.ref /\ m.ref # v.goal.ref
    BY DEF Within
  <2>1. Within(w.goal, m)  BY DEF Good, Fenced, Limits
  <2>2. m \in Messages
    <3>1. w.agent.batch \in Seq(Messages) /\ w.inbox["next-turn"] \in Seq(Messages)
      BY <1>1 DEF Worlds, Agents, Inboxes, Targets
    <3> QED  BY <3>1, ElementsType
  <2>3. m.ref \in Nat /\ w.goal.ref \in Nat
    BY <1>1, <2>2 DEF Messages, Sents, RoundMessages, Worlds, Goals
  <2> QED  BY <2>1, <2>3 DEF Within
<1>6. Limits(v) /\ Stages(v) /\ OneRound(v.agent.batch)
  BY <1>5 DEF Limits, Stages, Altered, Good, Fenced
<1>7. Fences(v) /\ Unloading(v)
  BY DEF Fences, Unloading, Excused, Altered, Good, Fenced
<1> QED  BY <1>1, <1>4, <1>6, <1>7 DEF Good, Fenced

LEMMA ChangeGood ==
  ASSUME NEW w, Good(w), NEW op \in Operations, NEW limit \in 0..MaxRounds, NEW byModel,
         Admits(w.goal, op), NEW v, v = Change(w, op, limit, byModel)
  PROVE  /\ Good(v) /\ Altered(v, w)
         /\ \A id : (\E l \in w.driver.loops : l.id = id) => Settled(v, id)
<1>14. PICK g : g = Changed(w.goal, op, limit)  OBVIOUS
<1>15. PICK slipped : slipped = (w.past.slipped \/ (/\ w.agent.pc = "preparing"
                                                    /\ HasRound(w.agent.batch)))
  OBVIOUS
<1>1. PICK u : u = [w EXCEPT !.goal = g, !.past.logged = @ + 1, !.past.slipped = slipped]
  OBVIOUS
<1>2. PICK x : x = [u EXCEPT !.driver.checkpoint = TRUE]  OBVIOUS
<1>3. PICK y : y = [x EXCEPT !.agent.abort = TRUE]  OBVIOUS
<1>4. w \in Worlds /\ w.goal \in Goals /\ w.past.slipped \in BOOLEAN  BY DEF Good, Worlds, Pasts
<1>5. /\ g \in Goals /\ g.ref = w.goal.ref + 1 /\ g.failed = FALSE
      /\ g.rounds \in {0, w.goal.rounds} /\ g.limit \in {limit, w.goal.limit}
  <2>1. w.goal \in Goals  BY <1>4
  <2>2. g \in Goals  BY <1>14, <2>1, ChangedGoal
  <2>3. g.ref = w.goal.ref + 1
    <3>1. PICK h : h = w.goal  OBVIOUS
    <3>2. h \in Goals /\ Admits(h, op)  BY <2>1, <3>1
    <3>3. Changed(h, op, limit).ref = h.ref + 1  BY ONLY <3>2, op \in Operations,
            limit \in 0..MaxRounds, ChangedGoal
    <3> QED  BY <1>14, <3>1, <3>3
  <2>4. g.failed = FALSE  BY <1>14, <2>1, ChangedGoal
  <2>5. g.rounds \in {0, w.goal.rounds}  BY <1>14, <2>1, ChangedGoal
  <2>6. g.limit \in {limit, w.goal.limit}  BY <1>14, <2>1, ChangedGoal
  <2> QED  BY <2>2, <2>3, <2>4, <2>5, <2>6
<1>6. g.rounds <= MaxRounds /\ g.limit <= MaxRounds
  BY <1>5, GoalRoundsConstants DEF Good, Fenced, Limits
<1>7. /\ Altered(u, w) /\ u.goal = g /\ u.past.slipped = slipped
      /\ u.past.logged = w.past.logged + 1 /\ u.past.saved = w.past.saved
      /\ u.driver = w.driver
  <2>1. slipped \in BOOLEAN  BY <1>4, <1>15
  <2>2. PICK logged : logged = w.past.logged + 1  OBVIOUS
  <2>3. g \in Goals /\ w \in Worlds /\ logged \in Nat
    BY <1>4, <1>5, <2>2 DEF Worlds, Pasts
  <2>4. u = LogsChange(w, g, logged, slipped)  BY <1>1, <2>2 DEF LogsChange
  <2>5. /\ Altered(u, w) /\ u.goal = g /\ u.past.slipped = slipped /\ u.past.logged = logged
        /\ u.past.saved = w.past.saved /\ u.driver = w.driver
    BY ONLY <2>1, <2>3, <2>4, LoggedFields
  <2> QED  BY <2>2, <2>5
<1>8. /\ Altered(x, u) /\ x.goal = u.goal /\ x.past = u.past /\ x.agent = u.agent
      /\ x.driver.checkpoint = TRUE /\ x.driver.loops = u.driver.loops
  <2>1. u \in Worlds  BY <1>7 DEF Altered
  <2> QED  BY ONLY <1>2, <2>1, OwesFields
<1>9. Altered(y, x) /\ y.goal = x.goal /\ y.past = x.past /\ y.driver = x.driver
  <2>1. x \in Worlds  BY <1>8 DEF Altered
  <2> QED  BY ONLY <1>3, <2>1, AbortFields
<1>10. v = IF ~Listens(w) THEN u
           ELSE DriveChanged(IF op = "pause" /\ w.agent.kind = "running" /\ ~byModel
                             THEN y ELSE x)
  BY <1>1, <1>2, <1>3, <1>14, <1>15 DEF Change
<1>11. CASE ~Listens(w)
  <2>1. v = u /\ u.driver.life = "gone"  BY <1>7, <1>10, <1>11 DEF Listens
  <2>2. Good(u)  BY <1>5, <1>6, <1>7, <1>15, <2>1, MovedOn
  <2>3. \A id : Settled(u, id)  BY <2>1 DEF Settled, Owing
  <2> QED  BY <1>7, <2>1, <2>2, <2>3
<1>12. ASSUME NEW z \in {x, y} PROVE Good(z) /\ Altered(z, w) /\ z.driver.checkpoint = TRUE
                                     /\ z.driver.loops = w.driver.loops
  <2>1. Altered(z, w)  BY <1>7, <1>8, <1>9 DEF Altered
  <2>2. /\ z.goal = g /\ z.past.slipped = slipped /\ z.past.logged = w.past.logged + 1
        /\ z.past.saved = w.past.saved /\ z.driver.checkpoint = TRUE
        /\ z.driver.loops = w.driver.loops
    BY <1>7, <1>8, <1>9
  <2> QED  BY <1>5, <1>6, <1>15, <2>1, <2>2, MovedOn
<1>13. CASE Listens(w)
  <2>1. PICK z \in {x, y} : v = DriveChanged(z)  BY <1>10, <1>13
  <2>2. Good(z) /\ Altered(z, w) /\ z.driver.checkpoint /\ z.driver.loops = w.driver.loops
    BY <1>12
  <2>3. /\ Good(v) /\ Scheduled(v, z)
        /\ \A id : (\E l \in z.driver.loops : l.id = id) => Settled(v, id)
    BY <2>1, <2>2, DriveChangedGood
  <2> QED  BY <2>2, <2>3, ScheduledAltered
<1> QED  BY <1>11, <1>13

LEMMA DisarmGood ==
  ASSUME NEW w, Good(w), NEW v, v = Disarm(w)
  PROVE  /\ Good(v) /\ Altered(v, w) /\ ~Owing(v) /\ v.driver = w.driver /\ v.past = w.past
         /\ v.agent = w.agent
<1> PICK g : g = Disarmed(w.goal)  OBVIOUS
<1>1. w \in Worlds /\ w.goal \in Goals  BY DEF Good, Worlds
<1>2. CASE w.goal.failed
  <2>1. v = w  BY <1>2 DEF Disarm
  <2> QED  BY <1>1, <1>2, <2>1 DEF Owing, Altered
<1>3. CASE ~w.goal.failed
  <2>1. v = [w EXCEPT !.goal = g]  BY <1>3 DEF Disarm
  <2>2. /\ g \in Goals /\ g.phase = w.goal.phase /\ g.ref = w.goal.ref /\ g.rounds = w.goal.rounds
        /\ g.limit = w.goal.limit /\ g.failed = w.goal.failed /\ g.armed = FALSE
    BY <1>1 DEF Disarmed, Goals
  <2>3. /\ v \in Worlds /\ v.goal = g /\ v.driver = w.driver /\ v.past = w.past
        /\ v.agent = w.agent /\ v.inbox = w.inbox
    BY <1>1, <2>1, <2>2 DEF Worlds
  <2>4. ~Owing(v)  BY <2>2, <2>3 DEF Owing, Continues
  <2>5. Flushes(v)  BY <2>3, <2>4 DEF Good, Flushes
  <2>6. Limits(v) /\ Fences(v)
    BY <2>2, <2>3 DEF Good, Fenced, Limits, Within, Fences, Excused, FoldsRound
  <2>7. Stages(v) /\ OneRound(v.agent.batch) /\ Unloading(v)
    BY <2>3 DEF Good, Fenced, Stages, Unloading
  <2> QED  BY <2>3, <2>4, <2>5, <2>6, <2>7 DEF Good, Fenced, Altered
<1> QED  BY <1>2, <1>3

-----------------------------------------------------------------------------
(* A reservation, and the loops of the driver *)

LEMMA AppendElements ==
  ASSUME NEW S, NEW s \in Seq(S), NEW m \in S
  PROVE  Elements(Append(s, m)) = Elements(s) \cup {m}
<1> PICK t : t = Append(s, m)  OBVIOUS
<1>1. Len(s) \in Nat /\ DOMAIN s = 1..Len(s)  BY LenProperties
<1>2. /\ DOMAIN t = 1..Len(s) + 1 /\ t[Len(s) + 1] = m
      /\ \A i \in 1..Len(s) : t[i] = s[i]
  BY <1>1, AppendProperties, LenProperties
<1> QED  BY <1>1, <1>2 DEF Elements

LEMMA InsertedType ==
  ASSUME NEW f \in Inboxes, NEW t \in Targets, NEW m \in Messages,
         t = "next-step" => m \in Sents, NEW g, g = Inserted(f, t, m)
  PROVE  /\ g \in Inboxes /\ g[t] = Append(f[t], m)
         /\ t = "next-turn" => g["next-step"] = f["next-step"]
         /\ t = "next-step" => g["next-turn"] = f["next-turn"]
         /\ Elements(g["next-turn"]) \subseteq Elements(f["next-turn"]) \cup {m}
<1>1. f \in [Targets -> Seq(Messages)] /\ f["next-step"] \in Seq(Sents)  BY DEF Inboxes
<1>2. g = [f EXCEPT ![t] = Append(f[t], m)]  BY DEF Inserted
<1>3. Append(f[t], m) \in Seq(Messages)  BY <1>1, AppendProperties
<1>4. g \in [Targets -> Seq(Messages)] /\ g[t] = Append(f[t], m)  BY <1>1, <1>2, <1>3
<1>5. CASE t = "next-turn"
  <2>1. g["next-step"] = f["next-step"]  BY <1>1, <1>2, <1>5 DEF Targets
  <2>2. Elements(g["next-turn"]) = Elements(f["next-turn"]) \cup {m}
    <3>1. f["next-turn"] \in Seq(Messages) /\ g["next-turn"] = Append(f["next-turn"], m)
      BY <1>1, <1>4, <1>5 DEF Targets
    <3> QED  BY <3>1, AppendElements
  <2> QED  BY <1>1, <1>4, <1>5, <2>1, <2>2 DEF Inboxes
<1>6. CASE t = "next-step"
  <2>1. g["next-turn"] = f["next-turn"]  BY <1>1, <1>2, <1>6 DEF Targets
  <2>2. Append(f[t], m) \in Seq(Sents)  BY <1>1, <1>6, AppendProperties
  <2> QED  BY <1>1, <1>4, <1>6, <2>1, <2>2 DEF Inboxes
<1> QED  BY <1>5, <1>6 DEF Targets

HasRoundElements == \A s : HasRound(s) <=> \E m \in Elements(s) : IsRound(m)

LEMMA RoundsAmong == HasRoundElements
BY DEF HasRoundElements, HasRound, Elements

\* A flush of all that is logged, beside a loop that awaits nothing.
Backed(v) == Flushed(v) /\ \E l \in v.driver.loops : l.at = "again"

\* What the driver's loops may do: queue a round that is backed by a flush.
Driven(v, w) ==
  /\ v \in Worlds
  /\ v.agent.kind = w.agent.kind /\ v.agent.pc = w.agent.pc /\ v.agent.batch = w.agent.batch
  /\ v.agent.guarded = w.agent.guarded
  /\ v.driver.life = w.driver.life /\ v.driver.awaitsIdle = w.driver.awaitsIdle
  /\ v.driver.waker = w.driver.waker \/ Backed(v)

LEMMA AlteredDriven ==
  ASSUME NEW v, NEW w, Altered(v, w)
  PROVE  Driven(v, w)
BY DEF Altered, Driven

LEMMA ScheduledDriven ==
  ASSUME NEW v, NEW w, Scheduled(v, w)
  PROVE  Driven(v, w)
BY DEF Scheduled, Driven

LEMMA ReserveGood ==
  ASSUME NEW w, Good(w), Owing(w), w.goal.rounds < w.goal.limit,
         \E l \in w.driver.loops : l.at = "again",
         NEW id \in LoopIds, NEW first \in BOOLEAN, NEW v, v = Reserve(w, id, first)
  PROVE  Good(v) /\ Driven(v, w)
<1>1. PICK m : m = Round(FreshId(w), w.goal.ref, w.goal.rounds + 1)  OBVIOUS
<1>2. PICK f : f = Inserted(w.inbox, "next-turn", m)  OBVIOUS
<1>3. PICK a : a = [NoAttempt EXCEPT !.at = "queued", !.message = m]  OBVIOUS
<1>4. PICK k : k = [loop |-> id, first |-> first]  OBVIOUS
<1>5. v = [w EXCEPT !.driver.attempt = a, !.inbox = f, !.driver.waker = k]
  BY <1>1, <1>2, <1>3, <1>4 DEF Reserve
<1>6. PICK d : d = [w.driver EXCEPT !.attempt = a, !.waker = k]  OBVIOUS
<1>7. w \in Worlds /\ w.inbox \in Inboxes /\ w.driver \in Drivers /\ w.goal \in Goals
  BY DEF Good, Worlds
<1>8. v = [w EXCEPT !.inbox = f, !.driver = d]  BY <1>5, <1>6, <1>7 DEF Worlds
<1>9. /\ m \in RoundMessages /\ m.kind = "round" /\ m.ref = w.goal.ref
      /\ m.round = w.goal.rounds + 1
  <2>1. FreshId(w) \in Nat  BY <1>7, FreshMessage
  <2>2. w.goal.ref \in Nat /\ w.goal.rounds \in Nat /\ w.goal.limit \in Nat
        /\ w.goal.limit <= MaxRounds
    BY <1>7 DEF Goals, Good, Fenced, Limits
  <2>3. w.goal.rounds + 1 \in 0..MaxRounds  BY <2>2, GoalRoundsConstants
  <2> QED  BY <1>1, <2>1, <2>2, <2>3 DEF Round, RoundMessages
<1>10. a \in Attempts
  <2>1. NoAttempt \in Attempts
    BY GoalRoundsConstants DEF NoAttempt, Attempts, RoundMessages, Round
  <2> QED  BY <1>3, <1>9, <2>1 DEF Attempts
<1>11. k \in [loop : Nat, first : BOOLEAN]  BY <1>4 DEF LoopIds
<1>12. /\ d \in Drivers /\ d.loops = w.driver.loops /\ d.checkpoint = w.driver.checkpoint
       /\ d.life = w.driver.life /\ d.awaitsIdle = w.driver.awaitsIdle
  BY <1>6, <1>7, <1>10, <1>11 DEF Drivers
<1>13. f \in Inboxes /\ Elements(f["next-turn"]) \subseteq Elements(w.inbox["next-turn"]) \cup {m}
  <2>1. "next-turn" \in Targets /\ m \in Messages  BY <1>9 DEF Targets, Messages
  <2>2. PICK h : h = w.inbox  OBVIOUS
  <2>3. h \in Inboxes /\ f = Inserted(h, "next-turn", m)  BY <1>2, <1>7, <2>2
  <2>4. f \in Inboxes /\ Elements(f["next-turn"]) \subseteq Elements(h["next-turn"]) \cup {m}
    BY ONLY <2>1, <2>3, InsertedType
  <2> QED  BY <2>2, <2>4
<1>14. /\ v \in Worlds /\ v.goal = w.goal /\ v.agent = w.agent /\ v.past = w.past
       /\ v.inbox = f /\ v.driver = d
  BY <1>7, <1>8, <1>12, <1>13 DEF Worlds
<1>15. Within(w.goal, m)
  BY <1>7, <1>9 DEF Within, Goals
<1>16. Limits(v)
  BY <1>13, <1>14, <1>15 DEF Good, Fenced, Limits
<1>17. Stages(v) /\ OneRound(v.agent.batch) /\ Fences(v)
  BY <1>12, <1>14 DEF Good, Fenced, Stages, Fences, Excused
<1>18. Unloading(v)
  BY <1>12, <1>14 DEF Good, Fenced, Unloading, Owing
<1>19. Flushed(v) /\ Flushes(v)
  BY <1>12, <1>14 DEF Good, Flushes, Flushed, Covers
<1> QED  BY <1>12, <1>14, <1>16, <1>17, <1>18, <1>19 DEF Good, Fenced, Driven, Backed

\* A lost attempt owes a checkpoint of what became of it.
Forgets(w) ==
  [w EXCEPT !.driver.attempt = NoAttempt, !.driver.checkpoint = TRUE,
            !.driver.requested = TRUE]

LEMMA NoAttemptType == NoAttempt \in Attempts
BY GoalRoundsConstants DEF NoAttempt, Attempts, RoundMessages, Round

LEMMA ForgetsFields ==
  ASSUME NEW w \in Worlds, NEW v, v = Forgets(w)
  PROVE  /\ v \in Worlds /\ v.goal = w.goal /\ v.agent = w.agent /\ v.inbox = w.inbox
         /\ v.past = w.past /\ v.driver.life = w.driver.life /\ v.driver.checkpoint = TRUE
         /\ v.driver.waker = w.driver.waker /\ v.driver.awaitsIdle = w.driver.awaitsIdle
         /\ v.driver.loops = w.driver.loops
<1> NoAttempt \in Attempts  BY NoAttemptType
<1> QED  BY DEF Worlds, Drivers, Forgets

LEMMA DriveOnGood ==
  ASSUME NEW w, Good(w), NEW id \in LoopIds, NEW first \in BOOLEAN, Settled(w, id),
         w.driver.life = "loaded", ~w.driver.checkpoint, NEW v, v = DriveOn(w, id, first)
  PROVE  Good(v) /\ Driven(v, w)
<1>1. w \in Worlds /\ w.goal \in Goals  BY DEF Good, Worlds
<1>2. PICK x : x = LoopAt(w, id, "again")  OBVIOUS
<1>3. Good(x) /\ Scheduled(x, w)  BY <1>1, <1>2, LoopAtGood, LoopAtFields
<1>4. x.driver.checkpoint = w.driver.checkpoint
      /\ x.driver.loops = {l \in w.driver.loops : l.id # id} \cup {Loop(id, "again", 0)}
  BY <1>1, <1>2, LoopAtFields
<1>5. \E l \in x.driver.loops : l.id = id /\ l.at = "again"
  <2>1. Loop(id, "again", 0) \in x.driver.loops  BY <1>4
  <2>2. Loop(id, "again", 0).id = id /\ Loop(id, "again", 0).at = "again"  BY DEF Loop
  <2> QED  BY <2>1, <2>2
<1>6. CASE w.driver.attempt.at # "none"
  <2>1. PICK u : u = Forgets(w)  OBVIOUS
  <2>2. v = LoopAt(u, id, "again")  BY <1>6, <2>1 DEF DriveOn, Forgets
  <2>3. /\ u \in Worlds /\ u.goal = w.goal /\ u.agent = w.agent /\ u.inbox = w.inbox
        /\ u.past = w.past /\ u.driver.life = w.driver.life /\ u.driver.checkpoint = TRUE
        /\ u.driver.waker = w.driver.waker /\ u.driver.awaitsIdle = w.driver.awaitsIdle
        /\ u.driver.loops = w.driver.loops
    BY <1>1, <2>1, ForgetsFields
  <2>4. ~Owing(u)  BY <2>3 DEF Owing
  <2>5. Good(u)
    BY <2>3, <2>4 DEF Good, Fenced, Stages, Limits, Fences, Unloading, Excused, Flushes
  <2>6. Good(v) /\ Scheduled(v, u)  BY <2>2, <2>3, <2>4, <2>5, LoopAtGood, LoopAtFields DEF Settled
  <2> QED  BY <2>3, <2>6 DEF Driven, Scheduled
<1>7. CASE w.driver.attempt.at = "none" /\ (w.goal.failed \/ ~Continues(w.goal))
  <2>1. v = x  BY <1>2, <1>7 DEF DriveOn
  <2> QED  BY <1>3, <2>1, ScheduledDriven
<1>8. CASE /\ w.driver.attempt.at = "none" /\ ~w.goal.failed /\ Continues(w.goal)
           /\ w.goal.rounds >= w.goal.limit
  <2>1. PICK y : y = Change(x, "block", 0, FALSE)  OBVIOUS
  <2>2. v = LoopAt(y, id, "again")  BY <1>2, <1>8, <2>1 DEF DriveOn
  <2>3. Admits(x.goal, "block")  BY <1>3, <1>8 DEF Admits, Continues, Scheduled
  <2>4. Good(y) /\ Altered(y, x) /\ Settled(y, id)
    <3>1. "block" \in Operations /\ 0 \in 0..MaxRounds
      BY GoalRoundsConstants DEF Operations
    <3> QED  BY ONLY <1>3, <1>5, <2>1, <2>3, <3>1, ChangeGood
  <2>5. Good(v) /\ Scheduled(v, y)  BY <2>2, <2>4, LoopAtGood, LoopAtFields DEF Good
  <2>6. Altered(v, x)  BY <2>4, <2>5, ScheduledAltered
  <2> QED  BY <1>3, <2>5, <2>6 DEF Driven, Altered, Scheduled
<1>9. CASE /\ w.driver.attempt.at = "none" /\ ~w.goal.failed /\ Continues(w.goal)
           /\ ~(w.goal.rounds >= w.goal.limit)
  <2>1. v = Reserve(x, id, first)  BY <1>2, <1>9 DEF DriveOn
  <2>2. Owing(x)  BY <1>3, <1>4, <1>9 DEF Owing, Scheduled
  <2>3. x.goal.rounds < x.goal.limit  BY <1>1, <1>3, <1>9 DEF Scheduled, Goals
  <2>4. Good(v) /\ Driven(v, x)  BY <1>3, <1>5, <2>1, <2>2, <2>3, ReserveGood
  <2> QED  BY <1>3, <2>4 DEF Driven, Scheduled
<1> QED  BY <1>6, <1>7, <1>8, <1>9

LEMMA DriveGood ==
  ASSUME NEW w, Good(w), NEW id \in LoopIds, NEW first \in BOOLEAN, Settled(w, id),
         NEW v, v = Drive(w, id, first)
  PROVE  Good(v) /\ Driven(v, w)
<1>1. w \in Worlds  BY DEF Good
<1>2. CASE ~ReadyToDrive(w)
  <2>1. v = LoopAt(w, id, "again")  BY <1>2 DEF Drive
  <2> QED  BY <1>1, <2>1, LoopAtGood, LoopAtFields, ScheduledDriven
<1>3. CASE ReadyToDrive(w) /\ w.driver.checkpoint
  <2>1. v = Checkpoints(w, id)  BY <1>3 DEF Drive
  <2> QED  BY <1>1, <2>1, CheckpointsGood, CheckpointsFields, ScheduledDriven
<1>4. CASE ReadyToDrive(w) /\ ~w.driver.checkpoint
  <2>1. v = DriveOn(w, id, first)  BY <1>4 DEF Drive
  <2> QED  BY <1>4, <2>1, DriveOnGood DEF ReadyToDrive
<1> QED  BY <1>2, <1>3, <1>4

LEMMA RequestDriveGood ==
  ASSUME NEW w, Good(w), NEW v, v = RequestDrive(w)
  PROVE  Good(v) /\ Driven(v, w)
<1>1. w \in Worlds  BY DEF Good
<1>2. CASE w.driver.life # "loaded"
  <2>1. v = w  BY <1>2 DEF RequestDrive
  <2> QED  BY <1>1, <2>1 DEF Driven
<1>3. CASE w.driver.life = "loaded" /\ w.driver.run # 0
  <2>1. v = Requests(w, TRUE)  BY <1>3 DEF RequestDrive, Requests
  <2>2. /\ Scheduled(v, w) /\ v.driver.checkpoint = w.driver.checkpoint
        /\ v.driver.loops = w.driver.loops
    BY ONLY <1>1, <2>1, RequestsFields
  <2> QED  BY <2>2, NotedGood, ScheduledDriven
<1>4. CASE w.driver.life = "loaded" /\ w.driver.run = 0
  <2>1. PICK id : id = FreeId(w)  OBVIOUS
  <2>2. PICK u : u = [w EXCEPT !.driver.requested = FALSE]  OBVIOUS
  <2>3. PICK x : x = Drive(u, id, TRUE)  OBVIOUS
  <2>4. v = IF x.driver.waker # NoWaker THEN x ELSE [x EXCEPT !.driver.run = id]
    BY <1>4, <2>1, <2>2, <2>3 DEF RequestDrive
  <2>5. id \in LoopIds /\ \A l \in w.driver.loops : l.id # id
    BY <1>1, <2>1, FreshLoop DEF Good, Flushes, Worlds, Drivers
  <2>6. /\ Scheduled(u, w) /\ u.driver.checkpoint = w.driver.checkpoint
        /\ u.driver.loops = w.driver.loops
    BY <1>1, <2>2 DEF Scheduled, Worlds, Drivers
  <2>7. Good(u)  BY <2>6, NotedGood
  <2>8. Settled(u, id)  BY <2>5, <2>6, <2>7, OtherLoops
  <2>9. Good(x) /\ Driven(x, u)  BY <2>3, <2>5, <2>7, <2>8, DriveGood
  <2>10. Driven(x, w)  BY <2>6, <2>9 DEF Driven, Scheduled
  <2>11. CASE x.driver.waker # NoWaker  BY <2>4, <2>9, <2>10, <2>11
  <2>12. CASE x.driver.waker = NoWaker
    <3>1. v = [x EXCEPT !.driver.run = id]  BY <2>4, <2>12
    <3>2. /\ Scheduled(v, x) /\ v.driver.checkpoint = x.driver.checkpoint
          /\ v.driver.loops = x.driver.loops
      <4>1. x \in Worlds  BY <2>9 DEF Good
      <4> QED  BY <2>5, <3>1, <4>1 DEF LoopIds, Scheduled, Worlds, Drivers
    <3>3. Good(v)  BY <2>9, <3>2, NotedGood
    <3>4. Backed(x) => Backed(v)  BY <3>2 DEF Backed, Flushed, Covers, Scheduled
    <3> QED  BY <2>10, <3>2, <3>3, <3>4 DEF Driven, Scheduled
  <2> QED  BY <2>11, <2>12
<1> QED  BY <1>2, <1>3, <1>4

-----------------------------------------------------------------------------
(* The agent's side *)

\* What no invariant is about: the attempt, the flags, messages that leave the inbox.
Eased(v, w) ==
  /\ v \in Worlds /\ v.goal = w.goal /\ v.past = w.past
  /\ v.agent.kind = w.agent.kind /\ v.agent.pc = w.agent.pc /\ v.agent.batch = w.agent.batch
  /\ v.agent.guarded = w.agent.guarded
  /\ Elements(v.inbox["next-turn"]) \subseteq Elements(w.inbox["next-turn"])
  /\ v.driver.life = w.driver.life /\ v.driver.awaitsIdle = w.driver.awaitsIdle
  /\ v.driver.checkpoint = w.driver.checkpoint /\ v.driver.loops = w.driver.loops
  /\ v.driver.waker = w.driver.waker

LEMMA EasedGood ==
  ASSUME NEW w, Good(w), NEW v, Eased(v, w)
  PROVE  Good(v) /\ Driven(v, w) /\ (Backed(w) => Backed(v))
<1>1. HasRound(v.inbox["next-turn"]) => HasRound(w.inbox["next-turn"])
  BY RoundsAmong DEF HasRoundElements, Eased
<1>2. Limits(v)  BY DEF Good, Fenced, Limits, Eased
<1>3. Stages(v) /\ OneRound(v.agent.batch) /\ Fences(v) /\ Unloading(v)
  BY <1>1 DEF Good, Fenced, Stages, Fences, Excused, Unloading, Eased
<1>4. Flushes(v)  BY DEF Good, Flushes, Owing, Flushed, Covers, Eased
<1>5. Driven(v, w) /\ (Backed(w) => Backed(v))
  BY DEF Driven, Backed, Flushed, Covers, Eased
<1> QED  BY <1>2, <1>3, <1>4, <1>5 DEF Good, Fenced, Eased

LEMMA DrivenTwice ==
  ASSUME NEW u, NEW v, NEW w, Driven(u, w), Driven(v, u), Backed(u) => Backed(v)
  PROVE  Driven(v, w)
BY DEF Driven

LEMMA ConcatElements ==
  ASSUME NEW S, NEW s \in Seq(S), NEW t \in Seq(S)
  PROVE  s \o t \in Seq(S) /\ Elements(s \o t) = Elements(s) \cup Elements(t)
<1> PICK c : c = s \o t  OBVIOUS
<1>1. Len(s) \in Nat /\ Len(t) \in Nat /\ DOMAIN s = 1..Len(s) /\ DOMAIN t = 1..Len(t)
  BY LenProperties
<1>2. /\ c \in Seq(S) /\ Len(c) = Len(s) + Len(t)
      /\ \A i \in 1..Len(s) + Len(t) : c[i] = IF i <= Len(s) THEN s[i] ELSE t[i - Len(s)]
  BY ConcatProperties
<1>3. DOMAIN c = 1..Len(s) + Len(t)  BY <1>2, LenProperties
<1>4. ASSUME NEW i \in DOMAIN t PROVE t[i] \in Elements(c)
  <2>1. i + Len(s) \in DOMAIN c /\ ~(i + Len(s) <= Len(s)) /\ (i + Len(s)) - Len(s) = i
    BY <1>1, <1>3
  <2>2. c[i + Len(s)] = t[i]  BY <1>2, <1>3, <2>1
  <2> QED  BY <2>1, <2>2 DEF Elements
<1>5. ASSUME NEW i \in DOMAIN s PROVE s[i] \in Elements(c)
  <2>1. i \in DOMAIN c /\ i <= Len(s)  BY <1>1, <1>3
  <2>2. c[i] = s[i]  BY <1>2, <1>3, <2>1
  <2> QED  BY <2>1, <2>2 DEF Elements
<1>6. ASSUME NEW i \in DOMAIN c PROVE c[i] \in Elements(s) \cup Elements(t)
  <2>1. CASE i <= Len(s)
    <3>1. i \in DOMAIN s /\ c[i] = s[i]  BY <1>1, <1>2, <1>3, <2>1
    <3> QED  BY <3>1 DEF Elements
  <2>2. CASE ~(i <= Len(s))
    <3>1. i - Len(s) \in DOMAIN t /\ c[i] = t[i - Len(s)]  BY <1>1, <1>2, <1>3, <2>2
    <3> QED  BY <3>1 DEF Elements
  <2> QED  BY <2>1, <2>2
<1>7. Elements(s) \subseteq Elements(c)  BY <1>5 DEF Elements
<1>8. Elements(t) \subseteq Elements(c)  BY <1>4 DEF Elements
<1>9. Elements(c) \subseteq Elements(s) \cup Elements(t)  BY <1>6 DEF Elements
<1> QED  BY <1>2, <1>7, <1>8, <1>9

LEMMA PartElements ==
  ASSUME NEW S, NEW s \in Seq(S), NEW a \in Int, NEW b \in Int, a >= 1, b <= Len(s)
  PROVE  SubSeq(s, a, b) \in Seq(S) /\ Elements(SubSeq(s, a, b)) \subseteq Elements(s)
<1> PICK c : c = SubSeq(s, a, b)  OBVIOUS
<1>1. Len(s) \in Nat /\ DOMAIN s = 1..Len(s)  BY LenProperties
<1>2. CASE a <= b
  <2>1. /\ c \in Seq(S) /\ Len(c) = b - a + 1
        /\ \A i \in 1..b - a + 1 : c[i] = s[a + i - 1]
    BY <1>1, <1>2, SubSeqProperties
  <2>2. DOMAIN c = 1..b - a + 1  BY <2>1, LenProperties
  <2>3. \A i \in DOMAIN c : a + i - 1 \in DOMAIN s /\ c[i] = s[a + i - 1]  BY <1>1, <2>1, <2>2
  <2> QED  BY <2>1, <2>3 DEF Elements
<1>3. CASE a > b
  <2>1. c = <<>>  BY <1>1, <1>3, SubSeqEmpty
  <2> QED  BY <2>1, EmptySeq DEF Elements
<1> QED  BY <1>2, <1>3

LEMMA WithoutType ==
  ASSUME NEW f \in Inboxes, NEW m, NEW g, g = Without(f, m)
  PROVE  g \in Inboxes /\ Elements(g["next-turn"]) \subseteq Elements(f["next-turn"])
<1>1. ASSUME NEW S, NEW t \in Targets, f[t] \in Seq(S)
      PROVE  g[t] \in Seq(S) /\ Elements(g[t]) \subseteq Elements(f[t])
  <2> PICK s : s = f[t]  OBVIOUS
  <2>1. s \in Seq(S) /\ Len(s) \in Nat  BY <1>1, LenProperties
  <2>2. CASE Positions(s, m) = {}
    <3>1. g[t] = s  BY <2>2 DEF Without
    <3> QED  BY <2>1, <3>1
  <2>3. CASE Positions(s, m) # {}
    <3>1. PICK i : i = CHOOSE x \in Positions(s, m) : TRUE  OBVIOUS
    <3>2. i \in 1..Len(s)  BY <2>3, <3>1 DEF Positions
    <3>3. g[t] = SubSeq(s, 1, i - 1) \o <<>> \o SubSeq(s, i - 1 + 1 + 1, Len(s))
      BY <2>3, <3>1 DEF Without, Spliced
    <3>4. /\ SubSeq(s, 1, i - 1) \in Seq(S) /\ Elements(SubSeq(s, 1, i - 1)) \subseteq Elements(s)
      BY <2>1, <3>2, PartElements
    <3>5. /\ SubSeq(s, i - 1 + 1 + 1, Len(s)) \in Seq(S)
          /\ Elements(SubSeq(s, i - 1 + 1 + 1, Len(s))) \subseteq Elements(s)
      BY <2>1, <3>2, PartElements
    <3>6. <<>> \in Seq(S) /\ Elements(<<>>) = {}  BY EmptySeq DEF Elements
    <3>7. /\ SubSeq(s, 1, i - 1) \o <<>> \in Seq(S)
          /\ Elements(SubSeq(s, 1, i - 1) \o <<>>) \subseteq Elements(s)
      BY <3>4, <3>6, ConcatElements
    <3>8. PICK x : x = SubSeq(s, 1, i - 1) \o <<>>  OBVIOUS
    <3>9. PICK y : y = SubSeq(s, i - 1 + 1 + 1, Len(s))  OBVIOUS
    <3>10. x \in Seq(S) /\ y \in Seq(S) /\ Elements(x) \subseteq Elements(s)
           /\ Elements(y) \subseteq Elements(s) /\ g[t] = x \o y
      BY <3>3, <3>5, <3>7, <3>8, <3>9
    <3>11. x \o y \in Seq(S) /\ Elements(x \o y) = Elements(x) \cup Elements(y)
      BY ONLY <3>10, ConcatElements
    <3> QED  BY <3>10, <3>11
  <2> QED  BY <2>2, <2>3
<1>2. f["next-turn"] \in Seq(Messages) /\ f["next-step"] \in Seq(Messages)
      /\ f["next-step"] \in Seq(Sents)
  BY DEF Inboxes, Targets
<1>3. DOMAIN g = Targets /\ g = [t \in Targets |-> g[t]]  BY DEF Without
<1> QED  BY <1>1, <1>2, <1>3 DEF Inboxes, Targets

LEMMA ClaimedType ==
  ASSUME NEW f \in Inboxes, NEW t \in Targets, NEW b, b = Batch(f, t), NEW g, g = Unclaimed(f, t)
  PROVE  /\ b \in Seq(Messages) /\ OneRound(b) /\ g \in Inboxes
         /\ Elements(g["next-turn"]) \subseteq Elements(f["next-turn"])
         /\ \A m \in Elements(b) : IsRound(m) => m \in Elements(f["next-turn"])
<1> PICK s : s = f["next-step"]  OBVIOUS
<1> PICK q : q = f["next-turn"]  OBVIOUS
<1>1. s \in Seq(Sents) /\ q \in Seq(Messages) /\ s \in Seq(Messages)  BY DEF Inboxes, Targets
<1>2. <<>> \in Seq(Sents) /\ <<>> \in Seq(Messages) /\ Elements(<<>>) = {}
  BY EmptySeq DEF Elements
<1>3. Elements(s) \subseteq Sents  BY <1>1, ElementsType
<1>4. \A m \in Elements(s) : ~IsRound(m)  BY <1>3 DEF IsRound, Sents
<1>5. \A i \in DOMAIN s : s[i] \in Elements(s)  BY DEF Elements
<1>6. CASE t = "next-turn" /\ q # <<>>
  <2>1. b = s \o <<Head(q)>> /\ g["next-turn"] = Tail(q) /\ g["next-step"] = <<>>
    BY <1>6 DEF Batch, Unclaimed, Targets
  <2>2. Head(q) \in Messages /\ Tail(q) \in Seq(Messages)  BY <1>1, <1>6, HeadTailProperties
  <2>3. Len(q) \in Nat /\ Len(q) >= 1 /\ DOMAIN q = 1..Len(q) /\ Head(q) = q[1]
    BY <1>1, <1>6, LenProperties, EmptySeq
  <2>4. Head(q) \in Elements(q)  BY <2>3 DEF Elements
  <2>5. Elements(Tail(q)) \subseteq Elements(q)
    <3>1. Len(Tail(q)) = Len(q) - 1 /\ \A i \in 1..Len(q) - 1 : Tail(q)[i] = q[i + 1]
      BY <1>1, <1>6, HeadTailProperties
    <3>2. DOMAIN Tail(q) = 1..Len(q) - 1  BY <2>2, <3>1, LenProperties
    <3>3. \A i \in DOMAIN Tail(q) : i + 1 \in DOMAIN q /\ Tail(q)[i] = q[i + 1]
      BY <2>3, <3>1, <3>2
    <3> QED  BY <3>3 DEF Elements
  <2>6. <<Head(q)>> \in Seq(Messages) /\ Len(<<Head(q)>>) = 1 /\ DOMAIN <<Head(q)>> = 1..1
        /\ <<Head(q)>>[1] = Head(q)
    BY <2>2
  <2>7. Elements(<<Head(q)>>) = {Head(q)}  BY <2>6 DEF Elements
  <2>8. b \in Seq(Messages) /\ Elements(b) = Elements(s) \cup {Head(q)}
    <3>1. PICK h : h = <<Head(q)>>  OBVIOUS
    <3>2. h \in Seq(Messages)  BY <2>6, <3>1
    <3>3. s \o h \in Seq(Messages) /\ Elements(s \o h) = Elements(s) \cup Elements(h)
      BY <1>1, <3>2, ConcatElements
    <3> QED  BY <2>1, <2>7, <3>1, <3>3
  <2>9. OneRound(b)
    <3>1. Len(s) \in Nat /\ DOMAIN s = 1..Len(s) /\ DOMAIN b = 1..Len(s) + 1
      BY <1>1, <2>1, <2>6, <2>8, LenProperties, ConcatProperties
    <3>2. \A i \in 1..Len(s) : b[i] = s[i]
      BY <1>1, <2>1, <2>6, <3>1, ConcatProperties
    <3>3. \A i \in DOMAIN b : IsRound(b[i]) => i = Len(s) + 1
      BY <1>4, <1>5, <3>1, <3>2
    <3> QED  BY <3>3 DEF OneRound
  <2>10. g = [x \in Targets |-> g[x]]  BY DEF Unclaimed
  <2>11. g \in Inboxes  BY <1>2, <2>1, <2>2, <2>10 DEF Inboxes, Targets
  <2> QED  BY <1>4, <2>1, <2>4, <2>5, <2>8, <2>9, <2>11
<1>7. CASE ~(t = "next-turn" /\ q # <<>>)
  <2>1. b = s \o <<>> /\ g["next-turn"] = q /\ g["next-step"] = <<>>
    BY <1>7 DEF Batch, Unclaimed, Targets
  <2>2. b \in Seq(Messages) /\ Elements(b) = Elements(s)
    BY <1>1, <1>2, <2>1, ConcatElements
  <2>3. \A i \in DOMAIN b : b[i] \in Elements(b)  BY DEF Elements
  <2>4. OneRound(b)  BY <1>4, <2>2, <2>3 DEF OneRound
  <2>5. g = [x \in Targets |-> g[x]]  BY DEF Unclaimed
  <2>6. g \in Inboxes  BY <1>1, <1>2, <2>1, <2>5 DEF Inboxes, Targets
  <2> QED  BY <1>4, <2>1, <2>2, <2>4, <2>6
<1> QED  BY <1>6, <1>7

UsedOK == used \in [sent : 0..MaxSent, op : 0..MaxOps, mishap : 0..MaxMishaps]

\* Good, but for where the agent stands.
Tame(w) ==
  /\ w \in Worlds /\ OneRound(w.agent.batch) /\ Limits(w) /\ Fences(w) /\ Unloading(w)
  /\ Flushes(w)

TakesBatch(w, f, b, a) ==
  [w EXCEPT !.inbox = f, !.agent.batch = b, !.agent.pc = "assembling", !.agent.guarded = FALSE,
            !.driver.attempt = a]

TookBatch(v, w, f, b, a) ==
  /\ v \in Worlds /\ v.goal = w.goal /\ v.past = w.past /\ v.inbox = f
  /\ v.agent.kind = w.agent.kind /\ v.agent.pc = "assembling" /\ v.agent.batch = b
  /\ v.driver.life = w.driver.life /\ v.driver.awaitsIdle = w.driver.awaitsIdle
  /\ v.driver.checkpoint = w.driver.checkpoint /\ v.driver.loops = w.driver.loops
  /\ v.driver.waker = w.driver.waker /\ v.driver.attempt = a
LEMMA TakesBatchFields ==
  ASSUME NEW w \in Worlds, NEW f \in Inboxes, NEW b \in Seq(Messages), NEW t \in Attempts,
         NEW v, v = TakesBatch(w, f, b, t)
  PROVE  TookBatch(v, w, f, b, t)
<1>1. PICK a : a = [w.agent EXCEPT !.batch = b, !.pc = "assembling", !.guarded = FALSE]
  OBVIOUS
<1>3. PICK d : d = [w.driver EXCEPT !.attempt = t]  OBVIOUS
<1>4. w.agent \in Agents /\ w.driver \in Drivers /\ w.driver.attempt \in Attempts
  BY DEF Worlds, Drivers
<1>5. v = [w EXCEPT !.inbox = f, !.agent = a, !.driver = d]
  BY <1>1, <1>3, <1>4 DEF TakesBatch, Worlds
<1>7. /\ d \in Drivers /\ d.life = w.driver.life /\ d.awaitsIdle = w.driver.awaitsIdle
      /\ d.checkpoint = w.driver.checkpoint /\ d.loops = w.driver.loops
      /\ d.waker = w.driver.waker /\ d.attempt = t
  BY <1>3, <1>4 DEF Drivers
<1>8. a \in Agents /\ a.kind = w.agent.kind /\ a.pc = "assembling" /\ a.batch = b
  BY <1>1, <1>4 DEF Agents
<1>9. /\ v \in Worlds /\ v.goal = w.goal /\ v.past = w.past /\ v.inbox = f
      /\ v.agent = a /\ v.driver = d
  BY <1>5, <1>7, <1>8 DEF Worlds
<1> QED  BY <1>7, <1>8, <1>9 DEF TookBatch

LEMMA ClaimedAttempt ==
  ASSUME UsedOK, NEW w \in Worlds, NEW b
  PROVE  Claimed(w, b) \in Attempts
<1>1. MaxSent - used.sent \in Nat  BY GoalRoundsConstants DEF UsedOK
<1>2. w.driver.attempt \in Attempts  BY DEF Worlds, Drivers
<1> QED  BY <1>1, <1>2 DEF Claimed, Attempts

LEMMA ClaimsGood ==
  ASSUME UsedOK, NEW w, Tame(w), w.agent.kind = "running", NEW t \in Targets,
         NEW v, v = Claims(w, t)
  PROVE  /\ Good(v) /\ v.driver.waker = w.driver.waker /\ v.driver.loops = w.driver.loops
         /\ v.past = w.past
<1>1. PICK f : f = Unclaimed(w.inbox, t)  OBVIOUS
<1>2. PICK b : b = Batch(w.inbox, t)  OBVIOUS
<1>4. PICK a : a = Claimed(w, b)  OBVIOUS
<1>5. v = TakesBatch(w, f, b, a)
  BY <1>1, <1>2, <1>4 DEF Claims, TakesBatch, Claimed
<1>6. w \in Worlds /\ w.inbox \in Inboxes  BY DEF Tame, Worlds
<1>7. /\ b \in Seq(Messages) /\ OneRound(b) /\ f \in Inboxes
      /\ Elements(f["next-turn"]) \subseteq Elements(w.inbox["next-turn"])
      /\ \A m \in Elements(b) : IsRound(m) => m \in Elements(w.inbox["next-turn"])
  <2>1. PICK h : h = w.inbox  OBVIOUS
  <2>2. h \in Inboxes /\ f = Unclaimed(h, t) /\ b = Batch(h, t)  BY <1>1, <1>2, <1>6, <2>1
  <2>3. /\ b \in Seq(Messages) /\ OneRound(b) /\ f \in Inboxes
        /\ Elements(f["next-turn"]) \subseteq Elements(h["next-turn"])
        /\ \A m \in Elements(b) : IsRound(m) => m \in Elements(h["next-turn"])
    BY ONLY <2>2, t \in Targets, ClaimedType
  <2> QED  BY <2>1, <2>3
<1>9. a \in Attempts  BY <1>4, <1>6, ClaimedAttempt
<1>10. /\ v \in Worlds /\ v.goal = w.goal /\ v.past = w.past /\ v.inbox = f
       /\ v.agent.kind = w.agent.kind /\ v.agent.pc = "assembling" /\ v.agent.batch = b
       /\ v.driver.life = w.driver.life /\ v.driver.awaitsIdle = w.driver.awaitsIdle
       /\ v.driver.checkpoint = w.driver.checkpoint /\ v.driver.loops = w.driver.loops
       /\ v.driver.waker = w.driver.waker /\ v.driver.attempt = a
  <2>1. w \in Worlds /\ f \in Inboxes /\ b \in Seq(Messages)  BY <1>6, <1>7
  <2>2. TookBatch(v, w, f, b, a)  BY ONLY <1>5, <1>9, <2>1, TakesBatchFields
  <2> QED  BY <2>2 DEF TookBatch
<1>11. Limits(v)
  BY <1>7, <1>10 DEF Tame, Limits, Within
<1>12. Stages(v) /\ OneRound(v.agent.batch) /\ Fences(v)
  BY <1>7, <1>10 DEF Tame, Stages, Fences, Excused
<1>13. HasRound(b) \/ HasRound(f["next-turn"]) => HasRound(w.inbox["next-turn"])
  BY <1>7, RoundsAmong DEF HasRoundElements
<1>14. Unloading(v)  BY <1>10, <1>13 DEF Tame, Unloading
<1>15. Flushes(v)  BY <1>10 DEF Tame, Flushes, Owing, Flushed, Covers
<1> QED  BY <1>10, <1>11, <1>12, <1>14, <1>15 DEF Good, Fenced

Starting == [Idle EXCEPT !.kind = "running"]

LEMMA StartingTame ==
  ASSUME NEW w, Good(w), NEW a \in {Idle, Starting}, NEW v, v = [w EXCEPT !.agent = a]
  PROVE  /\ Tame(v) /\ v.agent = a /\ v.driver = w.driver /\ v.past = w.past
         /\ v.inbox = w.inbox /\ v.goal = w.goal
<1>1. w \in Worlds  BY DEF Good
<1>2. <<>> \in Seq(Messages) /\ DOMAIN <<>> = {}  BY EmptySeq
<1>3. a \in Agents /\ a.batch = <<>> /\ a.pc = "none"
  <2>1. Idle \in Agents /\ Idle.batch = <<>> /\ Idle.pc = "none"
    BY <1>2 DEF Idle, Agents
  <2>2. Starting \in Agents /\ Starting.batch = Idle.batch /\ Starting.pc = Idle.pc
    BY <2>1 DEF Starting, Agents
  <2> QED  BY <2>1, <2>2
<1>4. /\ v \in Worlds /\ v.goal = w.goal /\ v.past = w.past /\ v.inbox = w.inbox
      /\ v.agent = a /\ v.driver = w.driver
  BY <1>1, <1>3 DEF Worlds
<1>5. ~HasRound(a.batch) /\ Elements(a.batch) = {} /\ OneRound(a.batch)
  BY <1>2, <1>3 DEF HasRound, Elements, OneRound
<1>6. Limits(v)  BY <1>4, <1>5 DEF Limits, Good, Fenced
<1>7. Fences(v)  BY <1>3, <1>4, <1>5 DEF Fences, Excused, Good, Fenced
<1>8. Unloading(v)  BY <1>4, <1>5 DEF Unloading, Good, Fenced
<1>9. Flushes(v)  BY <1>4 DEF Good, Flushes, Owing, Flushed, Covers
<1> QED  BY <1>4, <1>5, <1>6, <1>7, <1>8, <1>9 DEF Tame

LEMMA IdleGood ==
  ASSUME NEW w, Good(w), NEW v, v = [w EXCEPT !.agent = Idle]
  PROVE  Good(v) /\ v.driver = w.driver /\ v.agent = Idle /\ v.inbox = w.inbox /\ v.past = w.past
         /\ v.goal = w.goal
<1>1. Tame(v) /\ v.agent = Idle /\ v.driver = w.driver /\ v.past = w.past /\ v.inbox = w.inbox
      /\ v.goal = w.goal
  BY StartingTame
<1>2. Stages(v)  BY <1>1 DEF Stages, Idle
<1> QED  BY <1>1, <1>2 DEF Tame, Good, Fenced

LEMMA OpensTurnGood ==
  ASSUME UsedOK, NEW w, Good(w), NEW v, v = OpensTurn(w)
  PROVE  /\ Good(v) /\ v.driver.waker = w.driver.waker /\ v.driver.loops = w.driver.loops
         /\ v.past = w.past
<1>1. PICK x : x = [w EXCEPT !.agent = Starting]  OBVIOUS
<1>2. v = Claims(x, "next-turn")  BY <1>1 DEF OpensTurn, Starting
<1>3. Tame(x) /\ x.agent = Starting /\ x.driver = w.driver /\ x.past = w.past
  BY <1>1, StartingTame
<1>4. x.agent.kind = "running"  BY <1>3 DEF Starting, Idle
<1>5. "next-turn" \in Targets  BY DEF Targets
<1>6. /\ Good(v) /\ v.driver.waker = x.driver.waker /\ v.driver.loops = x.driver.loops
      /\ v.past = x.past
  BY ONLY UsedOK, <1>2, <1>3, <1>4, <1>5, ClaimsGood
<1> QED  BY <1>3, <1>6

LEMMA AgentFlags ==
  ASSUME NEW w \in Worlds, NEW abort \in BOOLEAN, NEW latch \in BOOLEAN,
         NEW v, v = [w EXCEPT !.agent.latch = latch, !.agent.abort = abort]
  PROVE  Eased(v, w)
BY DEF Worlds, Agents, Eased

LEMMA LatchEased ==
  ASSUME NEW w \in Worlds, NEW v, v = [w EXCEPT !.agent.latch = TRUE]
  PROVE  Eased(v, w)
BY DEF Worlds, Agents, Eased

LEMMA WakesGood ==
  ASSUME UsedOK, NEW w, Good(w), NEW b, NEW v, v = Wakes(w, b)
  PROVE  Good(v) /\ v.driver.waker = w.driver.waker /\ v.driver.loops = w.driver.loops
         /\ v.past = w.past
<1>1. CASE w.agent.kind = "idle"
  <2>1. v = OpensTurn(w)  BY <1>1 DEF Wakes
  <2> QED  BY ONLY <2>1, UsedOK, Good(w), OpensTurnGood
<1>2. CASE w.agent.kind # "idle" /\ (w.agent.kind = "maintenance" \/ b)
  <2>1. v = [w EXCEPT !.agent.latch = TRUE]  BY <1>2 DEF Wakes
  <2>2. Eased(v, w)  BY <2>1, LatchEased DEF Good
  <2> QED  BY <2>2, EasedGood DEF Eased
<1>3. CASE w.agent.kind # "idle" /\ ~(w.agent.kind = "maintenance" \/ b)
  <2>1. v = w  BY <1>3 DEF Wakes
  <2> QED  BY <2>1
<1> QED  BY <1>1, <1>2, <1>3

\* The agent moves within its turn; a fence stands before the log.
InStep == {"assembling", "hooks", "preparing", "streaming", "rejected"}

LEMMA MovesGood ==
  ASSUME NEW w, Good(w), w.agent.kind = "running", NEW pc \in InStep,
         pc = "hooks" /\ HasRound(w.agent.batch) => w.agent.guarded \/ w.driver.life = "gone",
         pc = "preparing" /\ HasRound(w.agent.batch) /\ ~Excused(w) =>
           FoldsRound(w.goal, FirstRound(w.agent.batch).ref, FirstRound(w.agent.batch).round),
         NEW v, v = [w EXCEPT !.agent.pc = pc]
  PROVE  /\ Good(v) /\ v.driver = w.driver /\ v.past = w.past /\ v.goal = w.goal
         /\ v.inbox = w.inbox /\ v.agent.kind = "running" /\ v.agent.batch = w.agent.batch
<1>1. w \in Worlds  BY DEF Good
<1>2. /\ v \in Worlds /\ v.goal = w.goal /\ v.past = w.past /\ v.inbox = w.inbox
      /\ v.driver = w.driver /\ v.agent.kind = w.agent.kind /\ v.agent.pc = pc
      /\ v.agent.batch = w.agent.batch /\ v.agent.guarded = w.agent.guarded
  BY <1>1 DEF Worlds, Agents, InStep
<1>3. Stages(v)  BY <1>2 DEF Stages, InStep
<1>4. Fences(v)  BY <1>2 DEF Fences, Excused, Good, Fenced
<1>5. Limits(v) /\ OneRound(v.agent.batch) /\ Unloading(v)
  BY <1>2 DEF Limits, Unloading, Good, Fenced
<1>6. Flushes(v)  BY <1>2 DEF Good, Flushes, Owing, Flushed, Covers
<1> QED  BY <1>2, <1>3, <1>4, <1>5, <1>6 DEF Good, Fenced

LeavesStep(w, pc) ==
  [w EXCEPT !.agent.batch = <<>>, !.agent.guarded = FALSE, !.agent.pc = pc]

LEMMA LeavesStepGood ==
  ASSUME NEW w, Good(w), w.agent.kind = "running", NEW pc \in {"between", "retiring"},
         NEW v, v = LeavesStep(w, pc)
  PROVE  /\ Good(v) /\ v.driver = w.driver /\ v.past = w.past /\ v.agent.kind = "running"
         /\ v.agent.pc = pc
<1>1. w \in Worlds  BY DEF Good
<1>2. <<>> \in Seq(Messages) /\ DOMAIN <<>> = {}  BY EmptySeq
<1>3. PICK a : a = [w.agent EXCEPT !.batch = <<>>, !.guarded = FALSE, !.pc = pc]  OBVIOUS
<1>4. v = [w EXCEPT !.agent = a]  BY <1>1, <1>3 DEF Worlds, LeavesStep
<1>5. a \in Agents /\ a.batch = <<>> /\ a.pc = pc /\ a.kind = "running"
  BY <1>1, <1>2, <1>3 DEF Worlds, Agents
<1>6. /\ v \in Worlds /\ v.goal = w.goal /\ v.past = w.past /\ v.inbox = w.inbox
      /\ v.driver = w.driver /\ v.agent = a
  BY <1>1, <1>4, <1>5 DEF Worlds
<1>7. ~HasRound(a.batch) /\ Elements(a.batch) = {} /\ OneRound(a.batch)
  BY <1>2, <1>5 DEF HasRound, Elements, OneRound
<1>8. Stages(v) /\ Limits(v)  BY <1>5, <1>6, <1>7 DEF Stages, Limits, Good, Fenced
<1>9. Fences(v) /\ Unloading(v)
  BY <1>5, <1>6, <1>7 DEF Fences, Excused, Unloading, Good, Fenced
<1>10. Flushes(v)  BY <1>6 DEF Good, Flushes, Owing, Flushed, Covers
<1> QED  BY <1>5, <1>6, <1>7, <1>8, <1>9, <1>10 DEF Good, Fenced

LEMMA AttemptEased ==
  ASSUME NEW w \in Worlds, NEW a \in Attempts, NEW v, v = [w EXCEPT !.driver.attempt = a]
  PROVE  Eased(v, w)
BY DEF Worlds, Drivers, Eased

LEMMA CancelledEased ==
  ASSUME NEW w \in Worlds, NEW v, v = [w EXCEPT !.driver.attempt.cancelled = TRUE]
  PROVE  Eased(v, w)
<1>1. PICK a : a = [w.driver.attempt EXCEPT !.cancelled = TRUE]  OBVIOUS
<1>2. v = [w EXCEPT !.driver.attempt = a]  BY <1>1 DEF Worlds, Drivers
<1>3. w.driver.attempt \in Attempts  BY DEF Worlds, Drivers
<1>4. a \in Attempts  BY <1>1, <1>3 DEF Attempts
<1> QED  BY <1>2, <1>4, AttemptEased

LEMMA EndsTurnGood ==
  ASSUME NEW w, Good(w), w.agent.kind = "running", NEW ending, NEW v, v = EndsTurn(w, ending)
  PROVE  /\ Good(v) /\ v.agent.kind = "running" /\ v.driver.waker = w.driver.waker
         /\ v.driver.loops = w.driver.loops /\ v.past = w.past
         /\ v.agent.pc \in {"between", "retiring"}
<1>1. PICK pc : pc = IF ending \in {"completed", "max-tokens"} /\ HasPending(w.inbox)
                     THEN "between" ELSE "retiring"
  OBVIOUS
<1>2. PICK u : u = LeavesStep(w, pc)  OBVIOUS
<1>3. pc \in {"between", "retiring"}  BY <1>1
<1>4. /\ Good(u) /\ u.driver = w.driver /\ u.past = w.past
      /\ u.agent.kind = "running" /\ u.agent.pc = pc
  BY <1>2, <1>3, LeavesStepGood
<1>5. \/ v = u
      \/ v = [u EXCEPT !.driver.attempt.cancelled = TRUE]
      \/ v = Disarm(u)
  BY <1>1, <1>2 DEF EndsTurn, LeavesStep
<1>6. CASE v = u  BY <1>3, <1>4, <1>6
<1>7. CASE v = [u EXCEPT !.driver.attempt.cancelled = TRUE]
  <2>1. Eased(v, u)  BY <1>4, <1>7, CancelledEased DEF Good
  <2> QED  BY <1>3, <1>4, <2>1, EasedGood DEF Eased
<1>8. CASE v = Disarm(u)
  <2>1. Good(v) /\ v.driver = u.driver /\ v.past = u.past /\ v.agent = u.agent
    BY <1>4, <1>8, DisarmGood
  <2> QED  BY <1>3, <1>4, <2>1
<1> QED  BY <1>5, <1>6, <1>7, <1>8

Settles(w, f) == [w EXCEPT !.driver.attempt = NoAttempt, !.inbox = f]

LEMMA SettlesEased ==
  ASSUME NEW w \in Worlds, NEW f \in Inboxes,
         Elements(f["next-turn"]) \subseteq Elements(w.inbox["next-turn"]),
         NEW v, v = Settles(w, f)
  PROVE  Eased(v, w)
<1>1. PICK d : d = [w.driver EXCEPT !.attempt = NoAttempt]  OBVIOUS
<1>2. w.driver \in Drivers  BY DEF Worlds
<1>3. /\ d \in Drivers /\ d.life = w.driver.life /\ d.awaitsIdle = w.driver.awaitsIdle
      /\ d.checkpoint = w.driver.checkpoint /\ d.loops = w.driver.loops
      /\ d.waker = w.driver.waker
  BY <1>1, <1>2, NoAttemptType DEF Drivers
<1>4. v = [w EXCEPT !.driver = d, !.inbox = f]  BY <1>1 DEF Worlds, Settles
<1>5. /\ v \in Worlds /\ v.driver = d /\ v.inbox = f /\ v.goal = w.goal /\ v.past = w.past
      /\ v.agent = w.agent
  BY <1>3, <1>4 DEF Worlds
<1> QED  BY <1>3, <1>5 DEF Eased

LEMMA StatusIdleGood ==
  ASSUME NEW w, Good(w), NEW v, v = StatusIdle(w)
  PROVE  Good(v) /\ Driven(v, w)
<1>1. w \in Worlds  BY DEF Good
<1>2. PICK a : a = w.driver.attempt  OBVIOUS
<1>3. PICK u : u = [w EXCEPT !.driver.competing = FALSE]  OBVIOUS
<1>4. PICK f : f = IF a.at = "queued" THEN Without(u.inbox, a.message) ELSE u.inbox  OBVIOUS
<1>5. PICK x : x = Settles(u, f)  OBVIOUS
<1>6. Eased(u, w) /\ u.inbox = w.inbox  BY <1>1, <1>3 DEF Worlds, Drivers, Eased
<1>7. Good(u) /\ Driven(u, w)  BY <1>6, EasedGood
<1>8. f \in Inboxes /\ Elements(f["next-turn"]) \subseteq Elements(u.inbox["next-turn"])
  <2>1. u.inbox \in Inboxes  BY <1>6 DEF Eased, Worlds
  <2>2. CASE a.at = "queued"
    <3>1. PICK h : h = u.inbox  OBVIOUS
    <3>2. h \in Inboxes /\ f = Without(h, a.message)  BY <1>4, <2>1, <2>2, <3>1
    <3>3. f \in Inboxes /\ Elements(f["next-turn"]) \subseteq Elements(h["next-turn"])
      BY ONLY <3>2, WithoutType
    <3> QED  BY <3>1, <3>3
  <2>3. CASE a.at # "queued"  BY <1>4, <2>1, <2>3
  <2> QED  BY <2>2, <2>3
<1>9. Eased(x, u)  BY <1>5, <1>7, <1>8, SettlesEased DEF Good
<1>10. Good(x) /\ Driven(x, u)  BY <1>7, <1>9, EasedGood
<1>11. Driven(x, w)  BY <1>6, <1>9 DEF Driven, Eased
<1>12. \/ v = w
       \/ v = u
       \/ v = RequestDrive(Change(x, "pause", 0, FALSE)) /\ Aims(w, a.message)
       \/ v = RequestDrive(x)
       \/ v = RequestDrive(u)
  BY <1>2, <1>3, <1>4, <1>5 DEF StatusIdle, Settles
<1>13. CASE v = w  BY <1>1, <1>13 DEF Driven
<1>14. CASE v = u  BY <1>7, <1>14
<1>15. CASE v = RequestDrive(x)
  <2>1. Good(v) /\ Driven(v, x)  BY <1>10, <1>15, RequestDriveGood
  <2>2. x.driver.waker = w.driver.waker  BY <1>6, <1>9 DEF Eased
  <2> QED  BY <1>11, <2>1, <2>2 DEF Driven
<1>16. CASE v = RequestDrive(u)
  <2>1. Good(v) /\ Driven(v, u)  BY <1>7, <1>16, RequestDriveGood
  <2> QED  BY <1>6, <2>1 DEF Driven, Eased
<1>17. CASE v = RequestDrive(Change(x, "pause", 0, FALSE)) /\ Aims(w, a.message)
  <2>1. PICK y : y = Change(x, "pause", 0, FALSE)  OBVIOUS
  <2>2. x.goal = w.goal  BY <1>6, <1>9 DEF Eased
  <2>3. Admits(x.goal, "pause")  BY <1>17, <2>2 DEF Aims, Continues, Admits
  <2>4. "pause" \in Operations /\ 0 \in 0..MaxRounds  BY GoalRoundsConstants DEF Operations
  <2>5. Good(y) /\ Altered(y, x)  BY ONLY <1>10, <2>1, <2>3, <2>4, ChangeGood
  <2>6. Good(v) /\ Driven(v, y)  BY <1>17, <2>1, <2>5, RequestDriveGood
  <2> QED  BY <1>6, <1>9, <2>5, <2>6 DEF Driven, Altered, Eased
<1> QED  BY <1>12, <1>13, <1>14, <1>15, <1>16, <1>17

LEMMA OthersType ==
  ASSUME NEW s \in Seq(Messages), NEW R \in SUBSET Others(s)
  PROVE  Kept(s, R) \in Seq(Sents)
<1>1. Others(s) \subseteq Sents
  BY ElementsType DEF Others, IsRound, Messages, RoundMessages
<1>2. Kept(s, R) \in Seq(R)  BY KeptType
<1>3. PICK k : k = Kept(s, R)  OBVIOUS
<1>4. Len(k) \in Nat /\ k \in [1..Len(k) -> R]  BY <1>2, <1>3, LenProperties, SeqDef
<1>5. k \in [1..Len(k) -> Sents]  BY <1>1, <1>4
<1> QED  BY <1>3, <1>4, <1>5, SeqDef

LEMMA RestoresEased ==
  ASSUME NEW w \in Worlds, NEW s \in Seq(Messages), NEW v, v = Restores(w, s)
  PROVE  Eased(v, w)
<1>1. PICK k : k = Kept(s, Others(s) \ Pending(w.inbox))  OBVIOUS
<1>2. k \in Seq(Sents)  BY <1>1, OthersType
<1>3. PICK f : f = w.inbox  OBVIOUS
<1>4. f \in Inboxes /\ f \in [Targets -> Seq(Messages)] /\ f["next-step"] \in Seq(Sents)
  BY <1>3 DEF Worlds, Inboxes
<1>5. PICK c : c = k \o f["next-step"]  OBVIOUS
<1>6. c \in Seq(Sents)  BY <1>2, <1>4, <1>5, ConcatElements
<1>7. c \in Seq(Messages)
  <2>1. Len(c) \in Nat /\ c \in [1..Len(c) -> Sents]  BY <1>6, LenProperties, SeqDef
  <2>2. c \in [1..Len(c) -> Messages]  BY <2>1 DEF Messages
  <2> QED  BY <2>1, <2>2, SeqDef
<1>8. PICK g : g = [f EXCEPT !["next-step"] = c]  OBVIOUS
<1>9. g \in Inboxes /\ g["next-turn"] = f["next-turn"]
  BY <1>4, <1>6, <1>7, <1>8 DEF Inboxes, Targets
<1>10. v = [w EXCEPT !.inbox = g]  BY <1>1, <1>3, <1>5, <1>8 DEF Restores, Worlds
<1>11. /\ v \in Worlds /\ v.inbox = g /\ v.goal = w.goal /\ v.past = w.past
       /\ v.agent = w.agent /\ v.driver = w.driver
  BY <1>9, <1>10 DEF Worlds
<1> QED  BY <1>3, <1>9, <1>11 DEF Eased

LEMMA RejectsGood ==
  ASSUME NEW w, Good(w), w.agent.kind = "running", NEW message, NEW v, v = Rejects(w, message)
  PROVE  Good(v) /\ (v.driver.waker = w.driver.waker \/ Backed(v))
<1>1. w \in Worlds /\ w.agent.batch \in Seq(Messages)  BY DEF Good, Worlds, Agents
<1>2. PICK u : u = IF SameQueued(w, message) THEN [w EXCEPT !.driver.attempt = NoAttempt] ELSE w
  OBVIOUS
<1>3. PICK x : x = Restores(u, w.agent.batch)  OBVIOUS
<1>4. PICK y : y = RequestDrive(x)  OBVIOUS
<1>5. v = [y EXCEPT !.agent.pc = "rejected"]  BY <1>2, <1>3, <1>4 DEF Rejects
<1>6. Eased(u, w)
  <2>1. Eased(w, w)  BY <1>1 DEF Eased
  <2>2. u = w \/ u = [w EXCEPT !.driver.attempt = NoAttempt]  BY <1>2
  <2> QED  BY <1>1, <2>1, <2>2, NoAttemptType, AttemptEased
<1>7. Eased(x, u)
  <2>1. PICK s : s = w.agent.batch  OBVIOUS
  <2>2. s \in Seq(Messages) /\ x = Restores(u, s)  BY <1>1, <1>3, <2>1
  <2>3. u \in Worlds  BY <1>6 DEF Eased
  <2> QED  BY ONLY <2>2, <2>3, RestoresEased
<1>8. Good(u)  BY <1>6, EasedGood
<1>9. Good(x)  BY <1>7, <1>8, EasedGood
<1>10. Good(y) /\ Driven(y, x)  BY <1>4, <1>9, RequestDriveGood
<1>11. y.agent.kind = "running"  BY <1>6, <1>7, <1>10 DEF Driven, Eased
<1>12. "rejected" \in InStep  BY DEF InStep
<1>13. Good(v) /\ v.driver = y.driver /\ v.past = y.past
  BY <1>5, <1>10, <1>11, <1>12, MovesGood
<1>14. Backed(y) => Backed(v)  BY <1>13 DEF Backed, Flushed, Covers
<1> QED  BY <1>6, <1>7, <1>10, <1>13, <1>14 DEF Driven, Eased

-----------------------------------------------------------------------------
(* The actions *)

\* An action keeps the world good, and queues a round only with all that is
\* logged behind it.
Steps(v, w) == Good(v) /\ (v.driver.waker \in {w.driver.waker, NoWaker} \/ Backed(v))
\* The inductive invariant.
IInv == Good(World) /\ UsedOK

LEMMA Arrives ==
  ASSUME NEW w, NEW v, Steps(v, w), Becomes(v)
  PROVE  World' = v /\ Steps(World', w)
<1>1. v \in Worlds  BY DEF Steps, Good
<1>2. World' = v  BY <1>1 DEF World, Becomes, Worlds
<1> QED  BY <1>2

LEMMA FieldsOfWorld ==
  /\ World.goal = goal /\ World.agent = agent /\ World.inbox = inbox
  /\ World.driver = driver /\ World.past = past
BY DEF World

LEMMA UsedStep ==
  ASSUME UsedOK, Free \/ \E what \in {"sent", "op", "mishap"} : Use(what)
  PROVE  UsedOK'
<1>1. MaxSent \in Nat /\ MaxOps \in Nat /\ MaxMishaps \in Nat  BY GoalRoundsConstants
<1>2. CASE Free  BY <1>2 DEF UsedOK, Free
<1>3. CASE \E what \in {"sent", "op", "mishap"} : Use(what)
  <2>1. PICK what \in {"sent", "op", "mishap"} : Use(what)  BY <1>3
  <2>2. used[what] - 1 >= 0 /\ used[what] - 1 < used[what]
    BY <1>1, <2>1 DEF UsedOK, Use
  <2> QED  BY <1>1, <2>1, <2>2 DEF UsedOK, Use
<1> QED  BY <1>2, <1>3

LEMMA StepsFrom ==
  ASSUME NEW u, NEW w, NEW v, Good(v), u.driver.waker = w.driver.waker,
         v.driver.waker = u.driver.waker \/ Backed(v)
  PROVE  Steps(v, w)
BY DEF Steps

LEMMA LoopContinuesSteps ==
  ASSUME IInv, NEW l \in driver.loops, LoopContinues(l)
  PROVE  Steps(World', World) /\ UsedOK'
<1>1. PICK w : w = World  OBVIOUS
<1>2. Good(w) /\ w \in Worlds /\ w.driver = driver  BY <1>1, FieldsOfWorld DEF IInv, Good
<1>3. l \in w.driver.loops /\ l \in Loops /\ l.at = "again"
  BY <1>2 DEF LoopContinues, Worlds, Drivers
<1>4. PICK id : id = l.id  OBVIOUS
<1>5. id \in LoopIds  BY <1>3, <1>4 DEF Loops
<1>6. \A m \in w.driver.loops : m.id = id => m.at # "flush"
  BY <1>2, <1>3, <1>4 DEF Good, Flushes, LoopsApart
<1>7. Settled(w, id)  BY <1>2, <1>6, OtherLoops
<1>8. PICK v : /\ v = IF driver.requested /\ driver.life = "loaded"
                      THEN Drive([w EXCEPT !.driver.requested = FALSE], id, FALSE)
                      ELSE LoopAt(w, id, "retire")
               /\ Becomes(v)
  BY <1>1, <1>4 DEF LoopContinues
<1>9. Steps(v, w)
  <2>1. CASE driver.requested /\ driver.life = "loaded"
    <3>1. PICK u : u = [w EXCEPT !.driver.requested = FALSE]  OBVIOUS
    <3>2. /\ Scheduled(u, w) /\ u.driver.checkpoint = w.driver.checkpoint
          /\ u.driver.loops = w.driver.loops
      BY <1>2, <3>1 DEF Scheduled, Worlds, Drivers
    <3>3. Good(u) /\ Settled(u, id)  BY <1>2, <1>7, <3>2, NotedGood
    <3>4. v = Drive(u, id, FALSE)  BY <1>8, <2>1, <3>1
    <3>5. Good(v) /\ Driven(v, u)  BY <1>5, <3>3, <3>4, DriveGood
    <3> QED  BY <3>2, <3>5 DEF Steps, Driven, Scheduled
  <2>2. CASE ~(driver.requested /\ driver.life = "loaded")
    <3>1. v = LoopAt(w, id, "retire")  BY <1>8, <2>2
    <3>2. Good(v)  BY <1>2, <1>5, <1>7, <3>1, LoopAtGood
    <3>3. v.driver.waker = w.driver.waker  BY <1>2, <1>5, <3>1, LoopAtFields DEF Scheduled
    <3> QED  BY <3>2, <3>3 DEF Steps
  <2> QED  BY <2>1, <2>2
<1> QED  BY <1>1, <1>8, <1>9, Arrives, UsedStep DEF LoopContinues, IInv

\* A world that has lost a loop.
LEMMA RetiredGood ==
  ASSUME NEW w, Good(w), NEW l \in w.driver.loops, l.at # "flush",
         NEW u, u = [w EXCEPT !.driver.run = 0, !.driver.loops = @ \ {l}]
  PROVE  Good(u) /\ Scheduled(u, w)
<1>1. w \in Worlds  BY DEF Good
<1>2. /\ Scheduled(u, w) /\ u.driver.checkpoint = w.driver.checkpoint
      /\ u.driver.loops = w.driver.loops \ {l}
  BY <1>1 DEF Scheduled, Worlds, Drivers
<1>3. IsFiniteSet(u.driver.loops)  BY <1>2, FS_Subset DEF Good, Flushes
<1>4. Fenced(u)  BY <1>2, ScheduledFenced DEF Good
<1>5. Owing(u) => Owing(w)  BY <1>2 DEF Owing, Scheduled
<1>6. Flushed(w) => Flushed(u)  BY <1>2 DEF Flushed, Covers, Scheduled
<1>7. LoopsApart(u.driver.loops)  BY <1>2 DEF Good, Flushes, LoopsApart
<1>8. \A m \in u.driver.loops : m.covers <= u.past.logged
  BY <1>2 DEF Good, Flushes, Scheduled
<1>9. u.past.saved <= u.past.logged  BY <1>2 DEF Good, Flushes, Scheduled
<1>10. Flushes(u)  BY <1>3, <1>5, <1>6, <1>7, <1>8, <1>9 DEF Good, Flushes
<1> QED  BY <1>2, <1>4, <1>10 DEF Good, Scheduled

LEMMA RetiresSteps ==
  ASSUME IInv, NEW l \in driver.loops, Retires(l)
  PROVE  Steps(World', World) /\ UsedOK'
<1>1. PICK w : w = World  OBVIOUS
<1>2. Good(w) /\ w \in Worlds /\ w.driver = driver  BY <1>1, FieldsOfWorld DEF IInv, Good
<1>3. PICK u : u = [w EXCEPT !.driver.run = 0, !.driver.loops = @ \ {l}]  OBVIOUS
<1>4. l \in w.driver.loops /\ l.at # "flush"  BY <1>2 DEF Retires
<1>5. Good(u) /\ Scheduled(u, w)  BY <1>2, <1>3, <1>4, RetiredGood
<1>6. PICK v : v = (IF u.driver.requested THEN RequestDrive(u) ELSE u) /\ Becomes(v)
  BY <1>1, <1>3 DEF Retires
<1>7. CASE u.driver.requested
  <2>1. Good(v) /\ Driven(v, u)  BY <1>5, <1>6, <1>7, RequestDriveGood
  <2>2. Steps(v, w)  BY <1>5, <2>1 DEF Steps, Driven, Scheduled
  <2> QED  BY <1>1, <1>6, <2>2, Arrives, UsedStep DEF Retires, IInv
<1>8. CASE ~u.driver.requested
  <2>1. Steps(v, w)  BY <1>5, <1>5, <1>6, <1>8 DEF Steps, Scheduled
  <2> QED  BY <1>1, <1>6, <2>1, Arrives, UsedStep DEF Retires, IInv
<1> QED  BY <1>7, <1>8

Saves(w, n) == [w EXCEPT !.past.saved = n]

\* A flush that is over leaves the loops as far as they were.
LEMMA SavesGood ==
  ASSUME NEW w, Good(w), NEW l \in w.driver.loops,
         NEW n, n = IF l.covers > w.past.saved THEN l.covers ELSE w.past.saved,
         NEW u, u = Saves(w, n)
  PROVE  /\ Good(u) /\ Settled(u, l.id) /\ u.goal = w.goal /\ u.agent = w.agent
         /\ u.inbox = w.inbox /\ u.driver = w.driver
<1>1. w \in Worlds /\ l \in Loops  BY DEF Good, Worlds, Drivers
<1>2. /\ n \in Nat /\ n <= w.past.logged /\ n >= l.covers /\ n >= w.past.saved
      /\ l.covers \in Nat /\ w.past.saved \in Nat /\ w.past.logged \in Nat
  BY <1>1 DEF Worlds, Pasts, Loops, Good, Flushes
<1>3. /\ u \in Worlds /\ u.goal = w.goal /\ u.agent = w.agent /\ u.inbox = w.inbox
      /\ u.driver = w.driver /\ u.past.saved = n /\ u.past.logged = w.past.logged
      /\ u.past.slipped = w.past.slipped /\ u.past.orphan = w.past.orphan
  BY <1>1, <1>2 DEF Saves, Worlds, Pasts
<1>4. Fenced(u)
  BY <1>3 DEF Good, Fenced, Stages, Limits, Fences, Unloading, Excused
<1>5. ASSUME Owing(w)
      PROVE  n = w.past.logged \/ \E m \in w.driver.loops : m.id # l.id /\ Covers(w, m)
  <2>1. SUFFICES ASSUME NEW m \in w.driver.loops, Covers(w, m), m.id = l.id
                 PROVE  n = w.past.logged
    BY <1>2, <1>5 DEF Good, Flushes, Flushed
  <2>2. m = l  BY <2>1 DEF Good, Flushes, LoopsApart
  <2> QED  BY <1>2, <2>1, <2>2 DEF Covers
<1>6. Settled(u, l.id)  BY <1>3, <1>5 DEF Settled, FlushedBut, Owing, Covers
<1>7. Owing(u) => Flushed(u)  BY <1>6 DEF Settled, FlushedBut, Flushed
<1>8. Flushes(u)  BY <1>2, <1>3, <1>7 DEF Good, Flushes
<1> QED  BY <1>3, <1>4, <1>6, <1>8 DEF Good

LEMMA CheckpointSettlesSteps ==
  ASSUME IInv, NEW l \in driver.loops, CheckpointSettles(l)
  PROVE  Steps(World', World) /\ UsedOK'
<1>1. PICK w : w = World  OBVIOUS
<1>2. Good(w) /\ w \in Worlds /\ w.driver = driver /\ w.past = past
  BY <1>1, FieldsOfWorld DEF IInv, Good
<1>3. l \in w.driver.loops /\ l \in Loops  BY <1>2 DEF Worlds, Drivers
<1>4. PICK id : id = l.id  OBVIOUS
<1>5. id \in LoopIds  BY <1>3, <1>4 DEF Loops
<1>6. CASE /\ Free
           /\ LET u == [World EXCEPT !.past.saved = IF l.covers > @ THEN l.covers ELSE @]
              IN Becomes(IF ReadyAfterCheckpoint(u)
                         THEN DriveOn(u, l.id, FALSE) ELSE LoopAt(u, l.id, "again"))
  <2>1. PICK n : n = IF l.covers > w.past.saved THEN l.covers ELSE w.past.saved  OBVIOUS
  <2>2. PICK u : u = Saves(w, n)  OBVIOUS
  <2>3. PICK v : v = (IF ReadyAfterCheckpoint(u)
                      THEN DriveOn(u, id, FALSE) ELSE LoopAt(u, id, "again")) /\ Becomes(v)
    BY <1>1, <1>2, <1>4, <1>6, <2>1, <2>2 DEF Saves, Worlds, Pasts
  <2>4. Good(u) /\ Settled(u, id) /\ u.driver = w.driver
    BY <1>2, <1>3, <1>4, <2>1, <2>2, SavesGood
  <2>5. Steps(v, w)
    <3>1. CASE ReadyAfterCheckpoint(u)
      <4>1. u.driver.life = "loaded" /\ ~u.driver.checkpoint
        BY <3>1 DEF ReadyAfterCheckpoint, ReadyToDrive
      <4>2. v = DriveOn(u, id, FALSE)  BY <2>3, <3>1
      <4>3. Good(v) /\ Driven(v, u)  BY <1>5, <2>4, <4>1, <4>2, DriveOnGood
      <4> QED  BY <2>4, <4>3 DEF Steps, Driven
    <3>2. CASE ~ReadyAfterCheckpoint(u)
      <4>1. v = LoopAt(u, id, "again")  BY <2>3, <3>2
      <4>2. Good(v)  BY <1>5, <2>4, <4>1, LoopAtGood
      <4>3. v.driver.waker = u.driver.waker  BY <1>5, <2>4, <4>1, LoopAtFields DEF Scheduled, Good
      <4> QED  BY <2>4, <4>2, <4>3 DEF Steps
    <3> QED  BY <3>1, <3>2
  <2> QED  BY <1>1, <1>6, <2>3, <2>5, Arrives, UsedStep DEF IInv
<1>7. CASE Use("mishap") /\ Becomes(LoopAt(Disarm(World), l.id, "again"))
  <2>1. PICK u : u = Disarm(w)  OBVIOUS
  <2>2. Good(u) /\ ~Owing(u) /\ u.driver = w.driver /\ u \in Worlds
    BY <1>2, <2>1, DisarmGood DEF Good
  <2>3. PICK v : v = LoopAt(u, id, "again") /\ Becomes(v)  BY <1>1, <1>4, <1>7, <2>1
  <2>4. Settled(u, id)  BY <2>2 DEF Settled
  <2>5. Good(v)  BY <1>5, <2>2, <2>3, <2>4, LoopAtGood
  <2>6. v.driver.waker = u.driver.waker  BY <1>5, <2>2, <2>3, LoopAtFields DEF Scheduled
  <2>7. Steps(v, w)  BY <2>2, <2>5, <2>6 DEF Steps
  <2> QED  BY <1>1, <1>7, <2>3, <2>7, Arrives, UsedStep DEF IInv
<1> QED  BY <1>6, <1>7 DEF CheckpointSettles

LEMMA WakeUpSteps ==
  ASSUME IInv, WakeUp
  PROVE  Steps(World', World) /\ UsedOK'
<1>1. PICK w : w = World  OBVIOUS
<1>2. Good(w) /\ w \in Worlds /\ w.driver = driver  BY <1>1, FieldsOfWorld DEF IInv, Good
<1>3. PICK u : u = Wakes(w, FALSE)  OBVIOUS
<1>4. Good(u) /\ u.driver.loops = w.driver.loops  BY <1>2, <1>3, WakesGood DEF IInv
<1>5. PICK run : run = IF driver.waker.first THEN driver.waker.loop ELSE u.driver.run  OBVIOUS
<1>6. PICK v : v = [u EXCEPT !.driver.waker = NoWaker, !.driver.run = run] /\ Becomes(v)
  BY <1>1, <1>3, <1>5 DEF WakeUp
<1>7. u \in Worlds  BY <1>4 DEF Good
<1>8. run \in Nat  BY <1>2, <1>5, <1>7 DEF Worlds, Drivers
<1>9. NoWaker \in [loop : Nat, first : BOOLEAN]  BY DEF NoWaker
<1>10. /\ v \in Worlds /\ v.goal = u.goal /\ v.past = u.past /\ v.agent = u.agent
       /\ v.inbox = u.inbox
       /\ v.driver.life = u.driver.life /\ v.driver.awaitsIdle = u.driver.awaitsIdle
       /\ v.driver.checkpoint = u.driver.checkpoint /\ v.driver.loops = u.driver.loops
       /\ v.driver.waker = NoWaker
  BY <1>6, <1>7, <1>8, <1>9 DEF Worlds, Drivers
<1>11. Fenced(u) /\ Flushes(u)  BY <1>4 DEF Good
<1>12. Fenced(v)
  BY <1>10, <1>11 DEF Fenced, Stages, Limits, Fences, Unloading, Excused
<1>13. Flushes(v)  BY <1>10, <1>11 DEF Flushes, Owing, Flushed, Covers
<1>14. Steps(v, w)  BY <1>10, <1>12, <1>13 DEF Steps, Good
<1> QED  BY <1>1, <1>6, <1>14, Arrives, UsedStep DEF WakeUp, IInv

LEMMA FailsSteps ==
  ASSUME IInv, agent.kind = "running", Fails
  PROVE  Steps(World', World) /\ UsedOK'
<1>1. PICK w : w = World  OBVIOUS
<1>2. Good(w) /\ w.agent.kind = "running"  BY <1>1, FieldsOfWorld DEF IInv
<1>3. PICK ending, v : v = EndsTurn(w, ending) /\ Becomes(v)  BY <1>1 DEF Fails
<1>4. Good(v) /\ v.driver.waker = w.driver.waker  BY <1>2, <1>3, EndsTurnGood
<1>5. Steps(v, w)  BY <1>4 DEF Steps
<1>6. Free \/ Use("mishap")  BY DEF Fails
<1> QED  BY <1>1, <1>3, <1>5, <1>6, Arrives, UsedStep DEF IInv

LEMMA RunningWhen ==
  ASSUME IInv, agent.pc \notin {"none"}
  PROVE  agent.kind = "running"
BY FieldsOfWorld DEF IInv, Good, Fenced, Stages

LEMMA StepFailsSteps ==
  ASSUME IInv, StepFails
  PROVE  Steps(World', World) /\ UsedOK'
BY RunningWhen, FailsSteps DEF StepFails

LEMMA NextTurnSteps ==
  ASSUME IInv, NextTurn
  PROVE  Steps(World', World) /\ UsedOK'
<1>1. PICK w : w = World  OBVIOUS
<1>2. Good(w)  BY <1>1 DEF IInv
<1>3. PICK v : v = OpensTurn(w) /\ Becomes(v)  BY <1>1 DEF NextTurn
<1>4. Good(v) /\ v.driver.waker = w.driver.waker  BY <1>2, <1>3, OpensTurnGood DEF IInv
<1>5. Steps(v, w)  BY <1>4 DEF Steps
<1> QED  BY <1>1, <1>3, <1>5, Arrives, UsedStep DEF NextTurn, IInv

LEMMA RetireSteps ==
  ASSUME IInv, Retire
  PROVE  Steps(World', World) /\ UsedOK'
<1>1. PICK w : w = World  OBVIOUS
<1>2. Good(w)  BY <1>1 DEF IInv
<1>3. PICK u : u = [w EXCEPT !.agent = Idle]  OBVIOUS
<1>4. Good(u) /\ u.driver = w.driver  BY <1>2, <1>3, IdleGood
<1>5. PICK x : x = StatusIdle(u)  OBVIOUS
<1>6. Good(x) /\ Driven(x, u)  BY <1>4, <1>5, StatusIdleGood
<1>7. PICK v : /\ v = IF agent.latch /\ HasPending(x.inbox) /\ x.driver.waker = NoWaker
                      THEN Wakes(x, FALSE) ELSE x
               /\ Becomes(v)
  BY <1>1, <1>3, <1>5 DEF Retire
<1>8. Steps(v, w)
  <2>1. CASE v = x  BY <1>4, <1>6, <2>1 DEF Steps, Driven
  <2>2. CASE v = Wakes(x, FALSE) /\ x.driver.waker = NoWaker
    <3>1. Good(v) /\ v.driver.waker = x.driver.waker  BY <1>6, <2>2, WakesGood DEF IInv
    <3> QED  BY <2>2, <3>1 DEF Steps
  <2> QED  BY <1>7, <2>1, <2>2
<1> QED  BY <1>1, <1>7, <1>8, Arrives, UsedStep DEF Retire, IInv

Guards(w) == [w EXCEPT !.agent.guarded = TRUE]
LEMMA GuardsGood ==
  ASSUME NEW w, Good(w), NEW v, v = Guards(w)
  PROVE  /\ Good(v) /\ v.driver = w.driver /\ v.past = w.past /\ v.goal = w.goal
         /\ v.inbox = w.inbox /\ v.agent.kind = w.agent.kind /\ v.agent.batch = w.agent.batch
         /\ v.agent.pc = w.agent.pc /\ v.agent.guarded
<1>1. w \in Worlds  BY DEF Good
<1>2. /\ v \in Worlds /\ v.driver = w.driver /\ v.past = w.past /\ v.goal = w.goal
      /\ v.inbox = w.inbox /\ v.agent.kind = w.agent.kind /\ v.agent.batch = w.agent.batch
      /\ v.agent.pc = w.agent.pc /\ v.agent.guarded = TRUE
  BY <1>1 DEF Guards, Worlds, Agents
<1>3. Fenced(w) /\ Flushes(w)  BY DEF Good
<1>4. Fenced(v)  BY <1>2, <1>3 DEF Fenced, Stages, Limits, Fences, Unloading, Excused
<1>5. Flushes(v)  BY <1>2, <1>3 DEF Flushes, Owing, Flushed, Covers
<1> QED  BY <1>2, <1>4, <1>5 DEF Good

LEMMA AssembledSteps ==
  ASSUME IInv, Assembled
  PROVE  Steps(World', World) /\ UsedOK'
<1>1. PICK w : w = World  OBVIOUS
<1>2. Good(w) /\ w.agent = agent /\ w.driver = driver  BY <1>1, FieldsOfWorld DEF IInv
<1>3. w.agent.kind = "running"  BY <1>2, RunningWhen DEF Assembled
<1>4. "hooks" \in InStep  BY DEF InStep
<1>5. CASE /\ ~HasRound(agent.batch) \/ ~Listens(World)
           /\ Becomes([World EXCEPT !.agent.pc = "hooks"])
  <2>1. PICK v : v = [w EXCEPT !.agent.pc = "hooks"] /\ Becomes(v)  BY <1>1, <1>5
  <2>2. HasRound(w.agent.batch) => w.driver.life = "gone"  BY <1>1, <1>2, <1>5 DEF Listens
  <2>3. Good(v) /\ v.driver = w.driver  BY <1>2, <1>3, <1>4, <2>1, <2>2, MovesGood
  <2>4. Steps(v, w)  BY <2>3 DEF Steps
  <2> QED  BY <1>1, <2>1, <2>4, Arrives, UsedStep DEF Assembled, IInv
<1>6. CASE Becomes([World EXCEPT !.agent.pc = "hooks", !.agent.guarded = TRUE])
  <2>1. PICK u : u = Guards(w)  OBVIOUS
  <2>2. Good(u) /\ u.driver = w.driver /\ u.agent.kind = "running" /\ u.agent.guarded
    BY <1>2, <1>3, <2>1, GuardsGood
  <2>3. PICK v : v = [u EXCEPT !.agent.pc = "hooks"]  OBVIOUS
  <2>4. Good(v) /\ v.driver = u.driver  BY <1>4, <2>2, <2>3, MovesGood
  <2>5. v = [w EXCEPT !.agent.pc = "hooks", !.agent.guarded = TRUE]
    BY <1>2, <2>1, <2>3 DEF Guards, Good, Worlds, Agents
  <2>6. Becomes(v)  BY <1>1, <1>6, <2>5
  <2>7. Steps(v, w)  BY <2>2, <2>4 DEF Steps
  <2> QED  BY <1>1, <2>6, <2>7, Arrives, UsedStep DEF Assembled, IInv
<1>7. CASE Becomes(Rejects(World, Submitted))
  <2>1. PICK v : v = Rejects(w, Submitted) /\ Becomes(v)  BY <1>1, <1>7
  <2>2. Good(v) /\ (v.driver.waker = w.driver.waker \/ Backed(v))
    BY <1>2, <1>3, <2>1, RejectsGood
  <2>3. Steps(v, w)  BY <2>2 DEF Steps
  <2> QED  BY <1>1, <2>1, <2>3, Arrives, UsedStep DEF Assembled, IInv
<1> QED  BY <1>5, <1>6, <1>7 DEF Assembled

LEMMA FirstRoundIn ==
  ASSUME NEW s \in Seq(Messages), OneRound(s), HasRound(s)
  PROVE  FirstRound(s) \in Elements(s) /\ IsRound(FirstRound(s)) /\ FirstRound(s) \in Messages
<1>1. DOMAIN s = 1..Len(s) /\ Len(s) \in Nat  BY LenProperties
<1>2. PICK i \in DOMAIN s : IsRound(s[i])  BY DEF HasRound
<1>3. \A j \in 1..i - 1 : ~IsRound(s[j])  BY <1>1, <1>2 DEF OneRound
<1>4. \E k \in DOMAIN s : IsRound(s[k]) /\ \A j \in 1..k - 1 : ~IsRound(s[j])  BY <1>2, <1>3
<1>5. \E k \in DOMAIN s : FirstRound(s) = s[k] /\ IsRound(s[k])  BY <1>4 DEF FirstRound
<1> QED  BY <1>5, ElementsType DEF Elements

TakesOver(w, b) == [w EXCEPT !.agent.batch = b]
LEMMA TakesOverGood ==
  ASSUME NEW w, Good(w), w.agent.pc = "hooks", NEW b \in Seq(Messages),
         b = w.agent.batch \/ ~HasRound(b), NEW v, v = TakesOver(w, b)
  PROVE  /\ Good(v) /\ v.driver = w.driver /\ v.past = w.past /\ v.goal = w.goal
         /\ v.inbox = w.inbox /\ v.agent.kind = w.agent.kind /\ v.agent.batch = b
         /\ v.agent.pc = w.agent.pc /\ v.agent.guarded = w.agent.guarded
<1>1. w \in Worlds /\ Fenced(w) /\ Flushes(w)  BY DEF Good
<1>2. /\ v \in Worlds /\ v.driver = w.driver /\ v.past = w.past /\ v.goal = w.goal
      /\ v.inbox = w.inbox /\ v.agent.kind = w.agent.kind /\ v.agent.batch = b
      /\ v.agent.pc = w.agent.pc /\ v.agent.guarded = w.agent.guarded
  BY <1>1 DEF TakesOver, Worlds, Agents
<1>3. CASE b = w.agent.batch
  <2>1. Fenced(v)  BY <1>1, <1>2, <1>3 DEF Fenced, Stages, Limits, Fences, Unloading, Excused
  <2>2. Flushes(v)  BY <1>1, <1>2 DEF Flushes, Owing, Flushed, Covers
  <2> QED  BY <1>2, <2>1, <2>2 DEF Good
<1>4. CASE ~HasRound(b)
  <2>1. \A m \in Elements(b) : ~IsRound(m)  BY <1>4, RoundsAmong DEF HasRoundElements
  <2>2. OneRound(b)  BY <1>4 DEF OneRound, HasRound
  <2>3. Limits(v)  BY <1>1, <1>2, <2>1 DEF Fenced, Limits, Within
  <2>4. Fences(v)  BY <1>1, <1>2, <1>4 DEF Fenced, Fences, Excused
  <2>5. Unloading(v)  BY <1>1, <1>2, <1>4 DEF Fenced, Unloading
  <2>6. Stages(v)  BY <1>1, <1>2 DEF Fenced, Stages
  <2>7. Flushes(v)  BY <1>1, <1>2 DEF Flushes, Owing, Flushed, Covers
  <2> QED  BY <1>2, <2>2, <2>3, <2>4, <2>5, <2>6, <2>7 DEF Good, Fenced
<1> QED  BY <1>2, <1>3, <1>4

LEMMA OthersRoundless ==
  ASSUME NEW s \in Seq(Messages)
  PROVE  Kept(s, Others(s)) \in Seq(Messages) /\ ~HasRound(Kept(s, Others(s)))
<1>1. PICK k : k = Kept(s, Others(s))  OBVIOUS
<1>2. k \in Seq(Sents)  BY <1>1, OthersType
<1>3. Len(k) \in Nat /\ DOMAIN k = 1..Len(k) /\ k \in [1..Len(k) -> Sents]
  BY <1>2, LenProperties, SeqDef
<1>4. k \in [1..Len(k) -> Messages]  BY <1>3 DEF Messages
<1>5. k \in Seq(Messages)  BY <1>3, <1>4, SeqDef
<1>6. ~HasRound(k)  BY <1>3 DEF HasRound, IsRound, Sents
<1> QED  BY <1>1, <1>5, <1>6

LEMMA HooksEnterSteps ==
  ASSUME IInv, HooksEnter
  PROVE  Steps(World', World) /\ UsedOK'
<1>1. PICK o : o = World  OBVIOUS
<1>2. Good(o) /\ o.agent = agent /\ o.driver = driver  BY <1>1, FieldsOfWorld DEF IInv
<1>3. o.agent.kind = "running" /\ o.agent.pc = "hooks"  BY <1>2, RunningWhen DEF HooksEnter
<1>4. agent.batch \in Seq(Messages)  BY <1>2 DEF Good, Worlds, Agents
<1> DEFINE Goes(w, b) ==
             IF agent.abort
             THEN EndsTurn(IF agent.guarded THEN Restores(w, b) ELSE w, "aborted")
             ELSE IF agent.guarded /\ ~ValidReservation(w, Submitted)
             THEN Rejects([w EXCEPT !.driver.attempt = NoAttempt], Submitted)
             ELSE [w EXCEPT !.agent.pc = "preparing"]
<1>5. PICK b : /\ b \in {agent.batch, IF agent.guarded THEN Kept(agent.batch, Others(agent.batch))
                                      ELSE agent.batch}
               /\ Becomes(Goes([World EXCEPT !.agent.batch = b], b))
  <2>1. \E b \in {agent.batch, IF agent.guarded THEN Kept(agent.batch, Others(agent.batch))
                               ELSE agent.batch} :
           Becomes(Goes([World EXCEPT !.agent.batch = b], b))
    BY ONLY HooksEnter, Zenon DEF HooksEnter
  <2> QED  BY ONLY <2>1
<1>6. PICK w : w = TakesOver(o, b)  OBVIOUS
<1>7. PICK v : v = Goes(w, b)  OBVIOUS
<1>8. v = Goes(w, b) /\ w = TakesOver(o, b) /\ Becomes(v)
  <2> HIDE DEF Goes
  <2>1. w = [World EXCEPT !.agent.batch = b]  BY <1>1, <1>6 DEF TakesOver
  <2> QED  BY <1>5, <1>6, <1>7, <2>1
<1>9. b \in Seq(Messages) /\ (b = o.agent.batch \/ ~HasRound(b))
  BY <1>2, <1>4, <1>5, OthersRoundless
<1>10. /\ Good(w) /\ w.driver = o.driver /\ w.past = o.past /\ w.goal = o.goal
       /\ w.agent.kind = "running" /\ w.agent.batch = b /\ w.agent.pc = "hooks"
       /\ w.agent.guarded = agent.guarded
  BY <1>2, <1>3, <1>8, <1>9, TakesOverGood
<1>11. w \in Worlds  BY <1>10 DEF Good
<1>12. Steps(v, o)
  <2>1. CASE agent.abort
    <3>1. PICK u : u = IF agent.guarded THEN Restores(w, b) ELSE w  OBVIOUS
    <3>2. Eased(u, w)
      <4>1. CASE u = w  BY <1>11, <4>1 DEF Eased
      <4>2. CASE u = Restores(w, b)  BY <1>9, <1>11, <4>2, RestoresEased
      <4> QED  BY <3>1, <4>1, <4>2
    <3>3. Good(u)  BY <1>10, <3>2, EasedGood
    <3>4. u.agent.kind = "running" /\ u.driver.waker = o.driver.waker
      BY <1>10, <3>2 DEF Eased
    <3>5. v = EndsTurn(u, "aborted")  BY <1>8, <2>1, <3>1
    <3>6. Good(v) /\ v.driver.waker = u.driver.waker  BY <3>3, <3>4, <3>5, EndsTurnGood
    <3> QED  BY <3>4, <3>6 DEF Steps
  <2>2. CASE ~agent.abort /\ agent.guarded /\ ~ValidReservation(w, Submitted)
    <3>1. PICK u : u = [w EXCEPT !.driver.attempt = NoAttempt]  OBVIOUS
    <3>2. Eased(u, w)  BY <1>11, <3>1, NoAttemptType, AttemptEased
    <3>3. Good(u)  BY <1>10, <3>2, EasedGood
    <3>4. u.agent.kind = "running" /\ u.driver.waker = o.driver.waker
      BY <1>10, <3>2 DEF Eased
    <3>5. v = Rejects(u, Submitted)  BY <1>8, <2>2, <3>1
    <3>6. Good(v) /\ (v.driver.waker = u.driver.waker \/ Backed(v))
      BY <3>3, <3>4, <3>5, RejectsGood
    <3> QED  BY <3>4, <3>6 DEF Steps
  <2>3. CASE ~agent.abort /\ ~(agent.guarded /\ ~ValidReservation(w, Submitted))
    <3>1. PICK m : m = FirstRound(b)  OBVIOUS
    <3>2. HasRound(b) /\ ~Excused(w) => FoldsRound(w.goal, m.ref, m.round)
      <4>1. SUFFICES ASSUME HasRound(b), ~Excused(w)  PROVE  FoldsRound(w.goal, m.ref, m.round)
        OBVIOUS
      <4>2. b = agent.batch /\ m = Submitted  BY <1>2, <1>9, <3>1, <4>1 DEF Submitted
      <4>3. w.agent.guarded
        BY <1>10, <4>1 DEF Good, Fenced, Fences, Unloading, Excused
      <4>4. Aims(w, m) /\ m.round = w.goal.rounds + 1
        BY <1>10, <2>3, <4>2, <4>3 DEF ValidReservation
      <4>5. OneRound(b)  BY <1>10 DEF Good, Fenced
      <4>6. m \in Elements(w.agent.batch) /\ IsRound(m)
        BY <1>9, <1>10, <3>1, <4>1, <4>5, FirstRoundIn
      <4>7. m.round <= w.goal.limit
        BY <1>10, <4>4, <4>6 DEF Good, Fenced, Limits, Within, Aims
      <4> QED  BY <4>4, <4>7 DEF FoldsRound, Aims, Continues
    <3>3. v = [w EXCEPT !.agent.pc = "preparing"]  BY <1>8, <2>3
    <3>4. "preparing" \in InStep  BY DEF InStep
    <3>5. Good(v) /\ v.driver = w.driver  BY <1>10, <3>1, <3>2, <3>3, <3>4, MovesGood
    <3> QED  BY <1>10, <3>5 DEF Steps
  <2> QED  BY <2>1, <2>2, <2>3
<1> QED  BY <1>1, <1>8, <1>12, Arrives, UsedStep DEF HooksEnter, IInv

LEMMA HooksRejectSteps ==
  ASSUME IInv, HooksReject
  PROVE  Steps(World', World) /\ UsedOK'
<1>1. PICK o : o = World  OBVIOUS
<1>2. Good(o) /\ o.agent = agent /\ o.driver = driver  BY <1>1, FieldsOfWorld DEF IInv
<1>3. o.agent.kind = "running"  BY <1>2, RunningWhen DEF HooksReject
<1>4. PICK w : w = [o EXCEPT !.agent.pc = "rejected"]  OBVIOUS
<1>5. "rejected" \in InStep  BY DEF InStep
<1>6. Good(w) /\ w.driver = o.driver /\ w.goal = o.goal  BY <1>2, <1>3, <1>4, <1>5, MovesGood
<1>7. PICK u : u = [w EXCEPT !.driver.attempt = NoAttempt]  OBVIOUS
<1>8. Eased(u, w)  BY <1>6, <1>7, NoAttemptType, AttemptEased DEF Good
<1>9. Good(u) /\ u.driver.waker = o.driver.waker  BY <1>6, <1>8, EasedGood DEF Eased
<1>10. PICK v : v = IF ~agent.guarded THEN w
                   ELSE IF Aims(u, Submitted) THEN Change(u, "block", 0, FALSE) ELSE u
  OBVIOUS
<1>11. u = [[World EXCEPT !.agent.pc = "rejected"] EXCEPT !.driver.attempt = NoAttempt]
  BY <1>1, <1>4, <1>7
<1>12. /\ v = IF ~agent.guarded THEN w
              ELSE IF Aims(u, Submitted) THEN Change(u, "block", 0, FALSE) ELSE u
       /\ Becomes(v)
  BY ONLY <1>1, <1>4, <1>10, <1>11, HooksReject DEF HooksReject
<1>13. Steps(v, o)
  <2>1. CASE v = w  BY <1>6, <2>1 DEF Steps
  <2>2. CASE v = u  BY <1>9, <2>2 DEF Steps
  <2>3. CASE v = Change(u, "block", 0, FALSE) /\ Aims(u, Submitted)
    <3>1. Admits(u.goal, "block")  BY <2>3 DEF Aims, Continues, Admits
    <3>2. "block" \in Operations /\ 0 \in 0..MaxRounds  BY GoalRoundsConstants DEF Operations
    <3>3. Good(v) /\ Altered(v, u)  BY <1>9, <2>3, <3>1, <3>2, ChangeGood
    <3> QED  BY <1>9, <3>3 DEF Steps, Altered
  <2> QED  BY <1>12, <2>1, <2>2, <2>3
<1> QED  BY <1>1, <1>12, <1>13, Arrives, UsedStep DEF HooksReject, IInv

LEMMA HooksFailSteps ==
  ASSUME IInv, HooksFail
  PROVE  Steps(World', World) /\ UsedOK'
<1>1. PICK w : w = World  OBVIOUS
<1>2. Good(w) /\ w.agent = agent /\ w.driver = driver  BY <1>1, FieldsOfWorld DEF IInv
<1>3. w.agent.kind = "running"  BY <1>2, RunningWhen DEF HooksFail
<1>4. CASE /\ Use("mishap")
           /\ Becomes(EndsTurn(RequestDrive([World EXCEPT !.driver.attempt = NoAttempt]), "error"))
  <2>1. PICK u : u = [w EXCEPT !.driver.attempt = NoAttempt]  OBVIOUS
  <2>2. Eased(u, w)  BY <1>2, <2>1, NoAttemptType, AttemptEased DEF Good
  <2>3. Good(u)  BY <1>2, <2>2, EasedGood
  <2>4. PICK x : x = RequestDrive(u)  OBVIOUS
  <2>5. Good(x) /\ Driven(x, u)  BY <2>3, <2>4, RequestDriveGood
  <2>6. x.agent.kind = "running"  BY <1>3, <2>2, <2>5 DEF Eased, Driven
  <2>7. PICK v : v = EndsTurn(x, "error") /\ Becomes(v)  BY <1>1, <1>4, <2>1, <2>4
  <2>8. /\ Good(v) /\ v.driver.waker = x.driver.waker /\ v.driver.loops = x.driver.loops
        /\ v.past = x.past
    BY <2>5, <2>6, <2>7, EndsTurnGood
  <2>9. Backed(x) => Backed(v)  BY <2>8 DEF Backed, Flushed, Covers
  <2>10. Steps(v, w)  BY <2>2, <2>5, <2>8, <2>9 DEF Steps, Eased, Driven
  <2> QED  BY <1>1, <1>4, <2>7, <2>10, Arrives, UsedStep DEF IInv
<1>5. CASE Fails  BY <1>2, <1>3, <1>5, FailsSteps
<1> QED  BY <1>4, <1>5 DEF HooksFail

LEMMA RejectedSteps ==
  ASSUME IInv, Rejected
  PROVE  Steps(World', World) /\ UsedOK'
<1>1. PICK w : w = World  OBVIOUS
<1>2. Good(w) /\ w.agent = agent  BY <1>1, FieldsOfWorld DEF IInv
<1>3. w.agent.kind = "running"  BY <1>2, RunningWhen DEF Rejected
<1>4. PICK ending : ending = IF agent.abort THEN "aborted" ELSE "blocked"  OBVIOUS
<1>5. PICK v : v = EndsTurn(w, ending) /\ Becomes(v)  BY <1>1, <1>4 DEF Rejected
<1>6. Good(v) /\ v.driver.waker = w.driver.waker  BY <1>2, <1>3, <1>5, EndsTurnGood
<1>7. Steps(v, w)  BY <1>6 DEF Steps
<1> QED  BY <1>1, <1>5, <1>7, Arrives, UsedStep DEF Rejected, IInv

LEMMA EndedGood ==
  ASSUME NEW w, Good(w), w.agent.kind = "running", w.agent.pc \in {"between", "retiring"},
         NEW v, v = [w EXCEPT !.agent.pc = "retiring"]
  PROVE  Good(v) /\ v.driver = w.driver
<1>1. w \in Worlds /\ Fenced(w) /\ Flushes(w)  BY DEF Good
<1>2. /\ v \in Worlds /\ v.driver = w.driver /\ v.past = w.past /\ v.goal = w.goal
      /\ v.inbox = w.inbox /\ v.agent.kind = w.agent.kind /\ v.agent.batch = w.agent.batch
      /\ v.agent.pc = "retiring" /\ v.agent.guarded = w.agent.guarded
  BY <1>1 DEF Worlds, Agents
<1>3. Fenced(v)  BY <1>1, <1>2 DEF Fenced, Stages, Limits, Fences, Unloading, Excused
<1>4. Flushes(v)  BY <1>1, <1>2 DEF Flushes, Owing, Flushed, Covers
<1> QED  BY <1>2, <1>3, <1>4 DEF Good

Counts(w, m) == [w EXCEPT !.goal = RoundLogged(@, m.ref, m.round)]
LEMMA CountsGood ==
  ASSUME NEW w, Good(w), w.agent.pc = "streaming", NEW m \in Messages,
         ~Excused(w) => FoldsRound(w.goal, m.ref, m.round),
         NEW v, v = Counts(w, m)
  PROVE  Good(v) /\ v.driver = w.driver
<1>1. w \in Worlds /\ Fenced(w) /\ Flushes(w)  BY DEF Good
<1>2. PICK g : g = w.goal  OBVIOUS
<1>3. PICK h : h = RoundLogged(g, m.ref, m.round)  OBVIOUS
<1>4. g \in Goals  BY <1>1, <1>2 DEF Worlds
<1>5. m.round \in Nat /\ m.round <= MaxRounds
  BY GoalRoundsConstants DEF Messages, Sents, RoundMessages
<1>6. /\ h \in Goals /\ h.ref = g.ref /\ h.limit = g.limit /\ h.phase = g.phase
      /\ h.armed = g.armed /\ h.rounds \in {g.rounds, m.round} /\ (g.failed => h.failed)
      /\ (FoldsRound(g, m.ref, m.round) => h.failed = g.failed)
  <2>1. CASE g.failed  BY <1>3, <1>4, <2>1 DEF RoundLogged
  <2>2. CASE ~g.failed /\ FoldsRound(g, m.ref, m.round)
    BY <1>3, <1>4, <1>5, <2>2 DEF RoundLogged, Goals
  <2>3. CASE ~g.failed /\ ~FoldsRound(g, m.ref, m.round)
    BY <1>3, <1>4, <2>3 DEF RoundLogged, Goals
  <2> QED  BY <2>1, <2>2, <2>3
<1>7. v = [w EXCEPT !.goal = h]  BY <1>2, <1>3 DEF Counts
<1>8. /\ v \in Worlds /\ v.goal = h /\ v.agent = w.agent /\ v.inbox = w.inbox
      /\ v.driver = w.driver /\ v.past = w.past
  BY <1>1, <1>6, <1>7 DEF Worlds
<1>9. Limits(v)
  BY <1>1, <1>2, <1>5, <1>6, <1>8 DEF Fenced, Limits, Within
<1>10. Fences(v)
  BY <1>1, <1>2, <1>6, <1>8 DEF Fenced, Fences, Excused
<1>11. Fenced(v)  BY <1>1, <1>8, <1>9, <1>10 DEF Fenced, Stages, Unloading
<1>12. Owing(v) => Owing(w)  BY <1>2, <1>6, <1>8 DEF Owing, Continues
<1>13. Flushes(v)  BY <1>1, <1>8, <1>12 DEF Flushes, Flushed, Covers
<1> QED  BY <1>8, <1>11, <1>13 DEF Good

LEMMA AdmittedEased ==
  ASSUME NEW w \in Worlds, NEW v, v = [w EXCEPT !.driver.attempt.at = "admitted"]
  PROVE  Eased(v, w)
<1>1. PICK a : a = [w.driver.attempt EXCEPT !.at = "admitted"]  OBVIOUS
<1>2. w.driver.attempt \in Attempts  BY DEF Worlds, Drivers
<1>3. a \in Attempts  BY <1>1, <1>2 DEF Attempts
<1>4. v = [w EXCEPT !.driver.attempt = a]  BY <1>1
<1> QED  BY <1>3, <1>4, AttemptEased

LEMMA PreparedSteps ==
  ASSUME IInv, Prepared
  PROVE  Steps(World', World) /\ UsedOK'
<1>1. PICK o : o = World  OBVIOUS
<1>2. Good(o) /\ o.agent = agent  BY <1>1, FieldsOfWorld DEF IInv
<1>3. o.agent.kind = "running" /\ o.agent.pc = "preparing"  BY <1>2, RunningWhen DEF Prepared
<1>4. PICK w : w = [o EXCEPT !.agent.pc = "streaming"]  OBVIOUS
<1>5. "streaming" \in InStep  BY DEF InStep
<1>6. /\ Good(w) /\ w.driver = o.driver /\ w.past = o.past /\ w.goal = o.goal
      /\ w.agent.pc = "streaming"
  BY <1>2, <1>3, <1>4, <1>5, MovesGood DEF Good, Worlds, Agents
<1>7. PICK m : m = Submitted  OBVIOUS
<1>8. PICK u : u = Counts(w, m)  OBVIOUS
<1>9. u = [w EXCEPT !.goal = RoundLogged(@, Submitted.ref, Submitted.round)]
  BY <1>7, <1>8 DEF Counts
<1>10. PICK e : e = EndsTurn(o, "completed")  OBVIOUS
<1>11. PICK v :
         /\ \/ v = [e EXCEPT !.agent.pc = "retiring"]
            \/ v = w
            \/ HasRound(agent.batch) /\ v \in {u, [u EXCEPT !.driver.attempt.at = "admitted"]}
         /\ Becomes(v)
  <2>1. PICK v :
          /\ v = IF agent.batch = <<>>
                 THEN [EndsTurn(o, "completed") EXCEPT !.agent.pc = "retiring"]
                 ELSE IF ~HasRound(agent.batch) THEN w
                 ELSE IF Listens(w) /\ SameQueued(w, Submitted)
                         /\ Submitted.id = driver.attempt.message.id
                 THEN [u EXCEPT !.driver.attempt.at = "admitted"]
                 ELSE u
          /\ Becomes(v)
    BY ONLY <1>1, <1>4, <1>9, Prepared DEF Prepared
  <2> QED  BY <1>10, <2>1
<1>12. Steps(v, o)
  <2>1. CASE v = [e EXCEPT !.agent.pc = "retiring"]
    <3>1. /\ Good(e) /\ e.agent.kind = "running" /\ e.driver.waker = o.driver.waker
          /\ e.agent.pc \in {"between", "retiring"}
      BY <1>2, <1>3, <1>10, EndsTurnGood
    <3>2. Good(v) /\ v.driver = e.driver  BY <2>1, <3>1, EndedGood
    <3> QED  BY <3>1, <3>2 DEF Steps
  <2>2. CASE v = w  BY <1>6, <2>2 DEF Steps
  <2>3. CASE HasRound(agent.batch) /\ v \in {u, [u EXCEPT !.driver.attempt.at = "admitted"]}
    <3>1. o.agent.batch \in Seq(Messages) /\ OneRound(o.agent.batch)
      BY <1>2 DEF Good, Fenced, Worlds, Agents
    <3>2. m = FirstRound(o.agent.batch)  BY <1>2, <1>7 DEF Submitted
    <3>3. m \in Messages  BY <1>2, <2>3, <3>1, <3>2, FirstRoundIn
    <3>4. ~Excused(w) => FoldsRound(w.goal, m.ref, m.round)
      BY <1>2, <1>3, <1>6, <2>3, <3>2 DEF Good, Fenced, Fences, Excused
    <3>5. Good(u) /\ u.driver = o.driver  BY <1>6, <1>8, <3>3, <3>4, CountsGood
    <3>6. u \in Worlds  BY <3>5 DEF Good
    <3>7. v = u \/ Eased(v, u)  BY <2>3, <3>6, AdmittedEased
    <3>8. Good(v) /\ v.driver.waker = u.driver.waker  BY <3>5, <3>7, EasedGood DEF Eased
    <3> QED  BY <3>5, <3>8 DEF Steps
  <2> QED  BY <1>11, <2>1, <2>2, <2>3
<1> QED  BY <1>1, <1>11, <1>12, Arrives, UsedStep DEF Prepared, IInv

LEMMA StreamedSteps ==
  ASSUME IInv, Streamed
  PROVE  Steps(World', World) /\ UsedOK'
<1>1. PICK w : w = World  OBVIOUS
<1>2. Good(w) /\ w.agent = agent  BY <1>1, FieldsOfWorld DEF IInv
<1>3. w.agent.kind = "running" /\ UsedOK  BY <1>2, RunningWhen DEF Streamed, IInv
<1>4. PICK v : /\ v \in {Claims(w, "next-step"), EndsTurn(w, "completed"),
                         EndsTurn(w, "max-tokens")}
               /\ Becomes(v)
  BY <1>1 DEF Streamed
<1>5. Steps(v, w)
  <2>1. CASE v = Claims(w, "next-step")
    <3>1. Tame(w)  BY <1>2 DEF Tame, Good, Fenced
    <3>2. Good(v) /\ v.driver.waker = w.driver.waker
      BY <1>3, <2>1, <3>1, ClaimsGood DEF Targets
    <3> QED  BY <3>2 DEF Steps
  <2>2. CASE \E ending : v = EndsTurn(w, ending)
    <3>1. Good(v) /\ v.driver.waker = w.driver.waker  BY <1>2, <1>3, <2>2, EndsTurnGood
    <3> QED  BY <3>1 DEF Steps
  <2> QED  BY <1>4, <2>1, <2>2
<1>6. Free \/ Use("mishap")  BY DEF Streamed
<1> QED  BY <1>1, <1>3, <1>4, <1>5, <1>6, Arrives, UsedStep

-----------------------------------------------------------------------------
(* Others *)

\* A message of another joins the inbox.
Joins(w, f) == [w EXCEPT !.inbox = f]
LEMMA JoinsGood ==
  ASSUME NEW w, Good(w), NEW t \in Targets, NEW m \in Sents,
         NEW v, v = Joins(w, Inserted(w.inbox, t, m))
  PROVE  Good(v) /\ v.driver = w.driver /\ v.agent = w.agent /\ v.past = w.past
<1>1. w \in Worlds /\ Fenced(w) /\ Flushes(w)  BY DEF Good
<1>2. PICK f : f = w.inbox  OBVIOUS
<1>3. PICK g : g = Inserted(f, t, m)  OBVIOUS
<1>4. f \in Inboxes  BY <1>1, <1>2 DEF Worlds
<1>5. m \in Messages /\ ~IsRound(m)  BY DEF Messages, Sents, IsRound
<1>6. g \in Inboxes /\ Elements(g["next-turn"]) \subseteq Elements(f["next-turn"]) \cup {m}
  BY <1>3, <1>4, <1>5, InsertedType
<1>7. v = [w EXCEPT !.inbox = g]  BY <1>2, <1>3 DEF Joins
<1>8. /\ v \in Worlds /\ v.goal = w.goal /\ v.agent = w.agent /\ v.inbox = g
      /\ v.driver = w.driver /\ v.past = w.past
  BY <1>1, <1>6, <1>7 DEF Worlds
<1>9. Limits(v)  BY <1>1, <1>2, <1>5, <1>6, <1>8 DEF Fenced, Limits, Within
<1>10. HasRound(g["next-turn"]) => HasRound(f["next-turn"])
  BY <1>5, <1>6, RoundsAmong DEF HasRoundElements
<1>11. Unloading(v)  BY <1>1, <1>2, <1>8, <1>10 DEF Fenced, Unloading
<1>12. Fenced(v)  BY <1>1, <1>8, <1>9, <1>11 DEF Fenced, Stages, Fences, Excused
<1>13. Flushes(v)  BY <1>1, <1>8 DEF Flushes, Owing, Flushed, Covers
<1> QED  BY <1>8, <1>12, <1>13 DEF Good

LEMMA SentNext ==
  ASSUME UsedOK, used.sent > 0
  PROVE  Sent(MaxSent - used.sent + 1) \in Sents
BY GoalRoundsConstants DEF UsedOK, Sent, Sents

LEMMA HeardEased ==
  ASSUME NEW w \in Worlds, NEW v, v = Heard(w)
  PROVE  Eased(v, w)
<1>1. PICK a : a = [w.driver.attempt EXCEPT !.stale = @ \/ w.driver.attempt.at = "queued"]
  OBVIOUS
<1>2. w.driver.attempt \in Attempts  BY DEF Worlds, Drivers
<1>3. a \in Attempts
  <2>1. PICK b : b = (w.driver.attempt.stale \/ w.driver.attempt.at = "queued")  OBVIOUS
  <2>2. b \in BOOLEAN  BY <2>1
  <2>3. a = [w.driver.attempt EXCEPT !.stale = b]  BY <1>1, <2>1
  <2> QED  BY <1>2, <2>2, <2>3 DEF Attempts
<1>4. PICK u : u = [w EXCEPT !.driver.competing = TRUE]  OBVIOUS
<1>5. Eased(u, w)  BY <1>4 DEF Worlds, Drivers, Eased
<1>6. u.driver.attempt = w.driver.attempt  BY <1>4 DEF Worlds, Drivers
<1>7. v = [u EXCEPT !.driver.attempt = a]  BY <1>1, <1>4, <1>6 DEF Heard, Worlds, Drivers
<1>8. u \in Worlds  BY <1>5 DEF Eased
<1>9. Eased(v, u)  BY <1>3, <1>7, <1>8, AttemptEased
<1> QED  BY <1>5, <1>9 DEF Eased

LEMMA PromptSteps ==
  ASSUME IInv, Prompt
  PROVE  Steps(World', World) /\ UsedOK'
<1>1. PICK w : w = World  OBVIOUS
<1>2. Good(w) /\ UsedOK /\ w.inbox = inbox  BY <1>1, FieldsOfWorld DEF IInv
<1>3. PICK m : m = Sent(MaxSent - used.sent + 1)  OBVIOUS
<1>4. m \in Sents  BY <1>2, <1>3, SentNext DEF Prompt, Use
<1>5. PICK u : u = Joins(w, Inserted(w.inbox, "next-turn", m))  OBVIOUS
<1>6. Good(u) /\ u.driver = w.driver  BY <1>2, <1>4, <1>5, JoinsGood DEF Targets
<1>7. u = [World EXCEPT !.inbox = Inserted(@, "next-turn", Sent(MaxSent - used.sent + 1))]
  BY <1>1, <1>3, <1>5 DEF Joins
<1>8. PICK x : x = IF Listens(u) THEN Heard(u) ELSE u  OBVIOUS
<1>9. Eased(x, u)
  <2>1. u \in Worlds  BY <1>6 DEF Good
  <2>2. Eased(u, u)  BY <2>1 DEF Eased
  <2> QED  BY <1>8, <2>1, <2>2, HeardEased
<1>10. Good(x)  BY <1>6, <1>9, EasedGood
<1>11. PICK b, v : v = Wakes(x, b) /\ Becomes(v)
  <2>1. Becomes(Wakes(x, agent.kind # "idle" /\ agent.abort))
    BY ONLY <1>7, <1>8, Prompt DEF Prompt
  <2> QED  BY ONLY <2>1
<1>12. Good(v) /\ v.driver.waker = x.driver.waker  BY <1>2, <1>10, <1>11, WakesGood
<1>13. Steps(v, w)  BY <1>6, <1>9, <1>12 DEF Steps, Eased
<1> QED  BY <1>1, <1>2, <1>11, <1>13, Arrives, UsedStep DEF Prompt

LEMMA NoticeSteps ==
  ASSUME IInv, Notice
  PROVE  Steps(World', World) /\ UsedOK'
<1>1. PICK w : w = World  OBVIOUS
<1>2. Good(w) /\ UsedOK /\ w.inbox = inbox  BY <1>1, FieldsOfWorld DEF IInv
<1>3. PICK m : m = Sent(MaxSent - used.sent + 1)  OBVIOUS
<1>4. m \in Sents  BY <1>2, <1>3, SentNext DEF Notice, Use
<1>5. PICK v : v = Joins(w, Inserted(w.inbox, "next-step", m))  OBVIOUS
<1>6. Good(v) /\ v.driver = w.driver  BY <1>2, <1>4, <1>5, JoinsGood DEF Targets
<1>7. Becomes(v)  BY <1>1, <1>3, <1>5 DEF Joins, Notice
<1>8. Steps(v, w)  BY <1>6 DEF Steps
<1> QED  BY <1>1, <1>2, <1>7, <1>8, Arrives, UsedStep DEF Notice

LEMMA OperateSteps ==
  ASSUME IInv, NEW op \in Operations, NEW limit \in 1..MaxRounds, NEW byModel \in BOOLEAN,
         Operate(op, limit, byModel)
  PROVE  Steps(World', World) /\ UsedOK'
<1>1. PICK w : w = World  OBVIOUS
<1>2. Good(w) /\ UsedOK /\ w.goal = goal  BY <1>1, FieldsOfWorld DEF IInv
<1>3. PICK v : v = Change(w, op, limit, byModel) /\ Becomes(v)  BY <1>1 DEF Operate
<1>4. limit \in 0..MaxRounds  BY GoalRoundsConstants
<1>5. Good(v) /\ Altered(v, w)  BY <1>2, <1>3, <1>4, ChangeGood DEF Operate
<1>6. Steps(v, w)  BY <1>5 DEF Steps, Altered
<1> QED  BY <1>1, <1>2, <1>3, <1>6, Arrives, UsedStep DEF Operate

\* A cancellation empties the inbox.
Dropped(w, dropped, a) ==
  [w EXCEPT !.inbox = EmptyInbox, !.past.dropped = dropped, !.driver.attempt = a]
LEMMA DroppedGood ==
  ASSUME NEW w, Good(w), NEW dropped \in BOOLEAN, NEW a \in Attempts,
         NEW v, v = Dropped(w, dropped, a)
  PROVE  /\ Good(v) /\ v.agent = w.agent /\ ~HasRound(v.inbox["next-turn"])
         /\ v.driver.life = w.driver.life /\ v.driver.waker = w.driver.waker
         /\ v.driver.awaitsIdle = w.driver.awaitsIdle /\ v.past.orphan = w.past.orphan
         /\ v.goal = w.goal
<1>1. w \in Worlds /\ Fenced(w) /\ Flushes(w)  BY DEF Good
<1>2. EmptyInbox \in Inboxes /\ EmptyInbox["next-turn"] = <<>>
  <2>1. <<>> \in Seq(Messages) /\ <<>> \in Seq(Sents)  BY EmptySeq
  <2> QED  BY <2>1 DEF EmptyInbox, Inboxes, Targets
<1>3. /\ v \in Worlds /\ v.goal = w.goal /\ v.agent = w.agent /\ v.inbox = EmptyInbox
      /\ v.driver.life = w.driver.life /\ v.driver.waker = w.driver.waker
      /\ v.driver.awaitsIdle = w.driver.awaitsIdle /\ v.driver.loops = w.driver.loops
      /\ v.driver.checkpoint = w.driver.checkpoint
      /\ v.past.orphan = w.past.orphan /\ v.past.slipped = w.past.slipped
      /\ v.past.saved = w.past.saved /\ v.past.logged = w.past.logged
  BY <1>1, <1>2 DEF Dropped, Worlds, Drivers, Pasts
<1>4. Elements(v.inbox["next-turn"]) = {} /\ ~HasRound(v.inbox["next-turn"])
  BY <1>2, <1>3 DEF Elements, HasRound
<1>5. Limits(v)  BY <1>1, <1>3, <1>4 DEF Fenced, Limits
<1>6. Unloading(v)  BY <1>1, <1>3, <1>4 DEF Fenced, Unloading
<1>7. Fenced(v)  BY <1>1, <1>3, <1>5, <1>6 DEF Fenced, Stages, Fences, Excused
<1>8. Flushes(v)  BY <1>1, <1>3 DEF Flushes, Owing, Flushed, Covers
<1> QED  BY <1>3, <1>4, <1>7, <1>8 DEF Good

LEMMA CancelsGood ==
  ASSUME NEW w, Good(w), NEW v, v = Cancels(w)
  PROVE  /\ Good(v) /\ ~HasRound(v.inbox["next-turn"])
         /\ v.driver.life = w.driver.life /\ v.driver.waker = w.driver.waker
         /\ v.agent.kind = w.agent.kind /\ v.past.orphan = w.past.orphan
<1>1. w \in Worlds  BY DEF Good
<1>2. PICK cancelled : cancelled = (w.driver.attempt.cancelled
        \/ (Listens(w) /\ \E t \in Targets : AttemptedIn(w, w.inbox[t])))
  OBVIOUS
<1>3. PICK dropped : dropped = (w.past.dropped \/ w.agent.kind = "maintenance")  OBVIOUS
<1>4. PICK abort : abort = (w.agent.kind # "idle")  OBVIOUS
<1>5. PICK a : a = [w.driver.attempt EXCEPT !.cancelled = cancelled]  OBVIOUS
<1>6. w.driver.attempt \in Attempts  BY <1>1 DEF Worlds, Drivers
<1>7. w.driver.attempt.cancelled \in BOOLEAN  BY <1>6 DEF Attempts
<1>8. cancelled \in BOOLEAN  BY <1>2, <1>7
<1>9. a \in Attempts  BY <1>5, <1>6, <1>8 DEF Attempts
<1>10. dropped \in BOOLEAN /\ abort \in BOOLEAN  BY <1>1, <1>3, <1>4 DEF Worlds, Pasts
<1>11. PICK u : u = Dropped(w, dropped, a)  OBVIOUS
<1>12. /\ Good(u) /\ u.agent = w.agent /\ ~HasRound(u.inbox["next-turn"])
       /\ u.driver.life = w.driver.life /\ u.driver.waker = w.driver.waker
       /\ u.past.orphan = w.past.orphan
  BY <1>9, <1>10, <1>11, DroppedGood
<1>13. PICK x : x = [u EXCEPT !.agent.latch = FALSE, !.agent.abort = abort]  OBVIOUS
<1>14. Eased(x, u)  BY <1>10, <1>12, <1>13, AgentFlags DEF Good
<1>15. v = [w EXCEPT !.inbox = EmptyInbox, !.agent.latch = FALSE, !.agent.abort = abort,
                     !.past.dropped = dropped, !.driver.attempt = a]
  BY ONLY <1>2, <1>3, <1>4, <1>5, v = Cancels(w) DEF Cancels
<1>16. x = v  BY <1>1, <1>11, <1>13, <1>15 DEF Dropped, Worlds, Agents, Drivers, Pasts
<1>17. ~HasRound(x.inbox["next-turn"])
  BY <1>12, <1>14, RoundsAmong DEF HasRoundElements, Eased
<1> QED  BY <1>12, <1>14, <1>16, <1>17, EasedGood DEF Eased

LEMMA CancelSteps ==
  ASSUME IInv, Cancel
  PROVE  Steps(World', World) /\ UsedOK'
<1>1. PICK w : w = World  OBVIOUS
<1>2. Good(w) /\ UsedOK  BY <1>1 DEF IInv
<1>3. PICK v : v = Cancels(w) /\ Becomes(v)  BY <1>1 DEF Cancel
<1>4. Good(v) /\ v.driver.waker = w.driver.waker  BY <1>2, <1>3, CancelsGood
<1>5. Steps(v, w)  BY <1>4 DEF Steps
<1> QED  BY <1>1, <1>2, <1>3, <1>5, Arrives, UsedStep DEF Cancel

LEMMA StartJobSteps ==
  ASSUME IInv, StartJob
  PROVE  Steps(World', World) /\ UsedOK'
<1>1. PICK w : w = World  OBVIOUS
<1>2. Good(w) /\ UsedOK /\ w.agent = agent  BY <1>1, FieldsOfWorld DEF IInv
<1>3. PICK v : v = [w EXCEPT !.agent.kind = "maintenance"] /\ Becomes(v)
  BY <1>1 DEF StartJob
<1>4. w \in Worlds /\ Fenced(w) /\ Flushes(w) /\ w.agent.kind = "idle"
  BY <1>2 DEF Good, StartJob
<1>5. /\ v \in Worlds /\ v.goal = w.goal /\ v.inbox = w.inbox /\ v.driver = w.driver
      /\ v.past = w.past /\ v.agent.kind = "maintenance" /\ v.agent.pc = w.agent.pc
      /\ v.agent.batch = w.agent.batch /\ v.agent.guarded = w.agent.guarded
  BY <1>3, <1>4 DEF Worlds, Agents
<1>6. Fenced(v)  BY <1>4, <1>5 DEF Fenced, Stages, Limits, Fences, Unloading, Excused
<1>7. Flushes(v)  BY <1>4, <1>5 DEF Flushes, Owing, Flushed, Covers
<1>8. Steps(v, w)  BY <1>5, <1>6, <1>7 DEF Steps, Good
<1> QED  BY <1>1, <1>2, <1>3, <1>8, Arrives, UsedStep DEF StartJob

LEMMA EndJobSteps ==
  ASSUME IInv, EndJob
  PROVE  Steps(World', World) /\ UsedOK'
<1>1. PICK w : w = World  OBVIOUS
<1>2. Good(w) /\ UsedOK  BY <1>1 DEF IInv
<1>3. PICK u : u = [w EXCEPT !.agent = Idle]  OBVIOUS
<1>4. Good(u) /\ u.driver = w.driver  BY <1>2, <1>3, IdleGood
<1>5. PICK v : v \in {u, OpensTurn(u)} /\ Becomes(v)  BY <1>1, <1>3 DEF EndJob
<1>6. Good(v) /\ v.driver.waker = u.driver.waker
  <2>1. CASE v = u  BY <1>4, <2>1
  <2>2. CASE v = OpensTurn(u)  BY <1>2, <1>4, <2>2, OpensTurnGood
  <2> QED  BY <1>5, <2>1, <2>2
<1>7. Steps(v, w)  BY <1>4, <1>6 DEF Steps
<1> QED  BY <1>1, <1>2, <1>5, <1>7, Arrives, UsedStep DEF EndJob

\* The fence closes; what is still to be stopped follows.
Closes(w, stale, awaits, orphan, awaitsIdle) ==
  [w EXCEPT !.driver.life = "stopping", !.driver.attempt.stale = stale,
            !.driver.awaits = awaits, !.driver.awaitsIdle = awaitsIdle, !.past.orphan = orphan]
Stops(r, stale, awaits, awaitsIdle) ==
  [r EXCEPT !.life = "stopping", !.attempt.stale = stale, !.awaits = awaits,
            !.awaitsIdle = awaitsIdle]
Orphans(p, orphan) == [p EXCEPT !.orphan = orphan]
Parts(w, r, p) == [w EXCEPT !.driver = r, !.past = p]
LEMMA ClosesParts ==
  ASSUME NEW w \in Worlds, NEW stale, NEW awaits, NEW orphan, NEW awaitsIdle
  PROVE  Closes(w, stale, awaits, orphan, awaitsIdle)
           = Parts(w, Stops(w.driver, stale, awaits, awaitsIdle), Orphans(w.past, orphan))
<1>1. w.driver \in Drivers /\ w.driver.attempt \in Attempts  BY DEF Worlds, Drivers
<1> QED  BY <1>1 DEF Closes, Parts, Stops, Orphans, Worlds, Drivers

LEMMA ClosesGood ==
  ASSUME NEW w, Good(w), w.driver.life = "loaded",
         NEW stale \in BOOLEAN, NEW awaits \in Nat, NEW orphan \in BOOLEAN,
         NEW awaitsIdle \in BOOLEAN,
         ~orphan => /\ ~HasRound(w.inbox["next-turn"])
                    /\ HasRound(w.agent.batch) => awaitsIdle,
         NEW v, v = Closes(w, stale, awaits, orphan, awaitsIdle)
  PROVE  Good(v) /\ v.driver.waker = w.driver.waker
<1>1. w \in Worlds /\ Fenced(w) /\ Flushes(w) /\ ~w.past.orphan
  BY DEF Good, Fenced, Unloading
<1>2. PICK a : a = [w.driver.attempt EXCEPT !.stale = stale]  OBVIOUS
<1>3. w.driver \in Drivers /\ w.driver.attempt \in Attempts  BY <1>1 DEF Worlds, Drivers
<1>4. a \in Attempts  BY <1>2, <1>3 DEF Attempts
<1>5. PICK d : d = [w.driver EXCEPT !.life = "stopping", !.attempt = a,
                     !.awaits = awaits, !.awaitsIdle = awaitsIdle]
  OBVIOUS
<1>6. /\ d \in Drivers /\ d.life = "stopping" /\ d.awaitsIdle = awaitsIdle
      /\ d.waker = w.driver.waker /\ d.loops = w.driver.loops
      /\ d.checkpoint = w.driver.checkpoint
  BY <1>3, <1>4, <1>5 DEF Drivers
<1>7. PICK p : p = [w.past EXCEPT !.orphan = orphan]  OBVIOUS
<1>8. w.past \in Pasts  BY <1>1 DEF Worlds
<1>9. /\ p \in Pasts /\ p.orphan = orphan /\ p.slipped = w.past.slipped
      /\ p.saved = w.past.saved /\ p.logged = w.past.logged
  BY <1>7, <1>8 DEF Pasts
<1>10. v = [w EXCEPT !.driver = d, !.past = p]
  BY <1>1, <1>2, <1>3, <1>5, <1>7 DEF Closes, Worlds, Drivers
<1>11. /\ v \in Worlds /\ v.goal = w.goal /\ v.agent = w.agent /\ v.inbox = w.inbox
       /\ v.driver = d /\ v.past.orphan = orphan /\ v.past.slipped = w.past.slipped
       /\ v.past.saved = w.past.saved /\ v.past.logged = w.past.logged
  BY <1>1, <1>6, <1>10, <1>9 DEF Worlds
<1>12. Unloading(v)  BY <1>6, <1>11 DEF Unloading
<1>13. Fences(v)  BY <1>1, <1>6, <1>11 DEF Fenced, Fences, Excused
<1>14. Fenced(v)  BY <1>1, <1>11, <1>12, <1>13 DEF Fenced, Stages, Limits
<1>15. Flushes(v)  BY <1>1, <1>6, <1>11 DEF Flushes, Owing, Flushed, Covers
<1> QED  BY <1>6, <1>11, <1>14, <1>15 DEF Good

LEMMA UnloadSteps ==
  ASSUME IInv, Unload
  PROVE  Steps(World', World) /\ UsedOK'
<1>1. PICK w : w = World  OBVIOUS
<1>2. Good(w) /\ UsedOK /\ w.driver = driver /\ w.agent = agent /\ w.inbox = inbox
  BY <1>1, FieldsOfWorld DEF IInv
<1>3. PICK d : d = Disarm(w)  OBVIOUS
<1>4. Good(d) /\ Altered(d, w) /\ d.driver = driver /\ d.agent = agent
  BY <1>2, <1>3, DisarmGood
<1>5. d \in Worlds /\ d.driver \in Drivers /\ d.inbox = inbox /\ d.driver.life = "loaded"
  BY <1>2, <1>4 DEF Good, Altered, Worlds, Unload
<1>6. PICK a : a = (driver.attempt.at # "none")  OBVIOUS
<1>7. PICK o : o = (~(a /\ agent.kind = "running") /\
                     (HasRound(agent.batch) \/ HasRound(inbox["next-turn"])))
  OBVIOUS
<1>8. a \in BOOLEAN /\ o \in BOOLEAN /\ driver.run \in Nat /\ driver.awaitsIdle \in BOOLEAN
  BY <1>4, <1>5, <1>6, <1>7 DEF Drivers
<1>9. PICK u : u = [d EXCEPT !.driver.life = "stopping", !.driver.attempt.stale = a,
                             !.driver.awaits = driver.run, !.past.orphan = o]
  OBVIOUS
<1>10. PICK v : v = (IF a /\ agent.kind = "running" THEN StopsRunning(u) ELSE u) /\ Becomes(v)
  <2>1. u = [Disarm(World) EXCEPT !.driver.life = "stopping",
               !.driver.attempt.stale = driver.attempt.at # "none", !.driver.awaits = driver.run,
               !.past.orphan = ~(driver.attempt.at # "none" /\ agent.kind = "running") /\
                 (HasRound(agent.batch) \/ HasRound(inbox["next-turn"]))]
    BY ONLY <1>1, <1>3, <1>6, <1>7, <1>9
  <2>2. Becomes(IF driver.attempt.at # "none" /\ agent.kind = "running"
                THEN StopsRunning(u) ELSE u)
    BY ONLY <2>1, Unload DEF Unload
  <2> QED  BY ONLY <1>6, <2>2
<1>11. CASE ~(a /\ agent.kind = "running")
  <2>1. v = Closes(d, a, driver.run, o, driver.awaitsIdle)
    <3>1. PICK r, i, n : r = d.driver /\ i = d.driver.awaitsIdle /\ n = driver.run  OBVIOUS
    <3>2. PICK ru, pu : /\ ru = [r EXCEPT !.life = "stopping", !.attempt.stale = a, !.awaits = n]
                        /\ pu = [d.past EXCEPT !.orphan = o]
      OBVIOUS
    <3>3. ru = [r EXCEPT !.life = "stopping", !.attempt.stale = a, !.awaits = n, !.awaitsIdle = i]
      BY <1>5, <3>1, <3>2 DEF Drivers
    <3>4. i \in BOOLEAN  BY <1>5, <3>1 DEF Drivers
    <3>5. Closes(d, a, n, o, i) = [d EXCEPT !.driver = ru, !.past = pu]
      <4>1. d \in Worlds  BY <1>5
      <4>2. ru = Stops(d.driver, a, n, i)  BY ONLY <3>1, <3>3 DEF Stops
      <4>3. pu = Orphans(d.past, o)  BY ONLY <3>2 DEF Orphans
      <4>4. Closes(d, a, n, o, i)
              = Parts(d, Stops(d.driver, a, n, i), Orphans(d.past, o))
        BY ONLY <4>1, ClosesParts
      <4> QED  BY ONLY <4>2, <4>3, <4>4 DEF Parts
    <3>6. u = [d EXCEPT !.driver = ru, !.past = pu]
      BY ONLY <1>9, <3>1, <3>2
    <3> QED  BY <1>4, <1>10, <1>11, <3>1, <3>5, <3>6
  <2>2. ~o => /\ ~HasRound(d.inbox["next-turn"])
              /\ HasRound(d.agent.batch) => driver.awaitsIdle
    BY <1>4, <1>5, <1>7, <1>11
  <2>3. Good(v) /\ v.driver.waker = d.driver.waker  BY <1>4, <1>5, <1>8, <2>1, <2>2, ClosesGood
  <2>4. Steps(v, w)  BY <1>2, <1>4, <2>3 DEF Steps
  <2> QED  BY <1>1, <1>2, <1>10, <2>4, Arrives, UsedStep DEF Unload
<1>12. CASE a /\ agent.kind = "running"
  <2>1. PICK x : x = Cancels(d)  OBVIOUS
  <2>2. /\ Good(x) /\ ~HasRound(x.inbox["next-turn"]) /\ x.driver.life = "loaded"
        /\ x.driver.waker = driver.waker
    BY <1>4, <1>5, <2>1, CancelsGood
  <2>3. PICK c : c = (d.driver.attempt.cancelled
                       \/ (Listens(d) /\ \E t \in Targets : AttemptedIn(d, d.inbox[t])))
    OBVIOUS
  <2>4. u.driver.attempt.at = d.driver.attempt.at
        /\ u.driver.attempt.message = d.driver.attempt.message
        /\ u.driver.attempt.cancelled = d.driver.attempt.cancelled
        /\ u.inbox = d.inbox /\ u.driver.life = "stopping" /\ u.agent = d.agent
        /\ u.past.dropped = d.past.dropped
    BY <1>5, <1>9 DEF Worlds, Drivers, Attempts, Pasts
  <2>5. c = (u.driver.attempt.cancelled
              \/ (Listens(u) /\ \E t \in Targets : AttemptedIn(u, u.inbox[t])))
    BY <1>5, <2>3, <2>4 DEF Listens, AttemptedIn, SameQueued
  <2>6. PICK e : e = (d.past.dropped \/ d.agent.kind = "maintenance")  OBVIOUS
  <2>7. PICK b : b = (d.agent.kind # "idle")  OBVIOUS
  <2>8. x = [d EXCEPT !.inbox = EmptyInbox, !.agent.latch = FALSE, !.agent.abort = b,
               !.past.dropped = e, !.driver.attempt.cancelled = c]
    BY ONLY <2>1, <2>3, <2>6, <2>7 DEF Cancels
  <2>9. Cancels(u) = [u EXCEPT !.inbox = EmptyInbox, !.agent.latch = FALSE, !.agent.abort = b,
                        !.past.dropped = e, !.driver.attempt.cancelled = c]
    BY ONLY <2>4, <2>5, <2>6, <2>7 DEF Cancels
  <2>10. v = [[u EXCEPT !.inbox = EmptyInbox, !.agent.latch = FALSE, !.agent.abort = b,
                        !.past.dropped = e, !.driver.attempt.cancelled = c]
               EXCEPT !.driver.awaitsIdle = TRUE]
    BY <1>10, <1>12, <2>9 DEF StopsRunning
  <2>11. o = FALSE  BY <1>7, <1>12
  <2>12. v = Closes(x, a, driver.run, o, TRUE)
    <3>1. PICK r, p, g, n : r = d.driver /\ p = d.past /\ g = d.agent /\ n = driver.run  OBVIOUS
    <3>2. r \in Drivers /\ r.attempt \in Attempts /\ p \in Pasts /\ g \in Agents
      BY <1>5, <3>1 DEF Worlds, Drivers
    <3>3. PICK ag : ag = [g EXCEPT !.latch = FALSE, !.abort = b]  OBVIOUS
    <3>4. PICK px, pv : px = [p EXCEPT !.dropped = e] /\ pv = [p EXCEPT !.orphan = o, !.dropped = e]
      OBVIOUS
    <3>5. pv = [px EXCEPT !.orphan = o]  BY <3>2, <3>4 DEF Pasts
    <3>6. PICK tx, tv : /\ tx = [r.attempt EXCEPT !.cancelled = c]
                        /\ tv = [r.attempt EXCEPT !.cancelled = c, !.stale = a]
      OBVIOUS
    <3>7. /\ tv = [tx EXCEPT !.stale = a]
          /\ tv = [[r.attempt EXCEPT !.stale = a] EXCEPT !.cancelled = c]
      BY <3>2, <3>6 DEF Attempts
    <3>8. PICK rx, ru, rv :
            /\ rx = [r EXCEPT !.attempt = tx]
            /\ ru = [r EXCEPT !.life = "stopping", !.attempt.stale = a, !.awaits = n]
            /\ rv = [r EXCEPT !.life = "stopping", !.attempt = tv, !.awaits = n,
                              !.awaitsIdle = TRUE]
      OBVIOUS
    <3>9. rv = [rx EXCEPT !.life = "stopping", !.attempt.stale = a, !.awaits = n,
                          !.awaitsIdle = TRUE]
      BY <3>2, <3>7, <3>8 DEF Drivers
    <3>10. rv = [[ru EXCEPT !.attempt.cancelled = c] EXCEPT !.awaitsIdle = TRUE]
      BY <3>2, <3>7, <3>8 DEF Drivers
    <3>11. x = [d EXCEPT !.inbox = EmptyInbox, !.agent = ag, !.past = px, !.driver = rx]
      BY <2>8, <3>1, <3>3, <3>4, <3>6, <3>8
    <3>12. Closes(x, a, n, o, TRUE)
             = [d EXCEPT !.inbox = EmptyInbox, !.agent = ag, !.past = pv, !.driver = rv]
      <4>1. x \in Worlds  BY <2>2 DEF Good
      <4>2. x.driver = rx /\ x.past = px  BY <1>5, <3>11 DEF Worlds
      <4>3. Closes(x, a, n, o, TRUE) = [x EXCEPT !.driver = rv, !.past = pv]
        <5>1. rv = Stops(x.driver, a, n, TRUE)  BY ONLY <3>9, <4>2 DEF Stops
        <5>2. pv = Orphans(x.past, o)  BY ONLY <3>5, <4>2 DEF Orphans
        <5>3. Closes(x, a, n, o, TRUE)
                = Parts(x, Stops(x.driver, a, n, TRUE), Orphans(x.past, o))
          BY ONLY <4>1, ClosesParts
        <5> QED  BY ONLY <5>1, <5>2, <5>3 DEF Parts
      <4>4. [x EXCEPT !.driver = rv, !.past = pv]
              = [d EXCEPT !.inbox = EmptyInbox, !.agent = ag, !.past = pv, !.driver = rv]
        <5>1. d \in Worlds  BY <1>5
        <5> QED  BY ONLY <3>11, <5>1 DEF Worlds
      <4> QED  BY <4>3, <4>4
    <3>13. PICK po : po = [p EXCEPT !.orphan = o]  OBVIOUS
    <3>14. /\ pv = [po EXCEPT !.dropped = e]
           /\ u = [d EXCEPT !.driver = ru, !.past = po]
      <4>1. pv = [po EXCEPT !.dropped = e]  BY <3>2, <3>4, <3>13 DEF Pasts
      <4>2. u = [d EXCEPT !.driver = ru, !.past = po]  BY ONLY <1>9, <3>1, <3>8, <3>13
      <4> QED  BY <4>1, <4>2
    <3>15. v = [d EXCEPT !.inbox = EmptyInbox, !.agent = ag, !.past = pv, !.driver = rv]
      BY <1>5, <2>10, <3>1, <3>3, <3>10, <3>14 DEF Worlds
    <3> QED  BY <3>1, <3>12, <3>15
  <2>13. Good(v) /\ v.driver.waker = x.driver.waker
    <3>1. PICK i : i = TRUE  OBVIOUS
    <3>2. ~o => ~HasRound(x.inbox["next-turn"]) /\ (HasRound(x.agent.batch) => i)
      BY <2>2, <3>1
    <3>3. i \in BOOLEAN /\ v = Closes(x, a, driver.run, o, i)  BY <2>12, <3>1
    <3>4. PICK n : n = driver.run  OBVIOUS
    <3>5. n \in Nat /\ v = Closes(x, a, n, o, i)  BY <1>8, <3>3, <3>4
    <3>6. Good(x) /\ x.driver.life = "loaded" /\ a \in BOOLEAN /\ o \in BOOLEAN
      BY <1>8, <2>2
    <3> QED  BY ONLY <3>2, <3>3, <3>5, <3>6, ClosesGood
  <2>14. Steps(v, w)  BY <1>2, <2>2, <2>13 DEF Steps
  <2> QED  BY <1>1, <1>2, <1>10, <2>14, Arrives, UsedStep DEF Unload
<1> QED  BY <1>11, <1>12

LEMMA UnloadedSteps ==
  ASSUME IInv, Unloaded
  PROVE  Steps(World', World) /\ UsedOK'
<1>1. PICK w : w = World  OBVIOUS
<1>2. Good(w) /\ UsedOK /\ w.driver = driver /\ w.agent = agent
  BY <1>1, FieldsOfWorld DEF IInv
<1>3. PICK d : d = [w.driver EXCEPT !.life = "gone", !.attempt = NoAttempt,
                                    !.competing = FALSE, !.checkpoint = FALSE]
  OBVIOUS
<1>4. w \in Worlds /\ w.driver \in Drivers /\ Fenced(w) /\ Flushes(w)
  BY <1>2 DEF Good, Worlds
<1>5. /\ d \in Drivers /\ d.life = "gone" /\ d.loops = w.driver.loops
      /\ d.waker = w.driver.waker
  BY <1>3, <1>4, NoAttemptType DEF Drivers
<1>6. PICK v : v = [w EXCEPT !.driver = d] /\ Becomes(v)
  BY <1>1, <1>3, <1>4 DEF Unloaded, Worlds
<1>7. /\ v \in Worlds /\ v.goal = w.goal /\ v.agent = w.agent /\ v.inbox = w.inbox
      /\ v.driver = d /\ v.past = w.past
  BY <1>4, <1>5, <1>6 DEF Worlds
<1>8. Unloading(v)
  <2>1. SUFFICES ASSUME ~w.past.orphan
                 PROVE  ~HasRound(w.inbox["next-turn"]) /\ ~HasRound(w.agent.batch)
    BY <1>5, <1>7 DEF Unloading
  <2>2. ~HasRound(w.inbox["next-turn"]) /\ (HasRound(w.agent.batch) => w.driver.awaitsIdle)
    BY <1>2, <1>4, <2>1 DEF Fenced, Unloading, Unloaded
  <2>3. SUFFICES ASSUME HasRound(w.agent.batch)  PROVE  FALSE  BY <2>2
  <2>4. w.agent.kind # "running"  BY <1>2, <2>2, <2>3 DEF Unloaded
  <2>5. w.agent.batch = <<>>  BY <1>4, <2>4 DEF Fenced, Stages
  <2> QED  BY <2>3, <2>5 DEF HasRound
<1>9. Fences(v)  BY <1>4, <1>5, <1>7 DEF Fenced, Fences, Excused
<1>10. Fenced(v)  BY <1>4, <1>7, <1>8, <1>9 DEF Fenced, Stages, Limits
<1>11. Flushes(v)  BY <1>4, <1>5, <1>7 DEF Flushes, Owing
<1>12. Steps(v, w)  BY <1>5, <1>7, <1>10, <1>11 DEF Steps, Good
<1> QED  BY <1>1, <1>2, <1>6, <1>12, Arrives, UsedStep DEF Unloaded

-----------------------------------------------------------------------------
(* The invariant, and what it says *)

LEMMA InitGood == Init => IInv
<1> SUFFICES ASSUME Init PROVE IInv  OBVIOUS
<1>1. MaxRounds \in Nat /\ MaxSent \in Nat /\ MaxOps \in Nat /\ MaxMishaps \in Nat
  BY GoalRoundsConstants
<1>2. UsedOK  BY <1>1 DEF Init, UsedOK
<1>3. NoGoal \in Goals  BY DEF NoGoal, Goals
<1>4. <<>> \in Seq(Messages) /\ <<>> \in Seq(Sents)  BY EmptySeq
<1>5. Idle \in Agents  BY <1>4 DEF Idle, Agents
<1>6. EmptyInbox \in Inboxes  BY <1>4 DEF EmptyInbox, Inboxes, Targets
<1>7. NoWaker \in [loop : Nat, first : BOOLEAN]  BY DEF NoWaker
<1>8. driver \in Drivers  BY <1>7, NoAttemptType DEF Init, Drivers
<1>9. past \in Pasts  BY DEF Init, Pasts
<1>10. World \in Worlds  BY <1>3, <1>5, <1>6, <1>8, <1>9 DEF Init, World, Worlds
<1>11. Elements(EmptyInbox["next-turn"]) = {} /\ Elements(<<>>) = {}
  BY DEF EmptyInbox, Targets, Elements
<1>12. agent.batch = <<>> /\ ~HasRound(agent.batch)  BY DEF Init, Idle, HasRound
<1>13. Stages(World) /\ OneRound(agent.batch)
  BY <1>12, FieldsOfWorld DEF Init, Idle, Stages, OneRound
<1>14. Limits(World)
  BY <1>1, <1>11, <1>12, FieldsOfWorld DEF Init, NoGoal, Limits
<1>15. Fences(World) /\ Unloading(World)
  BY <1>12, FieldsOfWorld DEF Init, NoGoal, Fences, Unloading
<1>16. Flushes(World)
  BY FieldsOfWorld, FS_EmptySet DEF Init, Flushes, LoopsApart, Flushed
<1> QED  BY <1>2, <1>10, <1>13, <1>14, <1>15, <1>16, FieldsOfWorld DEF IInv, Good, Fenced

LEMMA NextSteps ==
  ASSUME IInv, Next
  PROVE  Steps(World', World) /\ UsedOK'
<1>1. CASE DriverStep
  BY <1>1, LoopContinuesSteps, RetiresSteps, CheckpointSettlesSteps DEF DriverStep
<1>2. CASE AgentStep
  BY <1>2, WakeUpSteps, NextTurnSteps, RetireSteps, AssembledSteps, HooksEnterSteps,
     HooksRejectSteps, HooksFailSteps, RejectedSteps, PreparedSteps, StreamedSteps,
     StepFailsSteps DEF AgentStep
<1>3. CASE Prompt \/ Notice \/ Cancel  BY <1>3, PromptSteps, NoticeSteps, CancelSteps
<1>4. CASE StartJob \/ EndJob  BY <1>4, StartJobSteps, EndJobSteps
<1>5. CASE Unload \/ Unloaded  BY <1>5, UnloadSteps, UnloadedSteps
<1>6. CASE \E op \in Operations, limit \in 1..MaxRounds, byModel \in BOOLEAN :
             Operate(op, limit, byModel)
  BY <1>6, OperateSteps
<1> QED  BY <1>1, <1>2, <1>3, <1>4, <1>5, <1>6 DEF Next

LEMMA StutterSteps ==
  ASSUME IInv, UNCHANGED vars
  PROVE  IInv' /\ World' = World
<1>1. World' = World  BY DEF vars, World
<1> QED  BY <1>1 DEF IInv, UsedOK, vars

LEMMA IInvAlways == Spec => []IInv
<1>1. IInv /\ [Next]_vars => IInv'
  <2>1. IInv /\ Next => IInv'  BY NextSteps DEF Steps, IInv
  <2>2. IInv /\ UNCHANGED vars => IInv'  BY StutterSteps
  <2> QED  BY <2>1, <2>2
<1> QED  BY InitGood, <1>1, PTL DEF Spec

LEMMA GoodMessages ==
  ASSUME NEW m \in Messages
  PROVE  MessageOK(m)
BY GoalRoundsConstants DEF Messages, Sents, RoundMessages, MessageOK

LEMMA IInvSays == IInv => RoundsInv
<1> SUFFICES ASSUME IInv PROVE RoundsInv  OBVIOUS
<1>1. PICK w : w = World  OBVIOUS
<1>2. /\ Good(w) /\ UsedOK /\ w.goal = goal /\ w.agent = agent /\ w.inbox = inbox
      /\ w.driver = driver /\ w.past = past
  BY <1>1, FieldsOfWorld DEF IInv
<1>3. w \in Worlds /\ Fenced(w)  BY <1>2 DEF Good
<1>4. inbox \in Inboxes /\ agent \in Agents /\ driver \in Drivers  BY <1>2, <1>3 DEF Worlds
<1>5. Pending(inbox) \subseteq Messages
  <2>1. inbox["next-turn"] \in Seq(Messages) /\ inbox["next-step"] \in Seq(Messages)
    BY <1>4 DEF Inboxes, Targets
  <2> QED  BY <1>4, <2>1, ElementsType, PendingElements
<1>6. Elements(agent.batch) \subseteq Messages  BY <1>4, ElementsType DEF Agents
<1>7. \A m \in Pending(inbox) \cup Elements(agent.batch) : MessageOK(m)
  BY <1>5, <1>6, GoodMessages
<1>8. goal \in Goals /\ goal.rounds <= MaxRounds  BY <1>2, <1>3 DEF Worlds, Fenced, Limits
<1>9. agent.pc = "none" <=> agent.kind # "running"  BY <1>2, <1>3 DEF Fenced, Stages
<1>10. TypeOK
  BY <1>2, <1>4, <1>7, <1>8, <1>9 DEF TypeOK, Agents, Drivers, Attempts, Loops, UsedOK
<1>11. goal.failed => past.slipped \/ past.orphan
  BY <1>2, <1>3 DEF Fenced, Fences, Excused
<1>12. OneRound(agent.batch)  BY <1>2, <1>3 DEF Fenced
<1> QED  BY <1>10, <1>11, <1>12 DEF RoundsInv, OneRound

(***************************************************************************)
(* The fences keep every round out of the log that the goal's fold would   *)
(* refuse, and the goal stays readable, through every interleaving of      *)
(* prompts, notices, goal changes, aborts, maintenance jobs, checkpoints and *)
(* the unloading of the driver: but for a goal that changes while the      *)
(* request of an admitted round is prepared, and for a round that outlived *)
(* the driver.  No step has two rounds in it.                              *)
(***************************************************************************)
THEOREM RoundsCorrect == Spec => []RoundsInv
BY IInvAlways, IInvSays, PTL

(***************************************************************************)
(* Once the disposal of the driver is over no round enters a step any more, *)
(* unless one was left behind when it began (past.orphan): the fence lets  *)
(* nothing new in, and the disposal has awaited the step that was under way. *)
(***************************************************************************)
THEOREM UnloadFinalCorrect == Spec => UnloadFinal
<1>1. IInv => (Admission /\ driver.life = "gone" => past.orphan)
  BY FieldsOfWorld DEF IInv, Good, Fenced, Unloading, Admission
<1>2. IInv /\ [Next]_vars => [Admission /\ driver.life = "gone" => past.orphan]_vars
  BY <1>1
<1> QED  BY IInvAlways, <1>2, PTL DEF Spec, UnloadFinal

(***************************************************************************)
(* A loop of requestDrive() that is alone queues a round only with every   *)
(* change of the goal flushed: a change that comes while a checkpoint is   *)
(* awaited owes another one, which the same loop makes before it goes on.  *)
(***************************************************************************)
THEOREM CheckpointCorrect == Spec => CheckpointFirst
<1> DEFINE Queues == Sync /\ driver'.waker # NoWaker /\ Cardinality(driver'.loops) = 1
<1>1. ASSUME IInv, Next, Queues  PROVE  past'.saved = past'.logged
  <2>1. PICK w : w = World'  OBVIOUS
  <2>2. w.driver = driver' /\ w.past = past'  BY <2>1 DEF World
  <2>3. Good(w) /\ Backed(w)
    BY <1>1, <2>1, <2>2, NextSteps, FieldsOfWorld DEF Steps, Sync
  <2>4. PICK l \in w.driver.loops : l.at = "again"  BY <2>3 DEF Backed
  <2>5. Cardinality(w.driver.loops) = 1 /\ IsFiniteSet(w.driver.loops)
    BY <1>1, <2>2, <2>3 DEF Good, Flushes
  <2>6. \A m \in w.driver.loops : m = l  BY <2>4, <2>5, FS_Singleton
  <2>7. ~\E m \in w.driver.loops : Covers(w, m)  BY <2>4, <2>6 DEF Covers
  <2> QED  BY <2>2, <2>3, <2>7 DEF Backed, Flushed
<1>2. IInv /\ [Next]_vars =>
        [Sync /\ driver'.waker # NoWaker /\ Cardinality(driver'.loops) = 1
           => past'.saved = past'.logged]_vars
  BY <1>1
<1> QED  BY IInvAlways, <1>2, PTL DEF Spec, CheckpointFirst

-----------------------------------------------------------------------------
(***************************************************************************)
(* The order of the inbox, which PromptsFirst rests on.                    *)
(*                                                                         *)
(* Apart: a round is somewhere once, and is not NoAttempt's.  Phases: the  *)
(* reservation is where its phase says, in the queue, or in a step, or     *)
(* behind a step's log.  Waits: as long as it is queued and no prompt has  *)
(* made it stale, no prompt is behind it; and when it has been claimed,    *)
(* none behind it, in whose step it is, is older than the claim.           *)
(***************************************************************************)

Before == {"assembling", "hooks", "preparing"}   \* a step that is not logged yet

Apart(q, b) ==
  /\ \A i, j \in DOMAIN q : IsRound(q[i]) /\ q[i] = q[j] => i = j
  /\ \A i \in DOMAIN q : IsRound(q[i]) => q[i] \notin Elements(b)
  /\ \A m \in Elements(q) \cup Elements(b) : IsRound(m) => m.id # 0

Phases(q, b, pc, life, a) ==
  /\ a.at = "none" \/ life = "gone" => a.at = "none" /\ a.message.id = 0
  /\ a.at = "queued" => a.message \notin Elements(b)
  /\ a.at = "admitted" => /\ a.message \notin Elements(q)
                          /\ a.message \in Elements(b) => pc \notin Before

\* The messages behind a position that humans sent are younger than `k`.
Younger(q, from, k) == \A i \in DOMAIN q : i > from /\ q[i].kind = "sent" => q[i].id > k

Waits(q, b, pc, a, n) ==
  /\ a.sent <= n
  /\ a.at = "queued" /\ ~a.stale =>
       \A i, j \in DOMAIN q : q[i] = a.message /\ i < j => q[j].kind # "sent"
  /\ a.at = "claimed" /\ ~a.stale =>
       \A i \in DOMAIN q : q[i] = a.message => Younger(q, i, a.sent)
  /\ a.at = "claimed" /\ a.message \in Elements(b) /\ (~a.stale \/ pc = "preparing") =>
       Younger(q, 0, a.sent)

Turns(w) == w.inbox["next-turn"]

\* `n` messages have been sent so far.
Ordered(w, n) ==
  /\ Apart(Turns(w), w.agent.batch)
  /\ Phases(Turns(w), w.agent.batch, w.agent.pc, w.driver.life, w.driver.attempt)
  /\ Waits(Turns(w), w.agent.batch, w.agent.pc, w.driver.attempt, n)

\* What can only make the order hold the more: messages leave the step or all of
\* them the queue, the reservation becomes stale, the step is behind its log.
Lessens(v, w) ==
  /\ Turns(v) = Turns(w) \/ Turns(v) = <<>>
  /\ Elements(v.agent.batch) \subseteq Elements(w.agent.batch)
  /\ v.agent.pc \in Before => w.agent.pc \in Before
  /\ v.agent.pc = "preparing" =>
       \/ w.agent.pc = "preparing"
       \/ w.driver.attempt.at = "claimed" /\ w.driver.attempt.message \in Elements(v.agent.batch)
            => ~w.driver.attempt.stale
  /\ v.driver.life = "gone" => w.driver.life = "gone"
  /\ v.driver.attempt.at = w.driver.attempt.at
  /\ v.driver.attempt.message = w.driver.attempt.message
  /\ v.driver.attempt.sent = w.driver.attempt.sent
  /\ w.driver.attempt.at # "none" /\ w.driver.attempt.stale => v.driver.attempt.stale

LEMMA LessensApart ==
  ASSUME NEW q, NEW b, Apart(q, b), NEW p, p = q \/ p = <<>>, NEW c,
         Elements(c) \subseteq Elements(b)
  PROVE  Apart(p, c) /\ Elements(p) \subseteq Elements(q)
<1>1. DOMAIN <<>> = {} /\ Elements(<<>>) = {}  BY EmptySeq DEF Elements
<1>2. CASE p = q  BY <1>2 DEF Apart
<1>3. CASE p = <<>>  BY <1>1, <1>3 DEF Apart
<1> QED  BY <1>2, <1>3

LEMMA LessensOrdered ==
  ASSUME NEW n \in Nat, NEW k \in Nat, n <= k, NEW w \in Worlds, Ordered(w, n),
         NEW v, Lessens(v, w)
  PROVE  Ordered(v, k)
<1>1. PICK a, z : a = w.driver.attempt /\ z = v.driver.attempt  OBVIOUS
<1>2. PICK q, p, b, c : /\ q = Turns(w) /\ p = Turns(v)
                        /\ b = w.agent.batch /\ c = v.agent.batch
  OBVIOUS
<1>3. a.sent \in Nat  BY <1>1 DEF Worlds, Drivers, Attempts
<1>4. /\ z.at = a.at /\ z.message = a.message /\ z.sent = a.sent
      /\ a.at # "none" /\ a.stale => z.stale
      /\ p = q \/ p = <<>>
      /\ Elements(c) \subseteq Elements(b)
  BY <1>1, <1>2 DEF Lessens
<1>5. Apart(q, b) /\ Phases(q, b, w.agent.pc, w.driver.life, a) /\ Waits(q, b, w.agent.pc, a, n)
  BY <1>1, <1>2 DEF Ordered
<1>6. Apart(p, c) /\ Elements(p) \subseteq Elements(q)  BY <1>4, <1>5, LessensApart
<1>7. Phases(p, c, v.agent.pc, v.driver.life, z)
  BY <1>1, <1>2, <1>4, <1>5, <1>6 DEF Phases, Lessens
<1>8. \A from, t : Younger(q, from, t) => Younger(p, from, t)
  BY <1>4, EmptySeq DEF Younger
<1>9. Waits(p, c, v.agent.pc, z, k)
  <2>1. z.sent <= k  BY <1>3, <1>4, <1>5 DEF Waits
  <2>2. ASSUME z.at = "queued", ~z.stale
        PROVE  \A i, j \in DOMAIN p : p[i] = z.message /\ i < j => p[j].kind # "sent"
    BY <1>4, <1>5, <2>2 DEF Waits
  <2>3. ASSUME z.at = "claimed", ~z.stale
        PROVE  \A i \in DOMAIN p : p[i] = z.message => Younger(p, i, z.sent)
    <3>1. \A i \in DOMAIN q : q[i] = a.message => Younger(q, i, a.sent)
      BY <1>4, <1>5, <2>3 DEF Waits
    <3> QED  BY <1>4, <1>8, <3>1
  <2>4. ASSUME z.at = "claimed", z.message \in Elements(c), ~z.stale \/ v.agent.pc = "preparing"
        PROVE  Younger(p, 0, z.sent)
    <3>1. ~a.stale \/ w.agent.pc = "preparing"
      BY <1>1, <1>2, <1>4, <2>4 DEF Lessens
    <3>2. Younger(q, 0, a.sent)  BY <1>4, <1>5, <2>4, <3>1 DEF Waits
    <3> QED  BY <1>4, <1>8, <3>2
  <2> QED  BY <2>1, <2>2, <2>3, <2>4 DEF Waits
<1> QED  BY <1>1, <1>2, <1>6, <1>7, <1>9 DEF Ordered

\* The order is about a part of the world only.
SameOrder(v, w) ==
  /\ Turns(v) = Turns(w) /\ v.agent.batch = w.agent.batch /\ v.agent.pc = w.agent.pc
  /\ v.driver.life = w.driver.life /\ v.driver.attempt = w.driver.attempt

LEMMA SameOrdered ==
  ASSUME NEW n, NEW w, Ordered(w, n), NEW v, SameOrder(v, w)
  PROVE  Ordered(v, n)
BY DEF Ordered, SameOrder

LEMMA ScheduledOrder ==
  ASSUME NEW v, NEW w, Scheduled(v, w) \/ Altered(v, w)
  PROVE  SameOrder(v, w)
BY DEF Scheduled, Altered, SameOrder, Turns

\* Without a reservation nothing has to wait for one.
LEMMA ForgottenOrdered ==
  ASSUME NEW n \in Nat, NEW v, v.driver.attempt = NoAttempt, Apart(Turns(v), v.agent.batch)
  PROVE  Ordered(v, n)
<1>1. /\ NoAttempt.at = "none" /\ NoAttempt.message.id = 0 /\ NoAttempt.sent = 0
  BY DEF NoAttempt, Round
<1> QED  BY <1>1 DEF Ordered, Phases, Waits

-----------------------------------------------------------------------------
(* The driver: a reservation is new, and is the last of the queue. *)

Extends(p, q, m) ==
  /\ Len(q) \in Nat /\ DOMAIN q = 1..Len(q) /\ DOMAIN p = 1..Len(q) + 1
  /\ p[Len(q) + 1] = m /\ \A i \in DOMAIN q : p[i] = q[i]
  /\ Elements(p) = Elements(q) \cup {m}

LEMMA Appended ==
  ASSUME NEW q \in Seq(Messages), NEW m \in Messages
  PROVE  Extends(Append(q, m), q, m)
<1> PICK p : p = Append(q, m)  OBVIOUS
<1>1. Len(q) \in Nat /\ DOMAIN q = 1..Len(q)  BY LenProperties
<1>2. /\ DOMAIN p = 1..Len(q) + 1 /\ p[Len(q) + 1] = m
      /\ \A i \in 1..Len(q) : p[i] = q[i]
  BY <1>1, AppendProperties, LenProperties
<1>3. Elements(p) = Elements(q) \cup {m}  BY AppendElements
<1> QED  BY <1>1, <1>2, <1>3 DEF Extends

\* A message that nowhere says the same keeps the queue apart.
LEMMA AppendedApart ==
  ASSUME NEW q \in Seq(Messages), NEW b, Apart(q, b), NEW m \in Messages,
         IsRound(m) => m \notin Elements(q) \cup Elements(b) /\ m.id # 0,
         NEW p, p = Append(q, m)
  PROVE  Apart(p, b)
<1>7. Extends(p, q, m)  BY ONLY q \in Seq(Messages), m \in Messages, p = Append(q, m), Appended
<1>1. /\ Len(q) \in Nat /\ DOMAIN q = 1..Len(q) /\ DOMAIN p = 1..Len(q) + 1
      /\ p[Len(q) + 1] = m /\ \A i \in DOMAIN q : p[i] = q[i]
      /\ Elements(p) = Elements(q) \cup {m}
  BY <1>7 DEF Extends
<1>2. \A i \in DOMAIN p : i \in DOMAIN q \/ i = Len(q) + 1  BY <1>1
<1>3. \A i \in DOMAIN q : q[i] \in Elements(q)  BY DEF Elements
<1>4. ASSUME NEW i \in DOMAIN p, NEW j \in DOMAIN p, IsRound(p[i]), p[i] = p[j]
      PROVE  i = j
  <2>1. CASE i \in DOMAIN q /\ j \in DOMAIN q  BY <1>1, <1>4, <2>1 DEF Apart
  <2>2. CASE i = Len(q) + 1 /\ j \in DOMAIN q  BY <1>1, <1>3, <1>4, <2>2
  <2>3. CASE i \in DOMAIN q /\ j = Len(q) + 1  BY <1>1, <1>3, <1>4, <2>3
  <2> QED  BY <1>2, <1>4, <2>1, <2>2, <2>3
<1>5. \A i \in DOMAIN p : IsRound(p[i]) => p[i] \notin Elements(b)  BY <1>1, <1>2 DEF Apart
<1>6. \A x \in Elements(p) \cup Elements(b) : IsRound(x) => x.id # 0  BY <1>1 DEF Apart
<1> QED  BY <1>4, <1>5, <1>6 DEF Apart

LEMMA ReserveOrdered ==
  ASSUME NEW n \in Nat, NEW w, Good(w), w.driver.life = "loaded", Ordered(w, n),
         w.goal.rounds < w.goal.limit,
         NEW id, NEW first, NEW v, v = Reserve(w, id, first)
  PROVE  Ordered(v, n)
<1>1. PICK m : m = Round(FreshId(w), w.goal.ref, w.goal.rounds + 1)  OBVIOUS
<1>2. PICK a : a = [NoAttempt EXCEPT !.at = "queued", !.message = m]  OBVIOUS
<1>3. PICK q, p, b : q = Turns(w) /\ p = Append(q, m) /\ b = w.agent.batch  OBVIOUS
<1>4. w \in Worlds /\ w.inbox \in Inboxes /\ w.inbox \in [Targets -> Seq(Messages)]
  BY DEF Good, Worlds, Inboxes
<1>5. q \in Seq(Messages)  BY <1>3, <1>4 DEF Turns, Targets
<1>6. /\ v.inbox = Inserted(w.inbox, "next-turn", m) /\ v.agent = w.agent
      /\ v.driver.attempt = a /\ v.driver.life = w.driver.life
  BY <1>1, <1>2, <1>4 DEF Reserve, Worlds, Drivers
<1>7. Turns(v) = p  BY <1>3, <1>4, <1>6 DEF Turns, Inserted, Targets
<1>8. a.at = "queued" /\ a.message = m /\ a.sent = 0  BY <1>2 DEF NoAttempt
<1>9. /\ m \in Messages /\ m.kind = "round" /\ m.id # 0
      /\ \A x \in Elements(q) \cup Elements(b) : IsRound(x) => x.id # m.id
  <2>1. /\ FreshId(w) \in Nat \ {0}
        /\ \A x \in Elements(q) \cup Elements(b) : IsRound(x) => x.id # FreshId(w)
    BY <1>3, <1>4, FreshMessage DEF Turns
  <2>2. w.goal.ref \in Nat /\ w.goal.rounds \in Nat /\ w.goal.limit \in Nat
        /\ w.goal.limit <= MaxRounds
    BY <1>4 DEF Worlds, Goals, Good, Fenced, Limits
  <2>3. w.goal.rounds + 1 \in 0..MaxRounds  BY <2>2, GoalRoundsConstants
  <2> QED  BY <1>1, <2>1, <2>2, <2>3 DEF Round, RoundMessages, Messages
<1>10. m \notin Elements(q) \cup Elements(b)  BY <1>9 DEF IsRound
<1>11. Apart(p, b)  BY <1>3, <1>5, <1>9, <1>10, AppendedApart DEF Ordered
<1>12. Phases(p, b, v.agent.pc, v.driver.life, a)  BY <1>6, <1>8, <1>10 DEF Phases
<1>13. Waits(p, b, v.agent.pc, a, n)
  <2>4. Extends(p, q, m)  BY ONLY <1>3, <1>5, <1>9, Appended
  <2>1. /\ Len(q) \in Nat /\ DOMAIN q = 1..Len(q) /\ DOMAIN p = 1..Len(q) + 1
        /\ \A i \in DOMAIN q : p[i] = q[i]
    BY <2>4 DEF Extends
  <2>2. \A i \in DOMAIN q : p[i] # m  BY <1>10, <2>1 DEF Elements
  <2>3. \A i, j \in DOMAIN p : p[i] = a.message /\ i < j => FALSE  BY <1>8, <2>1, <2>2
  <2> QED  BY <1>8, <2>3 DEF Waits
<1> QED  BY <1>3, <1>6, <1>7, <1>11, <1>12, <1>13 DEF Ordered

LEMMA DriveOnOrdered ==
  ASSUME NEW n \in Nat, NEW w, Good(w), Ordered(w, n), NEW id \in LoopIds, NEW first \in BOOLEAN,
         Settled(w, id), w.driver.life = "loaded", ~w.driver.checkpoint,
         NEW v, v = DriveOn(w, id, first)
  PROVE  Ordered(v, n)
<1>1. w \in Worlds /\ w.goal \in Goals  BY DEF Good, Worlds
<1>2. PICK x : x = LoopAt(w, id, "again")  OBVIOUS
<1>3. Good(x) /\ Scheduled(x, w)  BY <1>1, <1>2, LoopAtGood, LoopAtFields
<1>4. Ordered(x, n)  BY <1>3, ScheduledOrder, SameOrdered
<1>5. CASE w.driver.attempt.at # "none"
  <2>1. PICK u : u = Forgets(w)  OBVIOUS
  <2>2. v = LoopAt(u, id, "again")  BY <1>5, <2>1 DEF DriveOn, Forgets
  <2>3. u \in Worlds /\ u.agent = w.agent /\ u.inbox = w.inbox /\ u.driver.attempt = NoAttempt
    BY <1>1, <2>1, ForgetsFields DEF Forgets, Worlds, Drivers
  <2>4. Ordered(u, n)  BY <2>3, ForgottenOrdered DEF Ordered, Turns
  <2> QED  BY <2>2, <2>3, <2>4, LoopAtFields, ScheduledOrder, SameOrdered
<1>6. CASE w.driver.attempt.at = "none" /\ (w.goal.failed \/ ~Continues(w.goal))
  BY <1>2, <1>4, <1>6 DEF DriveOn
<1>7. CASE /\ w.driver.attempt.at = "none" /\ ~w.goal.failed /\ Continues(w.goal)
           /\ w.goal.rounds >= w.goal.limit
  <2>1. PICK y : y = Change(x, "block", 0, FALSE)  OBVIOUS
  <2>2. v = LoopAt(y, id, "again")  BY <1>2, <1>7, <2>1 DEF DriveOn
  <2>3. Admits(x.goal, "block")  BY <1>3, <1>7 DEF Admits, Continues, Scheduled
  <2>4. Good(y) /\ Altered(y, x)
    <3>1. "block" \in Operations /\ 0 \in 0..MaxRounds
      BY GoalRoundsConstants DEF Operations
    <3> QED  BY ONLY <1>3, <2>1, <2>3, <3>1, ChangeGood
  <2>5. Ordered(y, n)  BY <1>4, <2>4, ScheduledOrder, SameOrdered
  <2>6. Scheduled(v, y)  BY <2>2, <2>4, LoopAtFields DEF Good
  <2> QED  BY <2>5, <2>6, ScheduledOrder, SameOrdered
<1>8. CASE /\ w.driver.attempt.at = "none" /\ ~w.goal.failed /\ Continues(w.goal)
           /\ ~(w.goal.rounds >= w.goal.limit)
  <2>1. v = Reserve(x, id, first)  BY <1>2, <1>8 DEF DriveOn
  <2>2. x.goal.rounds < x.goal.limit /\ x.driver.life = "loaded"
    BY <1>1, <1>3, <1>8 DEF Scheduled, Goals
  <2> QED  BY <1>3, <1>4, <2>1, <2>2, ReserveOrdered
<1> QED  BY <1>5, <1>6, <1>7, <1>8

LEMMA DriveOrdered ==
  ASSUME NEW n \in Nat, NEW w, Good(w), Ordered(w, n), NEW id \in LoopIds, NEW first \in BOOLEAN,
         Settled(w, id), NEW v, v = Drive(w, id, first)
  PROVE  Ordered(v, n)
<1>1. w \in Worlds  BY DEF Good
<1>2. CASE ~ReadyToDrive(w)
  <2>1. v = LoopAt(w, id, "again")  BY <1>2 DEF Drive
  <2> QED  BY <1>1, <2>1, LoopAtFields, ScheduledOrder, SameOrdered
<1>3. CASE ReadyToDrive(w) /\ w.driver.checkpoint
  <2>1. v = Checkpoints(w, id)  BY <1>3 DEF Drive
  <2> QED  BY <1>1, <2>1, CheckpointsFields, ScheduledOrder, SameOrdered
<1>4. CASE ReadyToDrive(w) /\ ~w.driver.checkpoint
  <2>1. v = DriveOn(w, id, first)  BY <1>4 DEF Drive
  <2> QED  BY <1>4, <2>1, DriveOnOrdered DEF ReadyToDrive
<1> QED  BY <1>2, <1>3, <1>4

LEMMA RequestDriveOrdered ==
  ASSUME NEW n \in Nat, NEW w, Good(w), Ordered(w, n), NEW v, v = RequestDrive(w)
  PROVE  Ordered(v, n)
<1>1. w \in Worlds  BY DEF Good
<1>2. CASE w.driver.life # "loaded"  BY <1>2 DEF RequestDrive
<1>3. CASE w.driver.life = "loaded" /\ w.driver.run # 0
  <2>1. v = Requests(w, TRUE)  BY <1>3 DEF RequestDrive, Requests
  <2>2. Scheduled(v, w)  BY ONLY <1>1, <2>1, RequestsFields
  <2> QED  BY <2>2, ScheduledOrder, SameOrdered
<1>4. CASE w.driver.life = "loaded" /\ w.driver.run = 0
  <2>1. PICK id : id = FreeId(w)  OBVIOUS
  <2>2. PICK u : u = Requests(w, FALSE)  OBVIOUS
  <2>3. PICK x : x = Drive(u, id, TRUE)  OBVIOUS
  <2>4. v = IF x.driver.waker # NoWaker THEN x ELSE [x EXCEPT !.driver.run = id]
    BY <1>4, <2>1, <2>2, <2>3 DEF RequestDrive, Requests
  <2>5. id \in LoopIds /\ \A l \in w.driver.loops : l.id # id
    BY <1>1, <2>1, FreshLoop DEF Good, Flushes, Worlds, Drivers
  <2>6. /\ Scheduled(u, w) /\ u.driver.checkpoint = w.driver.checkpoint
        /\ u.driver.loops = w.driver.loops
    BY ONLY <1>1, <2>2, RequestsFields
  <2>7. Good(u) /\ Ordered(u, n)  BY <2>6, NotedGood, ScheduledOrder, SameOrdered
  <2>8. Settled(u, id)  BY <2>5, <2>6, <2>7, OtherLoops
  <2>9. Good(x) /\ Ordered(x, n)  BY <2>3, <2>5, <2>7, <2>8, DriveGood, DriveOrdered
  <2>10. v = x \/ Scheduled(v, x)
    <3>1. x \in Worlds  BY <2>9 DEF Good
    <3>2. [x EXCEPT !.driver.run = id] \in Worlds  BY <2>5, <3>1 DEF LoopIds, Worlds, Drivers
    <3> QED  BY <2>4, <3>1, <3>2 DEF Scheduled, Worlds, Drivers
  <2> QED  BY <2>9, <2>10, ScheduledOrder, SameOrdered
<1> QED  BY <1>1, <1>2, <1>3, <1>4 DEF Worlds, Drivers

-----------------------------------------------------------------------------
(* The agent: a claim takes the head of the queue into the step. *)

TakesHead(q, p, b, d) ==
  /\ \A i \in DOMAIN p : i \in Nat \ {0} /\ i + d \in DOMAIN q /\ p[i] = q[i + d]
  /\ \A m \in Elements(b) : IsRound(m) => d = 1 /\ 1 \in DOMAIN q /\ m = q[1]

LEMMA ClaimedQueue ==
  ASSUME NEW f \in Inboxes, NEW t \in Targets
  PROVE  \E d \in {0, 1} :
           TakesHead(f["next-turn"], Unclaimed(f, t)["next-turn"], Batch(f, t), d)
<1> PICK b, g : b = Batch(f, t) /\ g = Unclaimed(f, t)  OBVIOUS
<1> PICK s, q : s = f["next-step"] /\ q = f["next-turn"]  OBVIOUS
<1>1. s \in Seq(Sents) /\ q \in Seq(Messages) /\ s \in Seq(Messages)  BY DEF Inboxes, Targets
<1>2. <<>> \in Seq(Messages) /\ Elements(<<>>) = {}  BY EmptySeq DEF Elements
<1>3. Elements(s) \subseteq Sents  BY <1>1, ElementsType
<1>4. \A m \in Elements(s) : ~IsRound(m)  BY <1>3 DEF IsRound, Sents
<1>5. Len(q) \in Nat /\ DOMAIN q = 1..Len(q)  BY <1>1, LenProperties
<1>6. CASE t = "next-turn" /\ q # <<>>
  <2>1. b = s \o <<Head(q)>> /\ g["next-turn"] = Tail(q)
    BY <1>6 DEF Batch, Unclaimed, Targets
  <2>2. Head(q) \in Messages /\ Tail(q) \in Seq(Messages)  BY <1>1, <1>6, HeadTailProperties
  <2>3. Len(q) >= 1 /\ Head(q) = q[1]  BY <1>1, <1>5, <1>6, EmptySeq
  <2>4. Len(Tail(q)) = Len(q) - 1 /\ \A i \in 1..Len(q) - 1 : Tail(q)[i] = q[i + 1]
    BY <1>1, <1>6, HeadTailProperties
  <2>5. DOMAIN Tail(q) = 1..Len(q) - 1  BY <2>2, <2>4, LenProperties
  <2>6. \A i \in DOMAIN Tail(q) : i \in Nat \ {0} /\ i + 1 \in DOMAIN q /\ Tail(q)[i] = q[i + 1]
    BY <1>5, <2>3, <2>4, <2>5
  <2>7. PICK h : h = <<Head(q)>>  OBVIOUS
  <2>8. h \in Seq(Messages) /\ DOMAIN h = 1..1 /\ h[1] = Head(q)  BY <2>2, <2>7
  <2>9. Elements(h) = {Head(q)}  BY <2>8 DEF Elements
  <2>10. Elements(s \o h) = Elements(s) \cup Elements(h)  BY <1>1, <2>8, ConcatElements
  <2>11. Elements(b) = Elements(s) \cup {q[1]}  BY <2>1, <2>3, <2>7, <2>9, <2>10
  <2>12. TakesHead(q, g["next-turn"], b, 1)
    BY <1>4, <1>5, <2>1, <2>3, <2>6, <2>11 DEF TakesHead
  <2> QED  BY <2>12
<1>7. CASE ~(t = "next-turn" /\ q # <<>>)
  <2>1. b = s \o <<>> /\ g["next-turn"] = q  BY <1>7 DEF Batch, Unclaimed, Targets
  <2>2. Elements(b) = Elements(s)  BY <1>1, <1>2, <2>1, ConcatElements
  <2>3. \A i \in DOMAIN q : i \in Nat \ {0} /\ i + 0 \in DOMAIN q /\ q[i] = q[i + 0]
    BY <1>5
  <2>4. TakesHead(q, g["next-turn"], b, 0)  BY <1>4, <2>1, <2>2, <2>3 DEF TakesHead
  <2> QED  BY <2>4
<1> QED  BY <1>6, <1>7

\* The claim of the reservation, or of what passes for it.
ClaimOf(z, a, k) ==
  /\ z.at = "claimed" /\ z.message = a.message /\ z.stale = a.stale
  /\ z.sent = IF a.at = "queued" THEN k ELSE a.sent

LEMMA ClaimedIs ==
  ASSUME NEW w \in Worlds, NEW b, NEW a, a = w.driver.attempt, NEW z, z = Claimed(w, b),
         a.message \in Elements(b) => a.message.kind = "round"
  PROVE  \/ z = a /\ (w.driver.life = "gone" \/ a.at = "none" \/ a.message \notin Elements(b))
         \/ ClaimOf(z, a, MaxSent - used.sent) /\ a.at # "none" /\ w.driver.life # "gone"
<1>1. a \in Attempts  BY DEF Worlds, Drivers
<1>2. CASE ~Listens(w) \/ ~AttemptedIn(w, b)
  <2>1. z = a  BY <1>2 DEF Claimed
  <2>2. Listens(w) /\ a.at # "none" => a.message \notin Elements(b)
    BY <1>2 DEF AttemptedIn, SameQueued, Elements
  <2> QED  BY <2>1, <2>2 DEF Listens
<1>3. CASE Listens(w) /\ AttemptedIn(w, b)
  <2>1. z = [a EXCEPT !.sent = IF a.at = "queued" THEN MaxSent - used.sent ELSE @,
                      !.at = "claimed"]
    BY <1>3 DEF Claimed
  <2>2. ClaimOf(z, a, MaxSent - used.sent)  BY <1>1, <2>1 DEF ClaimOf, Attempts
  <2> QED  BY <1>3, <2>2 DEF Listens, AttemptedIn, SameQueued
<1> QED  BY <1>2, <1>3

LEMMA HeadTaken ==
  ASSUME NEW n \in Nat, NEW q, NEW b, NEW pc, NEW life, NEW a \in Attempts,
         Apart(q, b), Phases(q, b, pc, life, a), Waits(q, b, pc, a, n),
         NEW p, NEW c, NEW d \in {0, 1}, TakesHead(q, p, c, d), NEW z, NEW k \in Nat, k <= n,
         DOMAIN q \subseteq Nat,
         \/ z = a /\ (life = "gone" \/ a.at = "none" \/ a.message \notin Elements(c))
         \/ ClaimOf(z, a, k) /\ a.at # "none" /\ life # "gone"
  PROVE  /\ Apart(p, c)
         /\ Phases(p, c, "assembling", life, z)
         /\ Waits(p, c, "assembling", z, n)
<1>1. /\ \A i \in DOMAIN p : i \in Nat \ {0} /\ i + d \in DOMAIN q /\ p[i] = q[i + d]
      /\ \A m \in Elements(c) : IsRound(m) => d = 1 /\ 1 \in DOMAIN q /\ m = q[1]
  BY DEF TakesHead
<1>2. Elements(p) \subseteq Elements(q)  BY <1>1 DEF Elements
<1>3. \A m \in Elements(c) : IsRound(m) => m \in Elements(q)  BY <1>1 DEF Elements
<1>4. IsRound(a.message)  BY DEF IsRound, Attempts, RoundMessages
<1>5. Apart(p, c)
  <2>1. ASSUME NEW i \in DOMAIN p, NEW j \in DOMAIN p, IsRound(p[i]), p[i] = p[j]
        PROVE  i = j
    <3>1. i + d = j + d  BY <1>1, <2>1 DEF Apart
    <3> QED  BY <1>1, <3>1
  <2>2. ASSUME NEW i \in DOMAIN p, IsRound(p[i]), p[i] \in Elements(c)
        PROVE  FALSE
    <3>1. d = 1 /\ 1 \in DOMAIN q /\ p[i] = q[1]  BY <1>1, <2>2
    <3>2. i + 1 \in DOMAIN q /\ q[i + 1] = q[1] /\ IsRound(q[1])  BY <1>1, <2>2, <3>1
    <3>3. i + 1 = 1  BY <3>1, <3>2 DEF Apart
    <3> QED  BY <1>1, <3>3
  <2>3. \A m \in Elements(p) \cup Elements(c) : IsRound(m) => m.id # 0
    BY <1>2, <1>3 DEF Apart
  <2> QED  BY <2>1, <2>2, <2>3 DEF Apart
<1>6. Phases(p, c, "assembling", life, z)
  <2>1. a.at = "admitted" => a.message \notin Elements(p) /\ a.message \notin Elements(c)
    BY <1>2, <1>3, <1>4 DEF Phases
  <2> QED  BY <2>1 DEF Phases, ClaimOf
<1>7. \A from \in Nat, j \in Nat : Younger(q, from + d, j) => Younger(p, from, j)
  BY <1>1 DEF Younger
<1>8. a.sent \in Nat  BY DEF Attempts
<1>9. CASE z = a /\ (life = "gone" \/ a.at = "none" \/ a.message \notin Elements(c))
  <2>1. ASSUME a.at = "queued", ~a.stale
        PROVE  \A i, j \in DOMAIN p : p[i] = a.message /\ i < j => p[j].kind # "sent"
    <3>1. \A i, j \in DOMAIN q : q[i] = a.message /\ i < j => q[j].kind # "sent"
      BY <2>1 DEF Waits
    <3> QED  BY <1>1, <3>1
  <2>2. ASSUME a.at = "claimed", ~a.stale, NEW i \in DOMAIN p, p[i] = a.message
        PROVE  Younger(p, i, a.sent)
    <3>1. i + d \in DOMAIN q /\ q[i + d] = a.message /\ i \in Nat  BY <1>1, <2>2
    <3>2. Younger(q, i + d, a.sent)  BY <2>2, <3>1 DEF Waits
    <3> QED  BY <1>7, <1>8, <3>1, <3>2
  <2>3. a.at = "claimed" => a.message \notin Elements(c)  BY <1>9 DEF Phases
  <2>4. a.sent <= n  BY DEF Waits
  <2>5. Waits(p, c, "assembling", a, n)  BY <2>1, <2>2, <2>3, <2>4 DEF Waits
  <2> QED  BY <1>5, <1>6, <1>9, <2>5
<1>10. CASE ClaimOf(z, a, k) /\ a.at # "none" /\ life # "gone"
  <2>1. /\ z.at = "claimed" /\ z.message = a.message /\ z.stale = a.stale
        /\ z.sent = IF a.at = "queued" THEN k ELSE a.sent
    BY <1>10 DEF ClaimOf
  <2>2. z.sent \in Nat /\ z.sent <= n  BY <1>8, <2>1 DEF Waits
  \* behind the reservation in the old queue nothing is older than this claim
  <2>3. ASSUME ~a.stale, NEW i \in DOMAIN q, q[i] = a.message
        PROVE  Younger(q, i, z.sent)
    <3>1. CASE a.at = "queued"
      <4>1. \A j \in DOMAIN q : i < j => q[j].kind # "sent"  BY <2>3, <3>1 DEF Waits
      <4>2. \A j \in DOMAIN q : j > i <=> i < j  BY DOMAIN q \subseteq Nat
      <4> QED  BY <4>1, <4>2 DEF Younger
    <3>2. CASE a.at = "claimed"  BY <2>1, <2>3, <3>2 DEF Waits
    <3>3. CASE a.at = "admitted"  BY <2>3, <3>3 DEF Phases, Elements
    <3> QED  BY <1>10, <3>1, <3>2, <3>3 DEF Attempts
  <2>4. ASSUME ~a.stale, NEW i \in DOMAIN p, p[i] = a.message
        PROVE  Younger(p, i, z.sent)
    <3>1. i + d \in DOMAIN q /\ q[i + d] = a.message /\ i \in Nat  BY <1>1, <2>4
    <3>2. Younger(q, i + d, z.sent)  BY <2>3, <2>4, <3>1
    <3> QED  BY <1>7, <2>2, <3>1, <3>2
  <2>5. ASSUME ~a.stale, a.message \in Elements(c)
        PROVE  Younger(p, 0, z.sent)
    <3>1. d = 1 /\ 1 \in DOMAIN q /\ a.message = q[1]  BY <1>1, <1>4, <2>5
    <3>2. Younger(q, 1, z.sent)  BY <2>3, <2>5, <3>1
    <3>3. 0 + d = 1  BY <3>1
    <3> QED  BY <1>7, <2>2, <3>2, <3>3
  <2>6. Waits(p, c, "assembling", z, n)  BY <2>1, <2>2, <2>4, <2>5 DEF Waits
  <2> QED  BY <1>5, <1>6, <2>6
<1> QED  BY <1>9, <1>10

LEMMA ClaimsOrdered ==
  ASSUME UsedOK, NEW n \in Nat, MaxSent - used.sent <= n, NEW w \in Worlds, Ordered(w, n),
         NEW t \in Targets, NEW v, v = Claims(w, t)
  PROVE  Ordered(v, n)
<1>1. PICK f, b, z : f = Unclaimed(w.inbox, t) /\ b = Batch(w.inbox, t) /\ z = Claimed(w, b)
  OBVIOUS
<1>2. PICK h : h = w.inbox  OBVIOUS
<1>3. h \in Inboxes /\ h["next-turn"] \in Seq(Messages)  BY <1>2 DEF Worlds, Inboxes, Targets
<1>4. b \in Seq(Messages) /\ f \in Inboxes
  <2>1. h \in Inboxes /\ f = Unclaimed(h, t) /\ b = Batch(h, t)  BY <1>1, <1>2, <1>3
  <2> QED  BY ONLY <2>1, t \in Targets, ClaimedType
<1>5. PICK d \in {0, 1} : TakesHead(h["next-turn"], f["next-turn"], b, d)
  BY <1>1, <1>2, <1>3, ClaimedQueue
<1>6. v = TakesBatch(w, f, b, z)  BY <1>1 DEF Claims, TakesBatch, Claimed
<1>7. z \in Attempts  BY <1>1, ClaimedAttempt
<1>8. TookBatch(v, w, f, b, z)  BY ONLY <1>4, <1>6, <1>7, w \in Worlds, TakesBatchFields
<1>9. /\ Turns(v) = f["next-turn"] /\ v.agent.batch = b /\ v.agent.pc = "assembling"
      /\ v.driver.life = w.driver.life /\ v.driver.attempt = z
  BY <1>8 DEF TookBatch, Turns
<1>10. PICK a : a = w.driver.attempt  OBVIOUS
<1>11. a \in Attempts /\ a.message.kind = "round"
  BY <1>10 DEF Worlds, Drivers, Attempts, RoundMessages
<1>12. PICK k : k = MaxSent - used.sent  OBVIOUS
<1>13. k \in Nat /\ k <= n  BY <1>12, GoalRoundsConstants DEF UsedOK
<1>14. \/ z = a /\ (w.driver.life = "gone" \/ a.at = "none" \/ a.message \notin Elements(b))
       \/ ClaimOf(z, a, k) /\ a.at # "none" /\ w.driver.life # "gone"
  BY <1>1, <1>10, <1>11, <1>12, ClaimedIs
<1>15. PICK q, p, c, pc, life : /\ q = h["next-turn"] /\ p = f["next-turn"] /\ c = w.agent.batch
                               /\ pc = w.agent.pc /\ life = w.driver.life
  OBVIOUS
<1>16. Apart(q, c) /\ Phases(q, c, pc, life, a) /\ Waits(q, c, pc, a, n)
  BY <1>2, <1>10, <1>15 DEF Ordered, Turns
<1>17. DOMAIN q \subseteq Nat  BY <1>3, <1>15, LenProperties
<1>18. TakesHead(q, p, b, d)  BY <1>5, <1>15
<1>19. \/ z = a /\ (life = "gone" \/ a.at = "none" \/ a.message \notin Elements(b))
       \/ ClaimOf(z, a, k) /\ a.at # "none" /\ life # "gone"
  BY <1>14, <1>15
<1>20. /\ Apart(p, b) /\ Phases(p, b, "assembling", life, z)
       /\ Waits(p, b, "assembling", z, n)
  BY ONLY n \in Nat, <1>5, <1>11, <1>13, <1>16, <1>17, <1>18, <1>19, HeadTaken
<1> QED  BY <1>9, <1>15, <1>20 DEF Ordered

-----------------------------------------------------------------------------
(* The agent: turns open and end, steps move on. *)

LEMMA NoElements == Elements(<<>>) = {} /\ DOMAIN <<>> = {}
BY EmptySeq DEF Elements

\* Between two steps nothing is in one.
LEMMA OutOfStep ==
  ASSUME NEW w, NEW v, Turns(v) = Turns(w), v.agent.batch = <<>>, v.agent.pc \notin Before,
         v.driver.life = w.driver.life, v.driver.attempt = w.driver.attempt
  PROVE  Lessens(v, w)
BY NoElements DEF Lessens, Before

LEMMA StartingOrdered ==
  ASSUME NEW n \in Nat, NEW w, Good(w), Ordered(w, n), NEW a \in {Idle, Starting},
         NEW v, v = [w EXCEPT !.agent = a]
  PROVE  Ordered(v, n)
<1>1. w \in Worlds  BY DEF Good
<1>2. a.batch = <<>> /\ a.pc = "none"  BY DEF Starting, Idle
<1>3. v.agent = a /\ v.driver = w.driver /\ v.inbox = w.inbox  BY <1>1 DEF Worlds
<1>4. Lessens(v, w)  BY <1>2, <1>3, OutOfStep DEF Before, Turns
<1> QED  BY <1>1, <1>4, LessensOrdered

LEMMA OpensTurnOrdered ==
  ASSUME UsedOK, NEW n \in Nat, MaxSent - used.sent <= n, NEW w, Good(w), Ordered(w, n),
         NEW v, v = OpensTurn(w)
  PROVE  Ordered(v, n)
<1>1. PICK x : x = [w EXCEPT !.agent = Starting]  OBVIOUS
<1>2. v = Claims(x, "next-turn")  BY <1>1 DEF OpensTurn, Starting
<1>3. x \in Worlds  BY <1>1, StartingTame DEF Tame
<1>4. Ordered(x, n)  BY <1>1, StartingOrdered
<1>5. "next-turn" \in Targets  BY DEF Targets
<1> QED  BY ONLY UsedOK, n \in Nat, MaxSent - used.sent <= n, <1>2, <1>3, <1>4, <1>5, ClaimsOrdered

LEMMA WakesOrdered ==
  ASSUME UsedOK, NEW n \in Nat, MaxSent - used.sent <= n, NEW w, Good(w), Ordered(w, n),
         NEW b, NEW v, v = Wakes(w, b)
  PROVE  Ordered(v, n)
<1>1. CASE v = OpensTurn(w)  BY <1>1, OpensTurnOrdered
<1>2. CASE v = [w EXCEPT !.agent.latch = TRUE]
  <2>1. SameOrder(v, w)  BY <1>2 DEF Good, Worlds, Agents, SameOrder, Turns
  <2> QED  BY <2>1, SameOrdered
<1> QED  BY <1>1, <1>2 DEF Wakes

LEMMA MovesOrdered ==
  ASSUME NEW n \in Nat, NEW w, Good(w), Ordered(w, n), NEW pc,
         pc \in Before => w.agent.pc \in Before,
         pc = "preparing" /\ w.driver.attempt.at = "claimed"
           /\ w.driver.attempt.message \in Elements(w.agent.batch) => ~w.driver.attempt.stale,
         NEW v, v = [w EXCEPT !.agent.pc = pc]
  PROVE  Ordered(v, n)
<1>1. w \in Worlds  BY DEF Good
<1>2. /\ v.inbox = w.inbox /\ v.driver = w.driver /\ v.agent.pc = pc
      /\ v.agent.batch = w.agent.batch
  BY <1>1 DEF Worlds, Agents
<1>3. Lessens(v, w)  BY <1>2 DEF Lessens, Turns
<1> QED  BY <1>1, <1>3, LessensOrdered

LEMMA CancelledOrdered ==
  ASSUME NEW n \in Nat, NEW w, Good(w), Ordered(w, n),
         NEW v, v = [w EXCEPT !.driver.attempt.cancelled = TRUE]
  PROVE  Ordered(v, n)
<1>1. w \in Worlds  BY DEF Good
<1>2. PICK a : a = [w.driver.attempt EXCEPT !.cancelled = TRUE]  OBVIOUS
<1>3. w.driver.attempt \in Attempts  BY <1>1 DEF Worlds, Drivers
<1>4. /\ a.at = w.driver.attempt.at /\ a.message = w.driver.attempt.message
      /\ a.stale = w.driver.attempt.stale /\ a.sent = w.driver.attempt.sent
  BY <1>2, <1>3 DEF Attempts
<1>5. v = [w EXCEPT !.driver.attempt = a]  BY <1>1, <1>2 DEF Worlds, Drivers
<1>6. /\ v.inbox = w.inbox /\ v.agent = w.agent /\ v.driver.life = w.driver.life
      /\ v.driver.attempt = a
  BY <1>1, <1>5 DEF Worlds, Drivers
<1>7. Lessens(v, w)  BY <1>4, <1>6 DEF Lessens, Turns
<1> QED  BY <1>1, <1>7, LessensOrdered

LEMMA EndsTurnOrdered ==
  ASSUME NEW n \in Nat, NEW w, Good(w), w.agent.kind = "running", Ordered(w, n), NEW ending,
         NEW v, v = EndsTurn(w, ending)
  PROVE  Ordered(v, n)
<1>1. PICK pc : pc = IF ending \in {"completed", "max-tokens"} /\ HasPending(w.inbox)
                     THEN "between" ELSE "retiring"
  OBVIOUS
<1>2. PICK u : u = LeavesStep(w, pc)  OBVIOUS
<1>3. pc \in {"between", "retiring"} /\ w \in Worlds  BY <1>1 DEF Good
<1>4. Good(u)  BY <1>2, <1>3, LeavesStepGood
<1>5. /\ u.inbox = w.inbox /\ u.driver = w.driver /\ u.agent.batch = <<>> /\ u.agent.pc = pc
  BY <1>2, <1>3 DEF LeavesStep, Worlds, Agents
<1>6. Lessens(u, w)  BY <1>3, <1>5, OutOfStep DEF Before, Turns
<1>7. Ordered(u, n)  BY <1>3, <1>6, LessensOrdered
<1>8. \/ v = u
      \/ v = [u EXCEPT !.driver.attempt.cancelled = TRUE]
      \/ v = Disarm(u)
  BY <1>1, <1>2 DEF EndsTurn, LeavesStep
<1>9. CASE v = [u EXCEPT !.driver.attempt.cancelled = TRUE]
  BY <1>4, <1>7, <1>9, CancelledOrdered
<1>10. CASE v = Disarm(u)  BY <1>4, <1>7, <1>10, DisarmGood, ScheduledOrder, SameOrdered
<1> QED  BY <1>7, <1>8, <1>9, <1>10

\* A message withdrawn from the queue leaves the others in their order.
LEMMA WithoutApart ==
  ASSUME NEW f \in Inboxes, NEW m, NEW b, Apart(f["next-turn"], b)
  PROVE  Apart(Without(f, m)["next-turn"], b)
<1> PICK q, p : q = f["next-turn"] /\ p = Without(f, m)["next-turn"]  OBVIOUS
<1>1. q \in Seq(Messages) /\ Len(q) \in Nat /\ DOMAIN q = 1..Len(q)
  BY LenProperties DEF Inboxes, Targets
<1>2. CASE Positions(q, m) = {}
  <2>1. p = q  BY <1>2 DEF Without, Targets
  <2> QED  BY <2>1
<1>3. CASE Positions(q, m) # {}
  <2>1. PICK i : i = CHOOSE x \in Positions(q, m) : TRUE  OBVIOUS
  <2>2. i \in 1..Len(q)  BY <1>3, <2>1 DEF Positions
  <2>3. p = Spliced(q, i - 1, 1, <<>>)  BY <1>3, <2>1 DEF Without, Targets
  <2>4. PICK x, y : x = SubSeq(q, 1, i - 1) /\ y = SubSeq(q, i + 1, Len(q))  OBVIOUS
  <2>5. i - 1 + 1 + 1 = i + 1  BY <1>1, <2>2
  <2>6. p = (x \o <<>>) \o y  BY <2>3, <2>4, <2>5 DEF Spliced
  <2>7. /\ x \in Seq(Messages) /\ Len(x) = i - 1 /\ \A j \in 1..i - 1 : x[j] = q[j]
    BY <1>1, <2>2, <2>4, SubSeqProperties, SubSeqEmpty, EmptySeq
  <2>8. /\ y \in Seq(Messages) /\ Len(y) = Len(q) - i
        /\ \A j \in 1..Len(q) - i : y[j] = q[i + j]
    BY <1>1, <2>2, <2>4, SubSeqProperties, SubSeqEmpty, EmptySeq
  <2>9. x \o <<>> = x  BY <2>7, ConcatEmptySeq
  <2>10. /\ p \in Seq(Messages) /\ Len(p) = Len(x) + Len(y)
         /\ \A j \in 1..Len(x) + Len(y) : p[j] = IF j <= Len(x) THEN x[j] ELSE y[j - Len(x)]
    <3>1. p = x \o y  BY <2>6, <2>9
    <3>2. x \in Seq(Messages) /\ y \in Seq(Messages)  BY <2>7, <2>8
    <3> QED  BY ONLY <3>1, <3>2, ConcatProperties
  <2>11. DOMAIN p = 1..Len(q) - 1  BY <1>1, <2>2, <2>7, <2>8, <2>10, LenProperties
  <2> DEFINE at(j) == IF j < i THEN j ELSE j + 1
  <2>12. ASSUME NEW j \in DOMAIN p PROVE at(j) \in DOMAIN q /\ p[j] = q[at(j)]
    <3>1. CASE j < i
      <4>1. at(j) = j /\ j \in 1..i - 1 /\ j <= Len(x)  BY <1>1, <2>2, <2>7, <2>11, <3>1
      <4>2. j \in DOMAIN q /\ j \in 1..Len(x) + Len(y)
        BY <1>1, <2>2, <2>7, <2>8, <2>11, <3>1
      <4>3. p[j] = x[j] /\ x[j] = q[j]  BY <2>7, <2>10, <4>1, <4>2
      <4> QED  BY <4>1, <4>2, <4>3
    <3>2. CASE ~(j < i)
      <4>1. /\ at(j) = j + 1 /\ j + 1 \in 1..Len(q) /\ ~(j <= Len(x))
            /\ j - Len(x) \in 1..Len(q) - i /\ i + (j - Len(x)) = j + 1
        BY <1>1, <2>2, <2>7, <2>11, <3>2
      <4>2. j \in 1..Len(x) + Len(y)  BY <1>1, <2>2, <2>7, <2>8, <2>11
      <4>3. PICK k : k = j - Len(x)  OBVIOUS
      <4>4. p[j] = y[k]  BY ONLY <2>10, <4>1, <4>2, <4>3
      <4>5. y[k] = q[i + k]  BY ONLY <2>8, <4>1, <4>3
      <4>6. i + k = j + 1  BY ONLY <4>1, <4>3
      <4> QED  BY ONLY <1>1, <4>1, <4>4, <4>5, <4>6
    <3> QED  BY <3>1, <3>2
  <2>13. ASSUME NEW j \in DOMAIN p, NEW k \in DOMAIN p, at(j) = at(k) PROVE j = k
    BY <1>1, <2>2, <2>11, <2>13
  <2> HIDE DEF at
  <2>14. Elements(p) \subseteq Elements(q)  BY <2>12 DEF Elements
  <2> QED  BY <2>12, <2>13, <2>14 DEF Apart
<1> QED  BY <1>2, <1>3

LEMMA StatusIdleOrdered ==
  ASSUME NEW n \in Nat, NEW w, Good(w), Ordered(w, n), NEW v, v = StatusIdle(w)
  PROVE  Ordered(v, n)
<1>1. w \in Worlds  BY DEF Good
<1>2. PICK a : a = w.driver.attempt  OBVIOUS
<1>3. PICK u : u = [w EXCEPT !.driver.competing = FALSE]  OBVIOUS
<1>4. PICK f : f = IF a.at = "queued" THEN Without(u.inbox, a.message) ELSE u.inbox  OBVIOUS
<1>5. PICK x : x = Settles(u, f)  OBVIOUS
<1>6. Eased(u, w) /\ u.inbox = w.inbox /\ SameOrder(u, w)
  BY <1>1, <1>3 DEF Worlds, Drivers, Eased, SameOrder, Turns
<1>7. Good(u) /\ Ordered(u, n)  BY <1>6, EasedGood, SameOrdered
<1>8. PICK h : h = u.inbox  OBVIOUS
<1>9. h \in Inboxes /\ Apart(h["next-turn"], u.agent.batch)
  BY <1>7, <1>8 DEF Good, Worlds, Ordered, Turns
<1>10. /\ f \in Inboxes /\ Elements(f["next-turn"]) \subseteq Elements(h["next-turn"])
       /\ Apart(f["next-turn"], u.agent.batch)
  <2>1. CASE a.at = "queued"
    <3>1. f = Without(h, a.message)  BY <1>4, <1>8, <2>1
    <3>2. f \in Inboxes /\ Elements(f["next-turn"]) \subseteq Elements(h["next-turn"])
      BY ONLY <1>9, <3>1, WithoutType
    <3>3. Apart(f["next-turn"], u.agent.batch)  BY ONLY <1>9, <3>1, WithoutApart
    <3> QED  BY <3>2, <3>3
  <2>2. CASE a.at # "queued"  BY <1>4, <1>8, <1>9, <2>2
  <2> QED  BY <2>1, <2>2
<1>11. Eased(x, u)  BY <1>5, <1>7, <1>8, <1>10, SettlesEased DEF Good
<1>12. Good(x)  BY <1>7, <1>11, EasedGood
<1>13. x.driver.attempt = NoAttempt /\ x.inbox = f /\ x.agent = u.agent
  BY <1>5, <1>7 DEF Settles, Good, Worlds, Drivers
<1>14. Ordered(x, n)  BY <1>10, <1>13, ForgottenOrdered DEF Turns
<1>15. \/ v = w
       \/ v = u
       \/ v = RequestDrive(Change(x, "pause", 0, FALSE)) /\ Aims(w, a.message)
       \/ v = RequestDrive(x)
       \/ v = RequestDrive(u)
  BY <1>2, <1>3, <1>4, <1>5 DEF StatusIdle, Settles
<1>16. CASE v = RequestDrive(x)  BY <1>12, <1>14, <1>16, RequestDriveOrdered
<1>17. CASE v = RequestDrive(u)  BY <1>7, <1>17, RequestDriveOrdered
<1>18. CASE v = RequestDrive(Change(x, "pause", 0, FALSE)) /\ Aims(w, a.message)
  <2>1. PICK y : y = Change(x, "pause", 0, FALSE)  OBVIOUS
  <2>2. x.goal = w.goal  BY <1>6, <1>11 DEF Eased
  <2>3. Admits(x.goal, "pause")  BY <1>18, <2>2 DEF Aims, Continues, Admits
  <2>4. "pause" \in Operations /\ 0 \in 0..MaxRounds  BY GoalRoundsConstants DEF Operations
  <2>5. Good(y) /\ Altered(y, x)  BY ONLY <1>12, <2>1, <2>3, <2>4, ChangeGood
  <2>6. Ordered(y, n)  BY <1>14, <2>5, ScheduledOrder, SameOrdered
  <2> QED  BY <1>18, <2>1, <2>5, <2>6, RequestDriveOrdered
<1> QED  BY <1>7, <1>15, <1>16, <1>17, <1>18

LEMMA RestoresOrder ==
  ASSUME NEW w \in Worlds, NEW s, NEW v, v = Restores(w, s)
  PROVE  SameOrder(v, w)
<1>1. PICK k : k = Kept(s, Others(s) \ Pending(w.inbox)) \o w.inbox["next-step"]  OBVIOUS
<1>2. v = [w EXCEPT !.inbox["next-step"] = k]  BY <1>1 DEF Restores
<1> QED  BY <1>2 DEF Worlds, Inboxes, Targets, SameOrder, Turns

LEMMA ForgetsOrdered ==
  ASSUME NEW n \in Nat, NEW w, Good(w), Ordered(w, n),
         NEW v, v = [w EXCEPT !.driver.attempt = NoAttempt]
  PROVE  Good(v) /\ Ordered(v, n) /\ v.agent = w.agent /\ v.driver.waker = w.driver.waker
<1>1. w \in Worlds  BY DEF Good
<1>2. Good(v)  BY <1>1, NoAttemptType, AttemptEased, EasedGood
<1>3. /\ v.inbox = w.inbox /\ v.agent = w.agent /\ v.driver.attempt = NoAttempt
      /\ v.driver.waker = w.driver.waker
  BY <1>1 DEF Worlds, Drivers
<1>4. Ordered(v, n)  BY <1>3, ForgottenOrdered DEF Ordered, Turns
<1> QED  BY <1>2, <1>3, <1>4

LEMMA RejectsOrdered ==
  ASSUME NEW n \in Nat, NEW w, Good(w), Ordered(w, n), w.agent.kind = "running", NEW message,
         NEW v, v = Rejects(w, message)
  PROVE  Ordered(v, n)
<1>1. w \in Worlds /\ w.agent.batch \in Seq(Messages)  BY DEF Good, Worlds, Agents
<1>2. PICK u : u = IF SameQueued(w, message) THEN [w EXCEPT !.driver.attempt = NoAttempt] ELSE w
  OBVIOUS
<1>3. PICK x : x = Restores(u, w.agent.batch)  OBVIOUS
<1>4. PICK y : y = RequestDrive(x)  OBVIOUS
<1>5. v = [y EXCEPT !.agent.pc = "rejected"]  BY <1>2, <1>3, <1>4 DEF Rejects
<1>6. Good(u) /\ Ordered(u, n)  BY <1>2, ForgetsOrdered
<1>7. u \in Worlds  BY <1>6 DEF Good
<1>8. PICK s : s = w.agent.batch  OBVIOUS
<1>9. s \in Seq(Messages) /\ x = Restores(u, s)  BY <1>1, <1>3, <1>8
<1>10. Eased(x, u) /\ SameOrder(x, u)  BY ONLY <1>7, <1>9, RestoresEased, RestoresOrder
<1>11. Good(x) /\ Ordered(x, n)  BY <1>6, <1>10, EasedGood, SameOrdered
<1>12. Good(y) /\ Ordered(y, n)  BY <1>4, <1>11, RequestDriveGood, RequestDriveOrdered
<1>13. "rejected" \notin Before /\ "rejected" # "preparing"  BY DEF Before
<1> QED  BY <1>5, <1>12, <1>13, MovesOrdered

-----------------------------------------------------------------------------
(* Each action keeps the order, of `n` messages that have been sent by then. *)

Held(n) ==
  Good(World) /\ UsedOK /\ n \in Nat /\ MaxSent - used.sent <= n /\ Ordered(World, n)

LEMMA Lands ==
  ASSUME NEW n, NEW v, Becomes(v), Ordered(v, n)
  PROVE  Ordered(World', n)
<1>1. SameOrder(World', v)  BY DEF Becomes, World, SameOrder, Turns
<1> QED  BY <1>1, SameOrdered

LEMMA LoopContinuesOrdered ==
  ASSUME NEW n, Held(n), NEW l \in driver.loops, LoopContinues(l)
  PROVE  Ordered(World', n)
<1>1. PICK w : w = World  OBVIOUS
<1>2. /\ n \in Nat /\ Good(w) /\ w \in Worlds /\ w.driver = driver /\ Ordered(w, n)
  BY <1>1, FieldsOfWorld DEF Held, Good
<1>3. l \in w.driver.loops /\ l \in Loops /\ l.at = "again"
  BY <1>2 DEF LoopContinues, Worlds, Drivers
<1>4. PICK id : id = l.id  OBVIOUS
<1>5. id \in LoopIds  BY <1>3, <1>4 DEF Loops
<1>6. \A m \in w.driver.loops : m.id = id => m.at # "flush"
  BY <1>2, <1>3, <1>4 DEF Good, Flushes, LoopsApart
<1>7. Settled(w, id)  BY <1>2, <1>6, OtherLoops
<1>8. PICK v : /\ v = IF driver.requested /\ driver.life = "loaded"
                      THEN Drive([w EXCEPT !.driver.requested = FALSE], id, FALSE)
                      ELSE LoopAt(w, id, "retire")
               /\ Becomes(v)
  BY <1>1, <1>4 DEF LoopContinues
<1>9. Ordered(v, n)
  <2>1. CASE driver.requested /\ driver.life = "loaded"
    <3>1. PICK u : u = [w EXCEPT !.driver.requested = FALSE]  OBVIOUS
    <3>2. /\ Scheduled(u, w) /\ u.driver.checkpoint = w.driver.checkpoint
          /\ u.driver.loops = w.driver.loops
      BY <1>2, <3>1 DEF Scheduled, Worlds, Drivers
    <3>3. Good(u) /\ Settled(u, id)  BY <1>2, <1>7, <3>2, NotedGood
    <3>4. Ordered(u, n)  BY <1>2, <3>2, ScheduledOrder, SameOrdered
    <3>5. v = Drive(u, id, FALSE)  BY <1>8, <2>1, <3>1
    <3> QED  BY <1>2, <1>5, <3>3, <3>4, <3>5, DriveOrdered
  <2>2. CASE ~(driver.requested /\ driver.life = "loaded")
    <3>1. v = LoopAt(w, id, "retire")  BY <1>8, <2>2
    <3> QED  BY <1>2, <1>5, <3>1, LoopAtFields, ScheduledOrder, SameOrdered
  <2> QED  BY <2>1, <2>2
<1> QED  BY <1>8, <1>9, Lands

LEMMA RetiresOrdered ==
  ASSUME NEW n, Held(n), NEW l \in driver.loops, Retires(l)
  PROVE  Ordered(World', n)
<1>1. PICK w : w = World  OBVIOUS
<1>2. n \in Nat /\ Good(w) /\ w.driver = driver /\ Ordered(w, n)
  BY <1>1, FieldsOfWorld DEF Held
<1>3. PICK u : u = [w EXCEPT !.driver.run = 0, !.driver.loops = @ \ {l}]  OBVIOUS
<1>4. l \in w.driver.loops /\ l.at # "flush"  BY <1>2 DEF Retires
<1>5. Good(u) /\ Scheduled(u, w)  BY <1>2, <1>3, <1>4, RetiredGood
<1>6. Ordered(u, n)  BY <1>2, <1>5, ScheduledOrder, SameOrdered
<1>7. PICK v : v = (IF u.driver.requested THEN RequestDrive(u) ELSE u) /\ Becomes(v)
  BY <1>1, <1>3 DEF Retires
<1>8. Ordered(v, n)  BY <1>2, <1>5, <1>6, <1>7, RequestDriveOrdered
<1> QED  BY <1>7, <1>8, Lands

LEMMA CheckpointSettlesOrdered ==
  ASSUME NEW n, Held(n), NEW l \in driver.loops, CheckpointSettles(l)
  PROVE  Ordered(World', n)
<1>1. PICK w : w = World  OBVIOUS
<1>2. /\ n \in Nat /\ Good(w) /\ w \in Worlds /\ w.driver = driver /\ w.past = past
      /\ Ordered(w, n)
  BY <1>1, FieldsOfWorld DEF Held, Good
<1>3. l \in w.driver.loops /\ l \in Loops  BY <1>2 DEF Worlds, Drivers
<1>4. PICK id : id = l.id  OBVIOUS
<1>5. id \in LoopIds  BY <1>3, <1>4 DEF Loops
<1>6. CASE LET u == [World EXCEPT !.past.saved = IF l.covers > @ THEN l.covers ELSE @]
           IN Becomes(IF ReadyAfterCheckpoint(u)
                      THEN DriveOn(u, l.id, FALSE) ELSE LoopAt(u, l.id, "again"))
  <2>1. PICK k : k = IF l.covers > w.past.saved THEN l.covers ELSE w.past.saved  OBVIOUS
  <2>2. PICK u : u = Saves(w, k)  OBVIOUS
  <2>3. PICK v : v = (IF ReadyAfterCheckpoint(u)
                      THEN DriveOn(u, id, FALSE) ELSE LoopAt(u, id, "again")) /\ Becomes(v)
    BY <1>1, <1>2, <1>4, <1>6, <2>1, <2>2 DEF Saves, Worlds, Pasts
  <2>4. /\ Good(u) /\ Settled(u, id) /\ u.agent = w.agent /\ u.inbox = w.inbox
        /\ u.driver = w.driver
    BY <1>2, <1>3, <1>4, <2>1, <2>2, SavesGood
  <2>5. SameOrder(u, w)  BY <2>4 DEF SameOrder, Turns
  <2>6. Ordered(u, n) /\ u \in Worlds  BY <1>2, <2>4, <2>5, SameOrdered DEF Good
  <2>7. CASE ReadyAfterCheckpoint(u)
    <3>1. u.driver.life = "loaded" /\ ~u.driver.checkpoint
      BY <2>7 DEF ReadyAfterCheckpoint, ReadyToDrive
    <3>2. v = DriveOn(u, id, FALSE)  BY <2>3, <2>7
    <3>3. Ordered(v, n)  BY <1>2, <1>5, <2>4, <2>6, <3>1, <3>2, DriveOnOrdered
    <3> QED  BY <2>3, <3>3, Lands
  <2>8. CASE ~ReadyAfterCheckpoint(u)
    <3>1. v = LoopAt(u, id, "again")  BY <2>3, <2>8
    <3>2. Ordered(v, n)  BY <1>5, <2>6, <3>1, LoopAtFields, ScheduledOrder, SameOrdered
    <3> QED  BY <2>3, <3>2, Lands
  <2> QED  BY <2>7, <2>8
<1>7. CASE Becomes(LoopAt(Disarm(World), l.id, "again"))
  <2>1. PICK u : u = Disarm(w)  OBVIOUS
  <2>2. Good(u) /\ Altered(u, w) /\ u \in Worlds  BY <1>2, <2>1, DisarmGood DEF Good
  <2>3. PICK v : v = LoopAt(u, id, "again") /\ Becomes(v)  BY <1>1, <1>4, <1>7, <2>1
  <2>4. Ordered(u, n)  BY <1>2, <2>2, ScheduledOrder, SameOrdered
  <2>5. Ordered(v, n)  BY <1>5, <2>2, <2>3, <2>4, LoopAtFields, ScheduledOrder, SameOrdered
  <2> QED  BY <2>3, <2>5, Lands
<1> QED  BY <1>6, <1>7 DEF CheckpointSettles

LEMMA WakeUpOrdered ==
  ASSUME NEW n, Held(n), WakeUp
  PROVE  Ordered(World', n)
<1>1. PICK w : w = World  OBVIOUS
<1>2. PICK u : u = Wakes(w, FALSE)  OBVIOUS
<1>3. Good(w) /\ Ordered(w, n) /\ UsedOK  BY <1>1 DEF Held
<1>4. Good(u) /\ Ordered(u, n)  BY <1>2, <1>3, WakesGood, WakesOrdered DEF Held
<1>5. PICK run : run = IF driver.waker.first THEN driver.waker.loop ELSE u.driver.run  OBVIOUS
<1>6. PICK v : v = [u EXCEPT !.driver.waker = NoWaker, !.driver.run = run] /\ Becomes(v)
  BY <1>1, <1>2, <1>5 DEF WakeUp
<1>7. SameOrder(v, u)  BY <1>4, <1>6 DEF Good, Worlds, Drivers, SameOrder, Turns
<1>8. Ordered(v, n)  BY <1>4, <1>7, SameOrdered
<1> QED  BY <1>6, <1>8, Lands

LEMMA FailsOrdered ==
  ASSUME NEW n, Held(n), agent.kind = "running", Fails
  PROVE  Ordered(World', n)
<1>1. PICK w : w = World  OBVIOUS
<1>2. n \in Nat /\ Good(w) /\ Ordered(w, n) /\ w.agent.kind = "running"
  BY <1>1, FieldsOfWorld DEF Held
<1>3. PICK ending, v : v = EndsTurn(w, ending) /\ Becomes(v)  BY <1>1 DEF Fails
<1>4. Ordered(v, n)  BY <1>2, <1>3, EndsTurnOrdered
<1> QED  BY <1>3, <1>4, Lands

LEMMA HeldRunning ==
  ASSUME NEW n, Held(n), agent.pc # "none"
  PROVE  agent.kind = "running"
BY FieldsOfWorld DEF Held, Good, Fenced, Stages

LEMMA NextTurnOrdered ==
  ASSUME NEW n, Held(n), NextTurn
  PROVE  Ordered(World', n)
<1>1. PICK w : w = World  OBVIOUS
<1>2. PICK v : v = OpensTurn(w) /\ Becomes(v)  BY <1>1 DEF NextTurn
<1>3. Ordered(v, n)  BY <1>1, <1>2, OpensTurnOrdered DEF Held
<1> QED  BY <1>2, <1>3, Lands

LEMMA RetireOrdered ==
  ASSUME NEW n, Held(n), Retire
  PROVE  Ordered(World', n)
<1>1. PICK w : w = World  OBVIOUS
<1>2. n \in Nat /\ Good(w) /\ Ordered(w, n)  BY <1>1 DEF Held
<1>3. PICK u : u = [w EXCEPT !.agent = Idle]  OBVIOUS
<1>4. Good(u) /\ Ordered(u, n)  BY <1>2, <1>3, IdleGood, StartingOrdered
<1>5. PICK x : x = StatusIdle(u)  OBVIOUS
<1>6. Good(x) /\ Ordered(x, n)  BY <1>2, <1>4, <1>5, StatusIdleGood, StatusIdleOrdered
<1>7. PICK v : /\ v = IF agent.latch /\ HasPending(x.inbox) /\ x.driver.waker = NoWaker
                      THEN Wakes(x, FALSE) ELSE x
               /\ Becomes(v)
  BY <1>1, <1>3, <1>5 DEF Retire
<1>8. Ordered(v, n)  BY <1>6, <1>7, WakesOrdered DEF Held
<1> QED  BY <1>7, <1>8, Lands

LEMMA AssembledOrdered ==
  ASSUME NEW n, Held(n), Assembled
  PROVE  Ordered(World', n)
<1>1. PICK w : w = World  OBVIOUS
<1>2. n \in Nat /\ Good(w) /\ Ordered(w, n) /\ w.agent = agent  BY <1>1, FieldsOfWorld DEF Held
<1>3. w.agent.kind = "running" /\ w.agent.pc = "assembling"
  BY <1>2, HeldRunning DEF Assembled
<1>4. w.agent.pc \in Before /\ "hooks" # "preparing"  BY <1>3 DEF Before
<1>5. CASE Becomes([World EXCEPT !.agent.pc = "hooks"])
  <2>1. PICK v : v = [w EXCEPT !.agent.pc = "hooks"] /\ Becomes(v)  BY <1>1, <1>5
  <2>2. Ordered(v, n)  BY <1>2, <1>4, <2>1, MovesOrdered
  <2> QED  BY <2>1, <2>2, Lands
<1>6. CASE Becomes([World EXCEPT !.agent.pc = "hooks", !.agent.guarded = TRUE])
  <2>1. PICK u : u = Guards(w)  OBVIOUS
  <2>2. /\ Good(u) /\ u.driver = w.driver /\ u.inbox = w.inbox /\ u.agent.pc = w.agent.pc
        /\ u.agent.batch = w.agent.batch
    BY <1>2, <2>1, GuardsGood
  <2>3. SameOrder(u, w)  BY <2>2 DEF SameOrder, Turns
  <2>4. Ordered(u, n)  BY <1>2, <2>3, SameOrdered
  <2>5. PICK v : v = [u EXCEPT !.agent.pc = "hooks"]  OBVIOUS
  <2>6. Ordered(v, n)  BY <1>2, <1>4, <2>2, <2>4, <2>5, MovesOrdered
  <2>7. v = [w EXCEPT !.agent.pc = "hooks", !.agent.guarded = TRUE]
    BY <1>2, <2>1, <2>5 DEF Guards, Good, Worlds, Agents
  <2>8. Becomes(v)  BY <1>1, <1>6, <2>7
  <2> QED  BY <2>6, <2>8, Lands
<1>7. CASE Becomes(Rejects(World, Submitted))
  <2>1. PICK v : v = Rejects(w, Submitted) /\ Becomes(v)  BY <1>1, <1>7
  <2>2. Ordered(v, n)  BY <1>2, <1>3, <2>1, RejectsOrdered
  <2> QED  BY <2>1, <2>2, Lands
<1> QED  BY <1>5, <1>6, <1>7 DEF Assembled

LEMMA KeptAmong ==
  ASSUME NEW s \in Seq(Messages)
  PROVE  Elements(Kept(s, Others(s))) \subseteq Elements(s)
<1>1. PICK R : R = Others(s)  OBVIOUS
<1>2. Kept(s, R) \in Seq(R)  BY KeptType
<1>3. Elements(Kept(s, R)) \subseteq R  BY <1>2, ElementsType
<1> QED  BY <1>1, <1>3 DEF Others

\* The listeners let a part of the batch through.
LEMMA TakesOverOrdered ==
  ASSUME NEW n \in Nat, NEW w, Good(w), Ordered(w, n), NEW b,
         Elements(b) \subseteq Elements(w.agent.batch), w.agent.pc = "hooks",
         NEW v, v = TakesOver(w, b)
  PROVE  Ordered(v, n)
<1>1. w \in Worlds  BY DEF Good
<1>2. /\ v.inbox = w.inbox /\ v.driver = w.driver /\ v.agent.pc = w.agent.pc
      /\ v.agent.batch = b
  BY <1>1 DEF TakesOver, Worlds, Agents
<1>3. Lessens(v, w)  BY <1>2 DEF Lessens, Turns
<1> QED  BY <1>1, <1>3, LessensOrdered

LEMMA HooksEnterOrdered ==
  ASSUME NEW n, Held(n), HooksEnter
  PROVE  Ordered(World', n)
<1>1. PICK o : o = World  OBVIOUS
<1>2. /\ n \in Nat /\ Good(o) /\ Ordered(o, n) /\ o.agent = agent /\ o.driver = driver
  BY <1>1, FieldsOfWorld DEF Held
<1>3. o.agent.kind = "running" /\ o.agent.pc = "hooks"  BY <1>2, HeldRunning DEF HooksEnter
<1>4. agent.batch \in Seq(Messages)  BY <1>2 DEF Good, Worlds, Agents
<1> DEFINE Goes(w, b) ==
             IF agent.abort
             THEN EndsTurn(IF agent.guarded THEN Restores(w, b) ELSE w, "aborted")
             ELSE IF agent.guarded /\ ~ValidReservation(w, Submitted)
             THEN Rejects([w EXCEPT !.driver.attempt = NoAttempt], Submitted)
             ELSE [w EXCEPT !.agent.pc = "preparing"]
<1>5. PICK b : /\ b \in {agent.batch, IF agent.guarded THEN Kept(agent.batch, Others(agent.batch))
                                      ELSE agent.batch}
               /\ Becomes(Goes([World EXCEPT !.agent.batch = b], b))
  <2>1. \E b \in {agent.batch, IF agent.guarded THEN Kept(agent.batch, Others(agent.batch))
                               ELSE agent.batch} :
           Becomes(Goes([World EXCEPT !.agent.batch = b], b))
    BY ONLY HooksEnter, Zenon DEF HooksEnter
  <2> QED  BY ONLY <2>1
<1>6. PICK w : w = TakesOver(o, b)  OBVIOUS
<1>7. PICK v : v = Goes(w, b)  OBVIOUS
<1>8. v = Goes(w, b) /\ w = TakesOver(o, b) /\ Becomes(v)
  <2> HIDE DEF Goes
  <2>1. w = [World EXCEPT !.agent.batch = b]  BY <1>1, <1>6 DEF TakesOver
  <2> QED  BY <1>5, <1>6, <1>7, <2>1
<1>9. /\ b \in Seq(Messages) /\ (b = o.agent.batch \/ ~HasRound(b))
      /\ Elements(b) \subseteq Elements(o.agent.batch)
  BY <1>2, <1>4, <1>5, OthersRoundless, KeptAmong
<1>10. /\ Good(w) /\ w.driver = o.driver /\ w.agent.kind = "running" /\ w.agent.batch = b
       /\ w.agent.pc = "hooks" /\ w.agent.guarded = agent.guarded
  BY <1>2, <1>3, <1>8, <1>9, TakesOverGood
<1>11. w \in Worlds  BY <1>10 DEF Good
<1>12. Ordered(w, n)  BY <1>2, <1>3, <1>8, <1>9, TakesOverOrdered
<1>13. Ordered(v, n)
  <2>1. CASE agent.abort
    <3>1. PICK u : u = IF agent.guarded THEN Restores(w, b) ELSE w  OBVIOUS
    <3>2. Eased(u, w) /\ SameOrder(u, w)
      <4>1. CASE u = w  BY <1>11, <4>1 DEF Eased, SameOrder
      <4>2. CASE u = Restores(w, b)  BY <1>9, <1>11, <4>2, RestoresEased, RestoresOrder
      <4> QED  BY <3>1, <4>1, <4>2
    <3>3. Good(u) /\ Ordered(u, n)  BY <1>10, <1>12, <3>2, EasedGood, SameOrdered
    <3>4. u.agent.kind = "running"  BY <1>10, <3>2 DEF Eased
    <3>5. v = EndsTurn(u, "aborted")  BY <1>8, <2>1, <3>1
    <3> QED  BY <1>2, <3>3, <3>4, <3>5, EndsTurnOrdered
  <2>2. CASE ~agent.abort /\ agent.guarded /\ ~ValidReservation(w, Submitted)
    <3>1. PICK u : u = [w EXCEPT !.driver.attempt = NoAttempt]  OBVIOUS
    <3>2. Good(u) /\ Ordered(u, n) /\ u.agent.kind = "running"
      BY <1>2, <1>10, <1>12, <3>1, ForgetsOrdered
    <3>3. v = Rejects(u, Submitted)  BY <1>8, <2>2, <3>1
    <3> QED  BY <1>2, <3>2, <3>3, RejectsOrdered
  <2>3. CASE ~agent.abort /\ ~(agent.guarded /\ ~ValidReservation(w, Submitted))
    <3>1. PICK a : a = w.driver.attempt  OBVIOUS
    <3>2. a.at = "claimed" /\ a.message \in Elements(b) => ~a.stale
      <4>1. SUFFICES ASSUME a.at = "claimed", a.message \in Elements(b)  PROVE  ~a.stale
        OBVIOUS
      <4>2. IsRound(a.message)
        BY <1>11, <3>1 DEF Worlds, Drivers, Attempts, RoundMessages, IsRound
      <4>3. HasRound(b)  BY <4>1, <4>2 DEF HasRound, Elements
      <4>4. w.driver.life # "gone"  BY <1>12, <3>1, <4>1 DEF Ordered, Phases
      <4>5. w.agent.guarded  BY <1>10, <4>3, <4>4 DEF Good, Fenced, Fences
      <4> QED  BY <1>10, <2>3, <3>1, <4>5 DEF ValidReservation
    <3>3. v = [w EXCEPT !.agent.pc = "preparing"]  BY <1>8, <2>3
    <3>4. w.agent.pc \in Before  BY <1>10 DEF Before
    <3> QED  BY <1>2, <1>10, <1>12, <3>1, <3>2, <3>3, <3>4, MovesOrdered
  <2> QED  BY <2>1, <2>2, <2>3
<1> QED  BY <1>8, <1>13, Lands

LEMMA HooksRejectOrdered ==
  ASSUME NEW n, Held(n), HooksReject
  PROVE  Ordered(World', n)
<1>1. PICK o : o = World  OBVIOUS
<1>2. n \in Nat /\ Good(o) /\ Ordered(o, n) /\ o.agent = agent /\ o.driver = driver
  BY <1>1, FieldsOfWorld DEF Held
<1>3. o.agent.kind = "running"  BY <1>2, HeldRunning DEF HooksReject
<1>4. PICK w : w = [o EXCEPT !.agent.pc = "rejected"]  OBVIOUS
<1>5. "rejected" \in InStep /\ "rejected" \notin Before /\ "rejected" # "preparing"
  BY DEF InStep, Before
<1>6. Good(w) /\ Ordered(w, n)  BY <1>2, <1>3, <1>4, <1>5, MovesGood, MovesOrdered
<1>7. PICK u : u = [w EXCEPT !.driver.attempt = NoAttempt]  OBVIOUS
<1>8. Good(u) /\ Ordered(u, n)  BY <1>2, <1>6, <1>7, ForgetsOrdered
<1>9. PICK v : v = IF ~agent.guarded THEN w
                   ELSE IF Aims(u, Submitted) THEN Change(u, "block", 0, FALSE) ELSE u
  OBVIOUS
<1>10. u = [[World EXCEPT !.agent.pc = "rejected"] EXCEPT !.driver.attempt = NoAttempt]
  BY <1>1, <1>4, <1>7
<1>11. Becomes(v)  BY ONLY <1>1, <1>4, <1>9, <1>10, HooksReject DEF HooksReject
<1>12. CASE v = Change(u, "block", 0, FALSE) /\ Aims(u, Submitted)
  <2>1. Admits(u.goal, "block")  BY <1>12 DEF Aims, Continues, Admits
  <2>2. "block" \in Operations /\ 0 \in 0..MaxRounds  BY GoalRoundsConstants DEF Operations
  <2>3. Altered(v, u)  BY <1>8, <1>12, <2>1, <2>2, ChangeGood
  <2>4. Ordered(v, n)  BY <1>8, <2>3, ScheduledOrder, SameOrdered
  <2> QED  BY <1>11, <2>4, Lands
<1> QED  BY <1>6, <1>8, <1>9, <1>11, <1>12, Lands

LEMMA HooksFailOrdered ==
  ASSUME NEW n, Held(n), HooksFail
  PROVE  Ordered(World', n)
<1>1. PICK w : w = World  OBVIOUS
<1>2. n \in Nat /\ Good(w) /\ Ordered(w, n) /\ w.agent = agent  BY <1>1, FieldsOfWorld DEF Held
<1>3. w.agent.kind = "running"  BY <1>2, HeldRunning DEF HooksFail
<1>4. CASE Becomes(EndsTurn(RequestDrive([World EXCEPT !.driver.attempt = NoAttempt]), "error"))
  <2>1. PICK u : u = [w EXCEPT !.driver.attempt = NoAttempt]  OBVIOUS
  <2>2. Good(u) /\ Ordered(u, n) /\ u.agent = w.agent  BY <1>2, <2>1, ForgetsOrdered
  <2>3. PICK x : x = RequestDrive(u)  OBVIOUS
  <2>4. Good(x) /\ Ordered(x, n)  BY <1>2, <2>2, <2>3, RequestDriveGood, RequestDriveOrdered
  <2>5. x.agent.kind = "running"  BY <1>3, <2>2, <2>3, RequestDriveGood DEF Driven
  <2>6. PICK v : v = EndsTurn(x, "error") /\ Becomes(v)  BY <1>1, <1>4, <2>1, <2>3
  <2>7. Ordered(v, n)  BY <1>2, <2>4, <2>5, <2>6, EndsTurnOrdered
  <2> QED  BY <2>6, <2>7, Lands
<1>5. CASE Fails  BY <1>2, <1>3, <1>5, FailsOrdered
<1> QED  BY <1>4, <1>5 DEF HooksFail

LEMMA RejectedOrdered ==
  ASSUME NEW n, Held(n), Rejected
  PROVE  Ordered(World', n)
<1>1. PICK w : w = World  OBVIOUS
<1>2. n \in Nat /\ Good(w) /\ Ordered(w, n) /\ w.agent = agent  BY <1>1, FieldsOfWorld DEF Held
<1>3. w.agent.kind = "running"  BY <1>2, HeldRunning DEF Rejected
<1>4. PICK ending : ending = IF agent.abort THEN "aborted" ELSE "blocked"  OBVIOUS
<1>5. PICK v : v = EndsTurn(w, ending) /\ Becomes(v)  BY <1>1, <1>4 DEF Rejected
<1>6. Ordered(v, n)  BY <1>2, <1>3, <1>5, EndsTurnOrdered
<1> QED  BY <1>5, <1>6, Lands

\* What is behind its log is no longer in the queue.
LEMMA AdmittedOrdered ==
  ASSUME NEW n \in Nat, NEW w, Good(w), Ordered(w, n), w.driver.life # "gone",
         w.agent.pc = "streaming", w.driver.attempt.message \in Elements(w.agent.batch),
         NEW v, v = [w EXCEPT !.driver.attempt.at = "admitted"]
  PROVE  Ordered(v, n)
<1>1. w \in Worlds  BY DEF Good
<1>2. PICK a : a = w.driver.attempt  OBVIOUS
<1>3. PICK z : z = [a EXCEPT !.at = "admitted"]  OBVIOUS
<1>4. a \in Attempts  BY <1>1, <1>2 DEF Worlds, Drivers
<1>5. z.at = "admitted" /\ z.message = a.message /\ z.sent = a.sent
  BY <1>3, <1>4 DEF Attempts
<1>6. v = [w EXCEPT !.driver.attempt = z]  BY <1>2, <1>3
<1>7. /\ v.inbox = w.inbox /\ v.agent = w.agent /\ v.driver.life = w.driver.life
      /\ v.driver.attempt = z
  BY <1>1, <1>6 DEF Worlds, Drivers
<1>8. IsRound(a.message)  BY <1>4 DEF Attempts, RoundMessages, IsRound
<1>9. a.message \notin Elements(Turns(w))
  BY <1>2, <1>8 DEF Ordered, Apart, Elements
<1>10. Phases(Turns(w), w.agent.batch, w.agent.pc, w.driver.life, z)
  BY <1>5, <1>9 DEF Phases, Before
<1>11. Waits(Turns(w), w.agent.batch, w.agent.pc, z, n)
  BY <1>2, <1>5 DEF Ordered, Waits
<1> QED  BY <1>7, <1>10, <1>11 DEF Ordered, Turns

LEMMA PreparedOrdered ==
  ASSUME NEW n, Held(n), Prepared
  PROVE  Ordered(World', n)
<1>1. PICK o : o = World  OBVIOUS
<1>2. n \in Nat /\ Good(o) /\ Ordered(o, n) /\ o.agent = agent /\ o.driver = driver
  BY <1>1, FieldsOfWorld DEF Held
<1>3. o.agent.kind = "running" /\ o.agent.pc = "preparing"  BY <1>2, HeldRunning DEF Prepared
<1>4. PICK w : w = [o EXCEPT !.agent.pc = "streaming"]  OBVIOUS
<1>5. "streaming" \in InStep /\ "streaming" \notin Before /\ "streaming" # "preparing"
  BY DEF InStep, Before
<1>6. /\ Good(w) /\ w.driver = o.driver /\ w.past = o.past /\ w.goal = o.goal
      /\ w.agent.pc = "streaming" /\ w.agent.batch = agent.batch
  BY <1>2, <1>3, <1>4, <1>5, MovesGood DEF Good, Worlds, Agents
<1>7. Ordered(w, n)  BY <1>2, <1>4, <1>5, MovesOrdered
<1>8. PICK m : m = Submitted  OBVIOUS
<1>9. PICK u : u = Counts(w, m)  OBVIOUS
<1>10. u = [w EXCEPT !.goal = RoundLogged(@, Submitted.ref, Submitted.round)]
  BY <1>8, <1>9 DEF Counts
<1>11. PICK e : e = EndsTurn(o, "completed")  OBVIOUS
<1>12. PICK v :
         /\ \/ v = [e EXCEPT !.agent.pc = "retiring"]
            \/ v = w
            \/ /\ HasRound(agent.batch)
               /\ \/ v = u
                  \/ /\ v = [u EXCEPT !.driver.attempt.at = "admitted"]
                     /\ Listens(w) /\ SameQueued(w, m) /\ m.id = driver.attempt.message.id
         /\ Becomes(v)
  <2>1. PICK v :
          /\ v = IF agent.batch = <<>>
                 THEN [EndsTurn(o, "completed") EXCEPT !.agent.pc = "retiring"]
                 ELSE IF ~HasRound(agent.batch) THEN w
                 ELSE IF Listens(w) /\ SameQueued(w, Submitted)
                         /\ Submitted.id = driver.attempt.message.id
                 THEN [u EXCEPT !.driver.attempt.at = "admitted"]
                 ELSE u
          /\ Becomes(v)
    BY ONLY <1>1, <1>4, <1>10, Prepared DEF Prepared
  <2> QED  BY <1>8, <1>11, <2>1
<1>13. CASE v = [e EXCEPT !.agent.pc = "retiring"]
  <2>1. Good(e) /\ Ordered(e, n)  BY <1>2, <1>3, <1>11, EndsTurnGood, EndsTurnOrdered
  <2>2. "retiring" \notin Before /\ "retiring" # "preparing"  BY DEF Before
  <2>3. Ordered(v, n)  BY <1>2, <1>13, <2>1, <2>2, MovesOrdered
  <2> QED  BY <1>12, <2>3, Lands
<1>14. CASE v = w  BY <1>7, <1>12, <1>14, Lands
<1>15. CASE /\ HasRound(agent.batch)
            /\ \/ v = u
               \/ /\ v = [u EXCEPT !.driver.attempt.at = "admitted"]
                  /\ Listens(w) /\ SameQueued(w, m) /\ m.id = driver.attempt.message.id
  <2>1. o.agent.batch \in Seq(Messages) /\ OneRound(o.agent.batch)
    BY <1>2 DEF Good, Fenced, Worlds, Agents
  <2>2. m = FirstRound(o.agent.batch)  BY <1>2, <1>8 DEF Submitted
  <2>3. m \in Elements(agent.batch) /\ IsRound(m) /\ m \in Messages
    BY <1>2, <1>15, <2>1, <2>2, FirstRoundIn
  <2>4. ~Excused(w) => FoldsRound(w.goal, m.ref, m.round)
    BY <1>2, <1>3, <1>6, <1>15, <2>2 DEF Good, Fenced, Fences, Excused
  <2>5. Good(u) /\ u.driver = w.driver  BY <1>6, <1>9, <2>3, <2>4, CountsGood
  <2>6. w \in Worlds  BY <1>6 DEF Good
  <2>7. u.agent = w.agent /\ u.inbox = w.inbox  BY <1>9, <2>6 DEF Counts, Worlds
  <2>8. SameOrder(u, w)  BY <2>5, <2>7 DEF SameOrder, Turns
  <2>9. Ordered(u, n)  BY <1>7, <2>8, SameOrdered
  <2>10. CASE v = u  BY <1>12, <2>9, <2>10, Lands
  <2>11. CASE /\ v = [u EXCEPT !.driver.attempt.at = "admitted"]
              /\ Listens(w) /\ SameQueued(w, m) /\ m.id = driver.attempt.message.id
    <3>1. PICK a : a = w.driver.attempt  OBVIOUS
    <3>2. a.message \in RoundMessages  BY <2>6, <3>1 DEF Worlds, Drivers, Attempts
    <3>3. m \in RoundMessages  BY <2>3 DEF IsRound, Messages, Sents
    <3>4. m.id = a.message.id /\ m.ref = a.message.ref /\ m.round = a.message.round
      BY <1>2, <1>6, <2>11, <3>1 DEF SameQueued
    <3>5. m = a.message  BY <3>2, <3>3, <3>4 DEF RoundMessages
    <3>6. /\ u.driver.life # "gone" /\ u.agent.pc = "streaming"
          /\ u.driver.attempt.message \in Elements(u.agent.batch)
      BY <1>6, <2>3, <2>5, <2>7, <2>11, <3>1, <3>5 DEF Listens
    <3>7. Ordered(v, n)  BY <1>2, <2>5, <2>9, <2>11, <3>6, AdmittedOrdered
    <3> QED  BY <1>12, <3>7, Lands
  <2> QED  BY <1>15, <2>10, <2>11
<1> QED  BY <1>12, <1>13, <1>14, <1>15

LEMMA StreamedOrdered ==
  ASSUME NEW n, Held(n), Streamed
  PROVE  Ordered(World', n)
<1>1. PICK w : w = World  OBVIOUS
<1>2. /\ n \in Nat /\ Good(w) /\ Ordered(w, n) /\ w.agent = agent /\ UsedOK
      /\ MaxSent - used.sent <= n
  BY <1>1, FieldsOfWorld DEF Held
<1>3. w.agent.kind = "running" /\ w \in Worlds  BY <1>2, HeldRunning DEF Streamed, Good
<1>4. PICK v : /\ v \in {Claims(w, "next-step"), EndsTurn(w, "completed"),
                         EndsTurn(w, "max-tokens")}
               /\ Becomes(v)
  BY <1>1 DEF Streamed
<1>5. Ordered(v, n)
  <2>1. CASE v = Claims(w, "next-step")
    <3>1. "next-step" \in Targets  BY DEF Targets
    <3> QED  BY ONLY <1>2, <1>3, <2>1, <3>1, ClaimsOrdered
  <2>2. CASE \E ending : v = EndsTurn(w, ending)
    BY <1>2, <1>3, <2>2, EndsTurnOrdered
  <2> QED  BY <1>4, <2>1, <2>2
<1> QED  BY <1>4, <1>5, Lands

\* A prompt is the youngest message of all, and is heard.
LEMMA JoinsOrdered ==
  ASSUME NEW n \in Nat, NEW w, Good(w), Ordered(w, n), NEW m \in Sents, m.id = n + 1,
         NEW u, u = Joins(w, Inserted(w.inbox, "next-turn", m)),
         NEW x, x = IF Listens(u) THEN Heard(u) ELSE u
  PROVE  Ordered(x, n + 1)
<1>1. w \in Worlds /\ m \in Messages /\ ~IsRound(m)  BY DEF Good, Messages, Sents, IsRound
<1>2. PICK f : f = w.inbox  OBVIOUS
<1>3. f \in Inboxes /\ f \in [Targets -> Seq(Messages)]  BY <1>1, <1>2 DEF Worlds, Inboxes
<1>4. PICK q, p, b, a, z : /\ q = f["next-turn"] /\ p = Append(q, m) /\ b = w.agent.batch
                           /\ a = w.driver.attempt /\ z = x.driver.attempt
  OBVIOUS
<1>5. q \in Seq(Messages) /\ a \in Attempts
  BY <1>1, <1>3, <1>4 DEF Targets, Worlds, Drivers
<1>6. /\ u.inbox["next-turn"] = p /\ u.agent = w.agent /\ u.driver = w.driver
  BY <1>1, <1>2, <1>3, <1>4 DEF Joins, Inserted, Targets, Worlds
<1>7. u \in Worlds  BY JoinsGood DEF Targets, Good
<1>8. /\ x.inbox = u.inbox /\ x.agent = u.agent /\ x.driver.life = u.driver.life
      /\ z.at = a.at /\ z.message = a.message /\ z.sent = a.sent
      /\ z.stale = (a.stale \/ (a.at = "queued" /\ Listens(u)))
  <2>1. CASE Listens(u)
    <3>1. PICK y : y = (a.stale \/ a.at = "queued")  OBVIOUS
    <3>2. PICK c : c = [a EXCEPT !.stale = y]  OBVIOUS
    <3>3. /\ c.at = a.at /\ c.message = a.message /\ c.sent = a.sent /\ c.stale = y
      BY <1>5, <3>2 DEF Attempts
    <3>4. PICK o : o = [u EXCEPT !.driver.competing = TRUE]  OBVIOUS
    <3>5. /\ o.inbox = u.inbox /\ o.agent = u.agent /\ o.driver.life = u.driver.life
          /\ o.driver.attempt = a /\ o \in Worlds
      BY <1>4, <1>6, <1>7, <3>4 DEF Worlds, Drivers
    <3>6. x = [o EXCEPT !.driver.attempt = c]
      BY <1>4, <1>6, <1>7, <2>1, <3>1, <3>2, <3>4, <3>5 DEF Heard, Worlds, Drivers
    <3>7. /\ x.inbox = o.inbox /\ x.agent = o.agent /\ x.driver.life = o.driver.life
          /\ x.driver.attempt = c
      BY <3>5, <3>6 DEF Worlds, Drivers
    <3> QED  BY <1>4, <2>1, <3>1, <3>3, <3>5, <3>7
  <2>2. CASE ~Listens(u)
    <3>1. x = u /\ z = a  BY <1>4, <1>6, <2>2
    <3>2. a.stale \in BOOLEAN  BY <1>5 DEF Attempts
    <3> QED  BY <2>2, <3>1, <3>2
  <2> QED  BY <2>1, <2>2
<1>9. /\ Apart(q, b) /\ Phases(q, b, w.agent.pc, w.driver.life, a)
      /\ Waits(q, b, w.agent.pc, a, n)
  BY <1>2, <1>4 DEF Ordered, Turns
<1>10. Apart(p, b)  BY ONLY <1>1, <1>4, <1>5, <1>9, AppendedApart
<1>11. Extends(p, q, m)  BY ONLY <1>1, <1>4, <1>5, Appended
<1>12. IsRound(a.message) /\ a.message # m
  BY <1>1, <1>5 DEF Attempts, RoundMessages, IsRound
<1>13. Phases(p, b, w.agent.pc, w.driver.life, z)
  BY <1>8, <1>9, <1>11, <1>12 DEF Phases, Extends
<1>14. a.sent \in Nat /\ a.sent <= n  BY <1>5, <1>9 DEF Attempts, Waits
<1>15. ASSUME NEW from, Younger(q, from, a.sent)  PROVE  Younger(p, from, a.sent)
  <2>1. SUFFICES ASSUME NEW i \in DOMAIN p, i > from, p[i].kind = "sent"
                 PROVE  p[i].id > a.sent
    BY DEF Younger
  <2>2. CASE i \in DOMAIN q  BY <1>11, <1>15, <2>1, <2>2 DEF Extends, Younger
  <2>3. CASE i = Len(q) + 1
    <3>1. p[i].id = n + 1  BY <1>11, <2>3 DEF Extends
    <3> QED  BY <1>14, <3>1
  <2> QED  BY <1>11, <2>2, <2>3 DEF Extends
<1>16. Waits(p, b, w.agent.pc, z, n + 1)
  <2>1. z.sent <= n + 1  BY <1>8, <1>14
  <2>2. z.at = "queued" => z.stale
    BY <1>6, <1>8, <1>9 DEF Phases, Listens
  <2>3. ASSUME z.at = "claimed", ~z.stale, NEW i \in DOMAIN p, p[i] = z.message
        PROVE  Younger(p, i, z.sent)
    <3>1. i \in DOMAIN q /\ q[i] = a.message  BY <1>8, <1>11, <1>12, <2>3 DEF Extends
    <3>2. Younger(q, i, a.sent)  BY <1>8, <1>9, <2>3, <3>1 DEF Waits
    <3> QED  BY <1>8, <1>15, <3>2
  <2>4. ASSUME z.at = "claimed", z.message \in Elements(b),
               ~z.stale \/ w.agent.pc = "preparing"
        PROVE  Younger(p, 0, z.sent)
    <3>1. Younger(q, 0, a.sent)  BY <1>8, <1>9, <2>4 DEF Waits
    <3> QED  BY <1>8, <1>15, <3>1
  <2> QED  BY <2>1, <2>2, <2>3, <2>4 DEF Waits
<1> QED  BY <1>4, <1>6, <1>8, <1>10, <1>13, <1>16 DEF Ordered, Turns

LEMMA PromptOrdered ==
  ASSUME Good(World), UsedOK, Ordered(World, MaxSent - used.sent), Prompt
  PROVE  Ordered(World', MaxSent - used.sent + 1)
<1>1. PICK w : w = World  OBVIOUS
<1>2. PICK n : n = MaxSent - used.sent  OBVIOUS
<1>3. n \in Nat /\ n + 1 \in Nat /\ MaxSent - used.sent <= n + 1
  BY <1>2, GoalRoundsConstants DEF UsedOK
<1>4. PICK m : m = Sent(n + 1)  OBVIOUS
<1>5. m \in Sents /\ m.id = n + 1
  BY <1>2, <1>4, SentNext DEF Prompt, Use, Sent
<1>6. PICK u : u = Joins(w, Inserted(w.inbox, "next-turn", m))  OBVIOUS
<1>7. Good(w) /\ Ordered(w, n)  BY <1>1, <1>2
<1>8. Good(u)  BY <1>5, <1>6, <1>7, JoinsGood DEF Targets
<1>9. u = [World EXCEPT !.inbox = Inserted(@, "next-turn", Sent(MaxSent - used.sent + 1))]
  BY <1>1, <1>2, <1>4, <1>6 DEF Joins
<1>10. PICK x : x = IF Listens(u) THEN Heard(u) ELSE u  OBVIOUS
<1>11. Eased(x, u)
  <2>1. u \in Worlds  BY <1>8 DEF Good
  <2>2. Eased(u, u)  BY <2>1 DEF Eased
  <2> QED  BY <1>10, <2>1, <2>2, HeardEased
<1>12. Good(x)  BY <1>8, <1>11, EasedGood
<1>13. Ordered(x, n + 1)  BY <1>3, <1>5, <1>6, <1>7, <1>10, JoinsOrdered
<1>14. PICK b, v : v = Wakes(x, b) /\ Becomes(v)
  <2>1. Becomes(Wakes(x, agent.kind # "idle" /\ agent.abort))
    BY ONLY <1>9, <1>10, Prompt DEF Prompt
  <2> QED  BY ONLY <2>1
<1>15. Ordered(v, n + 1)  BY <1>3, <1>12, <1>13, <1>14, WakesOrdered
<1> QED  BY <1>2, <1>14, <1>15, Lands

LEMMA NoticeOrdered ==
  ASSUME NEW n, Held(n), Notice
  PROVE  Ordered(World', n)
<1>1. PICK w : w = World  OBVIOUS
<1>2. Good(w) /\ Ordered(w, n) /\ w \in Worlds  BY <1>1 DEF Held, Good
<1>3. PICK v : /\ v = Joins(w, Inserted(w.inbox, "next-step", Sent(MaxSent - used.sent + 1)))
               /\ Becomes(v)
  BY <1>1 DEF Notice, Joins
<1>4. SameOrder(v, w)
  BY <1>2, <1>3 DEF Joins, Inserted, Worlds, Inboxes, Targets, SameOrder, Turns
<1>5. Ordered(v, n)  BY <1>2, <1>4, SameOrdered
<1> QED  BY <1>3, <1>5, Lands

LEMMA OperateOrdered ==
  ASSUME NEW n, Held(n), NEW op \in Operations, NEW limit \in 1..MaxRounds,
         NEW byModel \in BOOLEAN, Operate(op, limit, byModel)
  PROVE  Ordered(World', n)
<1>1. PICK w : w = World  OBVIOUS
<1>2. Good(w) /\ Ordered(w, n) /\ w.goal = goal  BY <1>1, FieldsOfWorld DEF Held
<1>3. PICK v : v = Change(w, op, limit, byModel) /\ Becomes(v)  BY <1>1 DEF Operate
<1>4. limit \in 0..MaxRounds  BY GoalRoundsConstants
<1>5. Altered(v, w)  BY <1>2, <1>3, <1>4, ChangeGood DEF Operate
<1>6. Ordered(v, n)  BY <1>2, <1>5, ScheduledOrder, SameOrdered
<1> QED  BY <1>3, <1>6, Lands

\* A cancellation empties the queue, and the step goes on to its end.
LEMMA CancelsFields ==
  ASSUME NEW w \in Worlds, NEW v, v = Cancels(w)
  PROVE  /\ v \in Worlds /\ Turns(v) = <<>> /\ v.driver.life = w.driver.life
         /\ v.agent.batch = w.agent.batch /\ v.agent.pc = w.agent.pc
         /\ v.driver.attempt.at = w.driver.attempt.at
         /\ v.driver.attempt.message = w.driver.attempt.message
         /\ v.driver.attempt.stale = w.driver.attempt.stale
         /\ v.driver.attempt.sent = w.driver.attempt.sent
<1>1. PICK c, b, e :
        /\ c = (w.driver.attempt.cancelled
                \/ (Listens(w) /\ \E t \in Targets : AttemptedIn(w, w.inbox[t])))
        /\ b = (w.agent.kind # "idle") /\ e = (w.past.dropped \/ w.agent.kind = "maintenance")
  OBVIOUS
<1>2. PICK a : a = [w.driver.attempt EXCEPT !.cancelled = c]  OBVIOUS
<1>3. w.driver.attempt \in Attempts  BY DEF Worlds, Drivers
<1>4. c \in BOOLEAN /\ b \in BOOLEAN /\ e \in BOOLEAN
  BY <1>1, <1>3 DEF Attempts, Worlds, Pasts
<1>5. /\ a \in Attempts /\ a.at = w.driver.attempt.at /\ a.message = w.driver.attempt.message
      /\ a.stale = w.driver.attempt.stale /\ a.sent = w.driver.attempt.sent
  BY <1>2, <1>3, <1>4 DEF Attempts
<1>6. PICK g, r, p : /\ g = [w.agent EXCEPT !.latch = FALSE, !.abort = b]
                     /\ r = [w.driver EXCEPT !.attempt = a]
                     /\ p = [w.past EXCEPT !.dropped = e]
  OBVIOUS
<1>7. v = [w EXCEPT !.inbox = EmptyInbox, !.agent.latch = FALSE, !.agent.abort = b,
                    !.past.dropped = e, !.driver.attempt = a]
  BY ONLY <1>1, <1>2, v = Cancels(w) DEF Cancels
<1>8. v = [w EXCEPT !.inbox = EmptyInbox, !.agent = g, !.past = p, !.driver = r]
  BY ONLY <1>6, <1>7
<1>9. /\ g \in Agents /\ g.batch = w.agent.batch /\ g.pc = w.agent.pc
      /\ r \in Drivers /\ r.life = w.driver.life /\ r.attempt = a /\ p \in Pasts
  BY <1>4, <1>5, <1>6 DEF Worlds, Agents, Drivers, Pasts
<1>10. EmptyInbox \in Inboxes /\ EmptyInbox["next-turn"] = <<>>
  <2>1. <<>> \in Seq(Messages) /\ <<>> \in Seq(Sents)  BY EmptySeq
  <2> QED  BY <2>1 DEF EmptyInbox, Inboxes, Targets
<1>11. v \in Worlds /\ v.inbox = EmptyInbox /\ v.agent = g /\ v.driver = r
  BY <1>8, <1>9, <1>10 DEF Worlds
<1> QED  BY <1>5, <1>9, <1>10, <1>11 DEF Turns

LEMMA CancelsOrdered ==
  ASSUME NEW n \in Nat, NEW w \in Worlds, Ordered(w, n), NEW v, v = Cancels(w)
  PROVE  Ordered(v, n)
<1>1. Lessens(v, w)  BY CancelsFields DEF Lessens
<1> QED  BY <1>1, LessensOrdered

LEMMA CancelOrdered ==
  ASSUME NEW n, Held(n), Cancel
  PROVE  Ordered(World', n)
<1>1. PICK v : v = Cancels(World) /\ Becomes(v)  BY DEF Cancel
<1>2. Ordered(v, n)  BY <1>1, CancelsOrdered DEF Held, Good
<1> QED  BY <1>1, <1>2, Lands

LEMMA StartJobOrdered ==
  ASSUME NEW n, Held(n), StartJob
  PROVE  Ordered(World', n)
<1>1. PICK v : v = [World EXCEPT !.agent.kind = "maintenance"] /\ Becomes(v)  BY DEF StartJob
<1>2. World \in Worlds /\ Ordered(World, n)  BY DEF Held, Good
<1>3. SameOrder(v, World)  BY <1>1, <1>2 DEF Worlds, Agents, SameOrder, Turns
<1>4. Ordered(v, n)  BY <1>2, <1>3, SameOrdered
<1> QED  BY <1>1, <1>4, Lands

LEMMA EndJobOrdered ==
  ASSUME NEW n, Held(n), EndJob
  PROVE  Ordered(World', n)
<1>1. PICK w : w = World  OBVIOUS
<1>2. n \in Nat /\ Good(w) /\ Ordered(w, n)  BY <1>1 DEF Held
<1>3. PICK u : u = [w EXCEPT !.agent = Idle]  OBVIOUS
<1>4. Good(u) /\ Ordered(u, n)  BY <1>2, <1>3, IdleGood, StartingOrdered
<1>5. PICK v : v \in {u, OpensTurn(u)} /\ Becomes(v)  BY <1>1, <1>3 DEF EndJob
<1>6. Ordered(v, n)  BY <1>4, <1>5, OpensTurnOrdered DEF Held
<1> QED  BY <1>5, <1>6, Lands

LEMMA UnloadOrdered ==
  ASSUME NEW n, Held(n), Unload
  PROVE  Ordered(World', n)
<1>1. PICK w : w = World  OBVIOUS
<1>2. n \in Nat /\ Good(w) /\ Ordered(w, n) /\ w.driver = driver
  BY <1>1, FieldsOfWorld DEF Held
<1>3. PICK d : d = Disarm(w)  OBVIOUS
<1>4. Good(d) /\ Altered(d, w) /\ d.driver = driver  BY <1>2, <1>3, DisarmGood
<1>5. d \in Worlds /\ Ordered(d, n) /\ d.driver.life = "loaded"
  BY <1>2, <1>4, ScheduledOrder, SameOrdered DEF Good, Unload
<1>6. PICK a, o : /\ a = (driver.attempt.at # "none")
                  /\ o = (~(a /\ agent.kind = "running") /\
                           (HasRound(agent.batch) \/ HasRound(inbox["next-turn"])))
  OBVIOUS
<1>7. PICK u : u = [d EXCEPT !.driver.life = "stopping", !.driver.attempt.stale = a,
                             !.driver.awaits = driver.run, !.past.orphan = o]
  OBVIOUS
<1>8. PICK v : v = (IF a /\ agent.kind = "running" THEN StopsRunning(u) ELSE u) /\ Becomes(v)
  <2>1. u = [Disarm(World) EXCEPT !.driver.life = "stopping",
               !.driver.attempt.stale = driver.attempt.at # "none", !.driver.awaits = driver.run,
               !.past.orphan = ~(driver.attempt.at # "none" /\ agent.kind = "running") /\
                 (HasRound(agent.batch) \/ HasRound(inbox["next-turn"]))]
    BY ONLY <1>1, <1>3, <1>6, <1>7
  <2>2. Becomes(IF driver.attempt.at # "none" /\ agent.kind = "running"
                THEN StopsRunning(u) ELSE u)
    BY ONLY <2>1, Unload DEF Unload
  <2> QED  BY ONLY <1>6, <2>2
<1>9. u \in Worlds /\ Lessens(u, d)
  <2>1. PICK t : t = [d.driver.attempt EXCEPT !.stale = a]  OBVIOUS
  <2>2. d.driver.attempt \in Attempts /\ driver.run \in Nat /\ a \in BOOLEAN /\ o \in BOOLEAN
    BY <1>4, <1>5, <1>6 DEF Worlds, Drivers
  <2>3. /\ t \in Attempts /\ t.at = d.driver.attempt.at /\ t.message = d.driver.attempt.message
        /\ t.sent = d.driver.attempt.sent /\ t.stale = a
    BY <2>1, <2>2 DEF Attempts
  <2>4. u = [d EXCEPT !.driver.life = "stopping", !.driver.attempt = t,
                      !.driver.awaits = driver.run, !.past.orphan = o]
    BY <1>7, <2>1
  <2>5. u \in Worlds /\ u.inbox = d.inbox /\ u.agent = d.agent /\ u.driver.life = "stopping"
        /\ u.driver.attempt = t
    BY <1>5, <2>2, <2>3, <2>4 DEF Worlds, Drivers, Pasts
  <2> QED  BY <1>4, <1>6, <2>3, <2>5 DEF Lessens, Turns
<1>10. Ordered(u, n)  BY <1>2, <1>5, <1>9, LessensOrdered
<1>11. CASE a /\ agent.kind = "running"
  <2>1. PICK x : x = Cancels(u)  OBVIOUS
  <2>2. Ordered(x, n)  BY <1>2, <1>9, <1>10, <2>1, CancelsOrdered
  <2>3. v = [x EXCEPT !.driver.awaitsIdle = TRUE]  BY <1>8, <1>11, <2>1 DEF StopsRunning
  <2>4. x \in Worlds  BY <1>9, <2>1, CancelsFields
  <2>5. SameOrder(v, x)  BY <2>3, <2>4 DEF Worlds, Drivers, SameOrder, Turns
  <2>6. Ordered(v, n)  BY <2>2, <2>5, SameOrdered
  <2> QED  BY <1>8, <2>6, Lands
<1> QED  BY <1>8, <1>10, <1>11, Lands

LEMMA UnloadedOrdered ==
  ASSUME NEW n, Held(n), Unloaded
  PROVE  Ordered(World', n)
<1>1. PICK w : w = World  OBVIOUS
<1>2. n \in Nat /\ w \in Worlds /\ Ordered(w, n)  BY <1>1 DEF Held, Good
<1>3. PICK v : /\ v = [w EXCEPT !.driver.life = "gone", !.driver.attempt = NoAttempt,
                          !.driver.competing = FALSE, !.driver.checkpoint = FALSE]
               /\ Becomes(v)
  BY <1>1 DEF Unloaded
<1>4. v.inbox = w.inbox /\ v.agent = w.agent /\ v.driver.attempt = NoAttempt
  BY <1>2, <1>3 DEF Worlds, Drivers
<1>5. Ordered(v, n)  BY <1>2, <1>4, ForgottenOrdered DEF Ordered, Turns
<1> QED  BY <1>3, <1>5, Lands

(***************************************************************************)
(* The fences, the checkpoints and the order: the prompts sent so far are  *)
(* what has been used of the bound.                                        *)
(***************************************************************************)
OInv == IInv /\ Ordered(World, MaxSent - used.sent)

LEMMA InitOrdered == Init => OInv
<1> SUFFICES ASSUME Init PROVE OInv  OBVIOUS
<1>1. IInv  BY InitGood
<1>2. PICK w : w = World  OBVIOUS
<1>3. PICK n : n = MaxSent - used.sent  OBVIOUS
<1>4. n \in Nat  BY <1>1, <1>3, GoalRoundsConstants DEF IInv, UsedOK
<1>5. /\ Turns(w) = <<>> /\ w.agent.batch = <<>> /\ w.driver.attempt = NoAttempt
  BY <1>2, FieldsOfWorld DEF Init, Idle, EmptyInbox, Targets, Turns
<1>6. Apart(Turns(w), w.agent.batch)  BY <1>5, NoElements DEF Apart
<1>7. Ordered(w, n)  BY <1>4, <1>5, <1>6, ForgottenOrdered
<1> QED  BY <1>1, <1>2, <1>3, <1>7 DEF OInv

\* Time passes: the order of what has been sent by now is one of what will be.
LEMMA Later ==
  ASSUME OInv, Free \/ \E what \in {"sent", "op", "mishap"} : Use(what)
  PROVE  Held(MaxSent - used'.sent)
<1>1. /\ MaxSent - used.sent \in Nat /\ MaxSent - used'.sent \in Nat
      /\ MaxSent - used.sent <= MaxSent - used'.sent
  <2>1. MaxSent \in Nat /\ used \in [sent : 0..MaxSent, op : 0..MaxOps, mishap : 0..MaxMishaps]
    BY GoalRoundsConstants DEF OInv, IInv, UsedOK
  <2>2. CASE Free  BY <2>1, <2>2 DEF Free
  <2>3. CASE \E what \in {"sent", "op", "mishap"} : Use(what)
    <3>1. PICK what \in {"sent", "op", "mishap"} : Use(what)  BY <2>3
    <3>2. used'.sent \in {used.sent, used.sent - 1} /\ (used'.sent # used.sent => used.sent > 0)
      BY <2>1, <3>1 DEF Use
    <3> QED  BY <2>1, <3>2
  <2> QED  BY <2>2, <2>3
<1>2. World \in Worlds /\ Ordered(World, MaxSent - used.sent)  BY DEF OInv, IInv, Good
<1>3. PICK w : w = World  OBVIOUS
<1>4. Lessens(w, w)  BY DEF Lessens
<1>5. Ordered(World, MaxSent - used'.sent)  BY <1>1, <1>2, <1>3, <1>4, LessensOrdered
<1> QED  BY <1>1, <1>5 DEF Held, OInv, IInv

LEMMA NextOrdered ==
  ASSUME OInv, Next
  PROVE  OInv'
<1>1. IInv'  BY NextSteps DEF OInv, Steps, IInv
<1>2. PICK n : n = MaxSent - used'.sent  OBVIOUS
<1>3. CASE Prompt
  <2>1. n = MaxSent - used.sent + 1
    BY <1>2, <1>3, GoalRoundsConstants DEF OInv, IInv, UsedOK, Prompt, Use
  <2>2. Ordered(World', n)  BY <1>3, <2>1, PromptOrdered DEF OInv, IInv
  <2> QED  BY <1>1, <1>2, <2>2 DEF OInv
<1>4. CASE ~Prompt
  <2>1. Free \/ \E what \in {"sent", "op", "mishap"} : Use(what)
    BY <1>4 DEF Next, DriverStep, LoopContinues, Retires, CheckpointSettles, AgentStep, WakeUp,
      NextTurn, Retire, Assembled, HooksEnter, HooksReject, HooksFail, Fails, Rejected, Prepared,
      Streamed, StepFails, Notice, Cancel, StartJob, EndJob, Unload, Unloaded, Operate
  <2>2. Held(n)  BY <1>2, <2>1, Later
  <2>3. SUFFICES Ordered(World', n)  BY <1>1, <1>2 DEF OInv
  <2>4. CASE DriverStep
    BY <2>2, <2>4, LoopContinuesOrdered, RetiresOrdered, CheckpointSettlesOrdered
    DEF DriverStep
  <2>5. CASE WakeUp \/ NextTurn \/ Retire
    BY <2>2, <2>5, WakeUpOrdered, NextTurnOrdered, RetireOrdered
  <2>6. CASE Assembled \/ HooksEnter \/ HooksReject \/ HooksFail \/ Rejected
    BY <2>2, <2>6, AssembledOrdered, HooksEnterOrdered, HooksRejectOrdered, HooksFailOrdered,
       RejectedOrdered
  <2>7. CASE Prepared \/ Streamed  BY <2>2, <2>7, PreparedOrdered, StreamedOrdered
  <2>8. CASE StepFails  BY <2>2, <2>8, HeldRunning, FailsOrdered DEF StepFails
  <2>9. CASE Notice \/ Cancel \/ StartJob \/ EndJob \/ Unload \/ Unloaded
    BY <2>2, <2>9, NoticeOrdered, CancelOrdered, StartJobOrdered, EndJobOrdered, UnloadOrdered,
       UnloadedOrdered
  <2>10. CASE \E op \in Operations, limit \in 1..MaxRounds, byModel \in BOOLEAN :
                Operate(op, limit, byModel)
    BY <2>2, <2>10, OperateOrdered
  <2> QED  BY <1>4, <2>4, <2>5, <2>6, <2>7, <2>8, <2>9, <2>10 DEF Next, AgentStep
<1> QED  BY <1>3, <1>4

LEMMA OInvAlways == Spec => []OInv
<1>1. OInv /\ [Next]_vars => OInv'
  <2>1. OInv /\ UNCHANGED vars => OInv'
    BY StutterSteps DEF OInv, vars
  <2> QED  BY <2>1, NextOrdered
<1> QED  BY InitOrdered, <1>1, PTL DEF Spec

(***************************************************************************)
(* When the round the driver has reserved enters its step, every message a *)
(* human had sent by the time it was claimed is in front of it: a prompt   *)
(* that waits behind the reservation has made it stale, and a stale one is *)
(* not let in.  So it holds however prompts, aborts, cancellations, jobs   *)
(* and the copies they leave in the queue come between.                    *)
(***************************************************************************)
THEOREM PromptsCorrect == Spec => PromptsFirst
<1>1. ASSUME OInv, Admission, Submitted = driver.attempt.message,
             NEW i \in DOMAIN inbox["next-turn"], inbox["next-turn"][i].kind = "sent"
      PROVE  inbox["next-turn"][i].id > driver.attempt.sent
  <2>1. PICK w : w = World  OBVIOUS
  <2>2. /\ Good(w) /\ w.agent = agent /\ w.inbox = inbox /\ w.driver = driver
        /\ \E n : Ordered(w, n)
    BY <1>1, <2>1, FieldsOfWorld DEF OInv, IInv
  <2>3. PICK a, b, q : a = driver.attempt /\ b = agent.batch /\ q = inbox["next-turn"]
    OBVIOUS
  <2>4. PICK n : /\ Apart(q, b) /\ Phases(q, b, "preparing", driver.life, a)
                 /\ Waits(q, b, "preparing", a, n)
    BY <1>1, <2>2, <2>3 DEF Ordered, Turns, Admission
  <2>5. b \in Seq(Messages) /\ OneRound(b) /\ q \in Seq(Messages) /\ a \in Attempts
    BY <2>2, <2>3 DEF Good, Fenced, Worlds, Agents, Inboxes, Targets, Drivers
  <2>6. a.message \in Elements(b) /\ IsRound(a.message)
    BY <1>1, <2>3, <2>5, FirstRoundIn DEF Submitted, Admission
  <2>7. a.at = "claimed"
    <3>1. a.message.id # 0  BY <2>4, <2>6 DEF Apart
    <3> QED  BY <2>4, <2>5, <2>6, <3>1 DEF Phases, Attempts, Before
  <2>8. Younger(q, 0, a.sent)  BY <2>4, <2>6, <2>7 DEF Waits
  <2>9. i > 0  BY <2>3, <2>5, LenProperties
  <2> QED  BY <1>1, <2>3, <2>8, <2>9 DEF Younger
<1>2. OInv /\ [Next]_vars =>
        [Admission /\ Submitted = driver.attempt.message =>
           \A i \in DOMAIN inbox["next-turn"] :
             inbox["next-turn"][i].kind = "sent" =>
               inbox["next-turn"][i].id > driver.attempt.sent]_vars
  BY <1>1
<1> QED  BY OInvAlways, <1>2, PTL DEF Spec, PromptsFirst
=============================================================================
