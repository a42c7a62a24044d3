------------------------ MODULE SessionHandleProofs ------------------------
(***************************************************************************)
(* Proofs about SessionHandle, for any callers, any number of events,       *)
(* faults and crashes.                                                      *)
(*                                                                         *)
(* Every sequence the handle works with is a piece of the session's log,    *)
(* and the proofs only follow where it lies: the artifact at the front, the *)
(* recovered tail behind it, the batch in flight behind what counts as      *)
(* stored, the buffer behind the batch.  Reading the pieces off the log     *)
(* gives the properties.                                                    *)
(***************************************************************************)
EXTENDS SessionHandle, SequenceTheorems, TLAPS

\* The sequence s lies in l behind its first k elements.
Lies(s, k, l) == k + Len(s) <= Len(l) /\ \A i \in 1 .. Len(s) : s[i] = l[k + i]

Distinct(c) == \A i, j \in 1 .. Len(c) : c[i] = c[j] => i = j
OpsOf(c) == {c[i] : i \in 1 .. Len(c)}

-----------------------------------------------------------------------------
(***************************************************************************)
(* Where a sequence lies in another one.                                   *)
(***************************************************************************)
LEMMA LiesNothing ==
  ASSUME NEW S, NEW l \in Seq(S), NEW k \in 0 .. Len(l)
  PROVE  Lies(<<>>, k, l)
<1> PICK n \in Nat : n = Len(l)  BY LenProperties
<1> PICK z \in Nat : z = Len(<<>>) /\ z = 0  OBVIOUS
<1> QED  BY DEF Lies

LEMMA LiesConcat ==
  ASSUME NEW S, NEW s \in Seq(S), NEW t \in Seq(S), NEW l \in Seq(S), NEW k \in Nat
  PROVE  Lies(s \o t, k, l) <=> Lies(s, k, l) /\ Lies(t, k + Len(s), l)
<1> PICK m \in Nat : m = Len(s)  BY LenProperties
<1> PICK n \in Nat : n = Len(t)  BY LenProperties
<1> PICK p \in Nat : p = Len(l)  BY LenProperties
<1> PICK r : r = s \o t  OBVIOUS
<1>1. /\ Len(r) = m + n
      /\ \A i \in 1 .. m + n : r[i] = IF i <= m THEN s[i] ELSE t[i - m]
  BY ConcatProperties
<1>2. ASSUME Lies(r, k, l) PROVE Lies(s, k, l) /\ Lies(t, k + m, l)
  <2>1. k + (m + n) <= p /\ \A i \in 1 .. m + n : r[i] = l[k + i]
    BY <1>1, <1>2 DEF Lies
  <2>2. \A i \in 1 .. m : i \in 1 .. m + n /\ i <= m  OBVIOUS
  <2>3. Lies(s, k, l)  BY <1>1, <2>1, <2>2 DEF Lies
  <2>4. ASSUME NEW i \in 1 .. n PROVE t[i] = l[k + m + i]
    <3> PICK j \in 1 .. m + n : j = m + i  OBVIOUS
    <3>1. ~(j <= m) /\ j - m = i /\ k + j = k + m + i  OBVIOUS
    <3>2. r[j] = t[i] /\ r[j] = l[k + j]  BY <1>1, <2>1, <3>1
    <3> QED  BY <3>1, <3>2
  <2>5. (k + m) + n <= p  BY <2>1
  <2>6. Lies(t, k + m, l)  BY <2>4, <2>5 DEF Lies
  <2> QED  BY <2>3, <2>6
<1>3. ASSUME Lies(s, k, l), Lies(t, k + m, l) PROVE Lies(r, k, l)
  <2>1. k + (m + n) <= p  BY <1>3 DEF Lies
  <2>2. ASSUME NEW i \in 1 .. m + n PROVE r[i] = l[k + i]
    <3>1. CASE i <= m
      <4>1. i \in 1 .. m  BY <3>1
      <4> QED  BY <1>1, <1>3, <3>1, <4>1 DEF Lies
    <3>2. CASE ~(i <= m)
      <4>1. i \in Int /\ i >= m + 1 /\ i <= m + n  BY <3>2
      <4>2. i - m \in 1 .. n /\ k + m + (i - m) = k + i  BY <4>1
      <4>3. r[i] = t[i - m]  BY <1>1, <3>2
      <4>4. \A j \in 1 .. n : t[j] = l[k + m + j]  BY <1>3 DEF Lies
      <4> QED  BY <4>2, <4>3, <4>4
    <3> QED  BY <3>1, <3>2
  <2> QED  BY <1>1, <2>1, <2>2 DEF Lies
<1> QED  BY <1>2, <1>3

LEMMA LiesPrefix ==
  ASSUME NEW S, NEW s \in Seq(S), NEW l \in Seq(S), NEW k \in Nat, NEW n \in 0 .. Len(s)
  PROVE  /\ SubSeq(s, 1, n) \in Seq(S) /\ Len(SubSeq(s, 1, n)) = n
         /\ Lies(s, k, l) => Lies(SubSeq(s, 1, n), k, l)
         /\ Lies(SubSeq(s, 1, n), 0, s)
<1> PICK m \in Nat : m = Len(s)  BY LenProperties
<1> PICK p \in Nat : p = Len(l)  BY LenProperties
<1>1. \A i \in 1 .. n : i \in 1 .. m /\ s[i] \in S  BY ElementOfSeq
<1> PICK r : r = SubSeq(s, 1, n)  OBVIOUS
<1>2. /\ r \in Seq(S) /\ Len(r) = IF 1 <= n THEN n - 1 + 1 ELSE 0
      /\ \A i \in 1 .. n - 1 + 1 : r[i] = s[1 + i - 1]
  BY <1>1, SubSeqProperties
<1>3. r \in Seq(S) /\ Len(r) = n /\ \A i \in 1 .. n : r[i] = s[i]  BY <1>2
<1>4. Lies(r, 0, s)  BY <1>3 DEF Lies
<1>5. Lies(s, k, l) => Lies(r, k, l)  BY <1>1, <1>3 DEF Lies
<1> QED  BY <1>3, <1>4, <1>5

\* What lies in a log still does when the log grows.
LEMMA LiesLonger ==
  ASSUME NEW S, NEW l \in Seq(S), NEW e \in S, NEW s \in Seq(S), NEW k \in Nat
  PROVE  /\ Lies(s, k, l) => Lies(s, k, Append(l, e))
         /\ Lies(s, k, l) /\ k + Len(s) = Len(l) => Lies(Append(s, e), k, Append(l, e))
<1> PICK m \in Nat : m = Len(s)  BY LenProperties
<1> PICK p \in Nat : p = Len(l)  BY LenProperties
<1> PICK r : r = Append(l, e)  OBVIOUS
<1> PICK q : q = Append(s, e)  OBVIOUS
<1>1. Len(r) = p + 1 /\ r[p + 1] = e /\ \A i \in 1 .. p : r[i] = l[i]
  BY AppendProperties
<1>2. Len(q) = m + 1 /\ q[m + 1] = e /\ \A i \in 1 .. m : q[i] = s[i]
  BY AppendProperties
<1>3. ASSUME Lies(s, k, l) PROVE Lies(s, k, r) /\ \A i \in 1 .. m : s[i] = r[k + i]
  <2>1. k + m <= p /\ \A i \in 1 .. m : s[i] = l[k + i]  BY <1>3 DEF Lies
  <2>2. \A i \in 1 .. m : k + i \in 1 .. p  BY <2>1
  <2>3. \A i \in 1 .. m : s[i] = r[k + i]  BY <1>1, <2>1, <2>2
  <2> QED  BY <1>1, <2>1, <2>3 DEF Lies
<1>4. ASSUME Lies(s, k, l), k + m = p PROVE Lies(q, k, r)
  <2>1. \A i \in 1 .. m + 1 : i \in 1 .. m \/ (i = m + 1 /\ k + i = p + 1)  BY <1>4
  <2>2. \A i \in 1 .. m + 1 : q[i] = r[k + i]  BY <1>1, <1>2, <1>3, <1>4, <2>1
  <2>3. k + (m + 1) <= p + 1  BY <1>4
  <2> QED  BY <1>1, <1>2, <2>2, <2>3 DEF Lies
<1> QED  BY <1>3, <1>4

LEMMA LiesPiece ==
  ASSUME NEW S, NEW l \in Seq(S), NEW b \in 0 .. Len(l), NEW a \in 0 .. b
  PROVE  /\ SubSeq(l, a + 1, b) \in Seq(S) /\ Len(SubSeq(l, a + 1, b)) = b - a
         /\ Lies(SubSeq(l, a + 1, b), a, l)
<1> PICK p \in Nat : p = Len(l)  BY LenProperties
<1>1. \A i \in a + 1 .. b : i \in 1 .. p /\ l[i] \in S  BY ElementOfSeq
<1> PICK r : r = SubSeq(l, a + 1, b)  OBVIOUS
<1>2. /\ r \in Seq(S) /\ Len(r) = IF a + 1 <= b THEN b - (a + 1) + 1 ELSE 0
      /\ \A i \in 1 .. b - (a + 1) + 1 : r[i] = l[a + 1 + i - 1]
  BY <1>1, SubSeqProperties
<1>3. r \in Seq(S) /\ Len(r) = b - a /\ \A i \in 1 .. b - a : r[i] = l[a + i]
  BY <1>2
<1> QED  BY <1>3 DEF Lies

LEMMA LiesFirst ==
  ASSUME NEW S, NEW s \in Seq(S), NEW l \in Seq(S), Lies(s, 0, l)
  PROVE  s = SubSeq(l, 1, Len(s)) /\ IsPrefix(s, l) /\ (Len(s) = Len(l) => s = l)
<1> PICK m \in Nat : m = Len(s)  BY LenProperties
<1> PICK p \in Nat : p = Len(l)  BY LenProperties
<1>1. m <= p /\ \A i \in 1 .. m : s[i] = l[i]  BY DEF Lies
<1> PICK r : r = SubSeq(l, 1, m)  OBVIOUS
<1>2. r \in Seq(S) /\ Len(r) = m /\ \A i \in 1 .. m : r[i] = l[i]
  <2>1. m \in 0 .. p  BY <1>1
  <2> QED  BY <2>1, LiesPrefix DEF Lies
<1>3. s = r  BY <1>1, <1>2, SeqEqual
<1>4. SubSeq(s, 1, m) = s  BY SubSeqFull
<1>5. m = p => s = l  BY <1>3, SubSeqFull
<1> QED  BY <1>1, <1>3, <1>4, <1>5 DEF IsPrefix

LEMMA LiesShorter ==
  ASSUME NEW S, NEW s \in Seq(S), NEW t \in Seq(S), NEW l \in Seq(S), Lies(t, 0, l)
  PROVE  /\ Lies(s, 0, t) => Lies(s, 0, l)
         /\ Lies(s, 0, l) /\ Len(s) <= Len(t) => Lies(s, 0, t)
<1> PICK m \in Nat : m = Len(s)  BY LenProperties
<1> PICK n \in Nat : n = Len(t)  BY LenProperties
<1> PICK p \in Nat : p = Len(l)  BY LenProperties
<1>1. n <= p /\ \A i \in 1 .. n : t[i] = l[i]  BY DEF Lies
<1>2. ASSUME Lies(s, 0, t) PROVE Lies(s, 0, l)  BY <1>1, <1>2 DEF Lies
<1>3. ASSUME Lies(s, 0, l), m <= n PROVE Lies(s, 0, t)  BY <1>1, <1>3 DEF Lies
<1> QED  BY <1>2, <1>3

LEMMA LiesInNothing ==
  ASSUME NEW S, NEW s \in Seq(S), NEW l, NEW t \in Seq(S), Lies(s, 0, l), Len(l) = 0
  PROVE  Lies(s, 0, t)
<1> PICK m \in Nat : m = Len(s)  BY LenProperties
<1> PICK n \in Nat : n = Len(t)  BY LenProperties
<1>1. 0 + m <= 0  BY DEF Lies
<1>2. m = 0  BY <1>1
<1>3. 0 + m <= n /\ 1 .. m = {}  BY <1>2
<1> QED  BY <1>3 DEF Lies

-----------------------------------------------------------------------------
(***************************************************************************)
(* The operations in a chain.                                              *)
(***************************************************************************)
LEMMA OpTypes ==
  ASSUME NEW op \in Ops
  PROVE  /\ op.kind \in {"drain", "append", "flush"}
         /\ op.kind = "drain" => op = [kind |-> "drain"]
         /\ op.kind = "append" => op.upto \in 1 .. MaxEvents
                                  /\ op = [kind |-> "append", upto |-> op.upto]
         /\ op.kind = "flush" => op.by \in Flushers /\ op = [kind |-> "flush", by |-> op.by]
BY DEF Ops

LEMMA LongerChain ==
  ASSUME NEW c \in Seq(Ops), NEW op \in Ops, Distinct(c), op \notin OpsOf(c)
  PROVE  /\ Append(c, op) \in Seq(Ops) /\ Distinct(Append(c, op))
         /\ OpsOf(Append(c, op)) = OpsOf(c) \cup {op}
         /\ Append(c, op) # <<>>
         /\ c # <<>> => Head(Append(c, op)) = Head(c)
<1> PICK n \in Nat : n = Len(c)  BY LenProperties
<1> PICK d : d = Append(c, op)  OBVIOUS
<1>1. /\ d \in Seq(Ops) /\ d # <<>> /\ Len(d) = n + 1
      /\ d[n + 1] = op /\ \A i \in 1 .. n : d[i] = c[i]
  BY AppendProperties
<1>2. \A i \in 1 .. n + 1 : i \in 1 .. n \/ i = n + 1  OBVIOUS
<1>3. \A i \in 1 .. n : c[i] \in OpsOf(c)  BY DEF OpsOf
<1>4. Distinct(d)
  <2> SUFFICES ASSUME NEW i \in 1 .. n + 1, NEW j \in 1 .. n + 1, d[i] = d[j]
               PROVE  i = j
    BY <1>1 DEF Distinct
  <2>1. CASE i \in 1 .. n /\ j \in 1 .. n  BY <1>1, <2>1 DEF Distinct
  <2>2. CASE i \in 1 .. n /\ j = n + 1  BY <1>1, <1>3, <2>2
  <2>3. CASE j \in 1 .. n /\ i = n + 1  BY <1>1, <1>3, <2>3
  <2> QED  BY <1>2, <2>1, <2>2, <2>3
<1>5. OpsOf(d) = OpsOf(c) \cup {op}
  <2>1. ASSUME NEW x \in OpsOf(d) PROVE x \in OpsOf(c) \cup {op}
    <3> PICK i \in 1 .. n + 1 : x = d[i]  BY <1>1 DEF OpsOf
    <3> QED  BY <1>1, <1>2, <1>3
  <2>2. op \in OpsOf(d)
    <3>1. n + 1 \in 1 .. n + 1  OBVIOUS
    <3> QED  BY <1>1, <3>1 DEF OpsOf
  <2>3. ASSUME NEW x \in OpsOf(c) PROVE x \in OpsOf(d)
    <3> PICK i \in 1 .. n : x = c[i]  BY DEF OpsOf
    <3>1. i \in 1 .. n + 1 /\ x = d[i]  BY <1>1
    <3> QED  BY <1>1, <3>1 DEF OpsOf
  <2> QED  BY <2>1, <2>2, <2>3
<1>6. ASSUME c # <<>> PROVE Head(d) = Head(c)
  <2>1. n >= 1  BY <1>6, EmptySeq
  <2>2. d[1] = c[1]  BY <1>1, <2>1
  <2>3. Head(c) = c[1] /\ Head(d) = d[1]  OBVIOUS
  <2> QED  BY <2>2, <2>3
<1> QED  BY <1>1, <1>4, <1>5, <1>6

LEMMA TailChain ==
  ASSUME NEW c \in Seq(Ops), c # <<>>, Distinct(c)
  PROVE  /\ Tail(c) \in Seq(Ops) /\ Distinct(Tail(c))
         /\ Head(c) \in Ops /\ Head(c) \in OpsOf(c)
         /\ OpsOf(Tail(c)) \subseteq OpsOf(c) \ {Head(c)}
         /\ Len(c) \in Nat \ {0}
<1>1. Len(c) \in Nat \ {0}  BY EmptySeq
<1> PICK n \in Nat : n = Len(c) - 1  BY <1>1
<1> PICK d : d = Tail(c)  OBVIOUS
<1>2. /\ Head(c) \in Ops /\ d \in Seq(Ops) /\ Len(d) = n
      /\ \A i \in 1 .. n : d[i] = c[i + 1]
  BY HeadTailProperties
<1>3. Head(c) = c[1] /\ 1 \in 1 .. Len(c)  BY <1>1
<1>4. \A i \in 1 .. n : i + 1 \in 1 .. Len(c) /\ i + 1 # 1  OBVIOUS
<1>5. Distinct(d)
  <2> SUFFICES ASSUME NEW i \in 1 .. n, NEW j \in 1 .. n, d[i] = d[j] PROVE i = j
    BY <1>2 DEF Distinct
  <2>1. i + 1 = j + 1  BY <1>2, <1>4 DEF Distinct
  <2> QED  BY <2>1
<1>6. ASSUME NEW x \in OpsOf(d) PROVE x \in OpsOf(c) /\ x # Head(c)
  <2> PICK i \in 1 .. n : x = d[i]  BY <1>2 DEF OpsOf
  <2>1. x = c[i + 1] /\ i + 1 \in 1 .. Len(c)  BY <1>2, <1>4
  <2>2. x = c[1] => i + 1 = 1  BY <1>3, <2>1 DEF Distinct
  <2> QED  BY <1>3, <1>4, <2>1, <2>2 DEF OpsOf
<1>7. Head(c) \in OpsOf(c)  BY <1>3 DEF OpsOf
<1> QED  BY <1>1, <1>2, <1>5, <1>6, <1>7

LEMMA NoOps == Distinct(<<>>) /\ OpsOf(<<>>) = {} /\ <<>> \in Seq(Ops)
<1>1. 1 .. Len(<<>>) = {}  OBVIOUS
<1> QED  BY <1>1 DEF Distinct, OpsOf

-----------------------------------------------------------------------------
(***************************************************************************)
(* The invariant.                                                          *)
(***************************************************************************)
Steps == {"waiting", "lease", "truncate", "rewrite", "write"}

Closings == [at : {"open", "draining", "drained", "waiting", "leaving", "releasing", "closed"},
             awaits : Nat, failed : BOOLEAN, covers : 0 .. MaxEvents]
Flushes == [at : {"idle", "draining", "drained", "flushing"},
            goal : 0 .. MaxEvents, late : BOOLEAN]

Types ==
  /\ disk \in Seq(Event) /\ tail \in Seq(Event) /\ log \in Seq(Event)
  /\ buffered \in Seq(Event) /\ batch \in Seq(Event) /\ recovered \in Seq(Event)
  /\ acked \in [BOOLEAN -> Seq(Event)] /\ Len(log) <= MaxEvents
  /\ torn \in BOOLEAN /\ exists \in BOOLEAN /\ timer \in BOOLEAN /\ paused \in BOOLEAN
  /\ materialized \in BOOLEAN /\ truncate \in BOOLEAN
  /\ session \in {"setup", "storing", "stored", "live", "failed", "crashed"}
  /\ stored \in 0 .. MaxEvents /\ cursor \in 0 .. MaxEvents
  /\ draining \in {"none", "queued", "written", "ended", "failed"}
  /\ chain \in Seq(Ops) /\ step \in Steps
  /\ lease \in {"none", "held", "released"}
  /\ closer \in Closings /\ flusher \in [Flushers -> Flushes]
  /\ faults \in 0 .. MaxFaults /\ crashes \in 0 .. MaxCrashes

Numbered == \A i \in 1 .. Len(log) : log[i].seq = i

\* What is in the artifact.
DiskInv ==
  /\ Lies(disk, 0, log) /\ Lies(tail, Len(disk), log)
  /\ tail # <<>> => torn
  /\ ~exists => disk = <<>> /\ ~torn

\* What the handle knows of it.
CursorInv == Alive =>
  /\ materialized => /\ exists /\ cursor = Len(disk) + Len(recovered)
                     /\ Lies(recovered, Len(disk), log)
  /\ ~materialized => cursor = 0 /\ recovered = <<>> /\ ~torn /\ ~truncate
  /\ torn => truncate
  /\ tail \in {<<>>, recovered}
  /\ step \in {"rewrite", "write"} => ~truncate
  /\ step = "write" => recovered = <<>>

\* An operation waits for nothing else than what its caller, the session, the
\* drain or a checkpoint, is at.
Known(op) ==
  /\ op.kind = "append" => session = "storing" /\ op.upto = Len(log)
  /\ op.kind = "drain" => session = "live" /\ draining = "queued"
  /\ op.kind = "flush" => session = "live" /\ flusher[op.by].at = "flushing"

ChainInv == Distinct(chain) /\ \A op \in OpsOf(chain) : Known(op)

\* What the running one writes.
BatchInv ==
  /\ Lies(batch, cursor, log)
  /\ step = "waiting" => batch = <<>>
  /\ step # "waiting" =>
       /\ chain # <<>>
       /\ Op.kind = "flush" => batch = <<>>
       /\ Op.kind = "append" => cursor + Len(batch) = Op.upto

\* Storing before publication.
SetupInv ==
  /\ session \in {"setup", "storing", "stored"} => cursor = stored /\ stored <= Len(log)
  /\ session = "stored" => stored = Len(log)

\* Nothing published is missed, and a queued drain that has not begun has a batch to take.
BufferInv ==
  /\ session # "live" => buffered = <<>>
  /\ session = "live" => /\ Lies(buffered, cursor + Len(batch), log)
                         /\ cursor + Len(batch) + Len(buffered) = Len(log)

\* The checkpoints: one whose drain found the buffer empty behind its call has what
\* it must cover stored, unless it came too late to be looked for.
Covered(f) ==
  \/ flusher[f].at \in {"drained", "flushing"}
  \/ flusher[f].at = "draining" /\ draining = "ended"

FlushInv ==
  /\ session # "live" => \A f \in Flushers : flusher[f].at = "idle"
  /\ \A f \in Flushers :
       /\ flusher[f].goal <= Len(log)
       /\ flusher[f].at = "idle" => flusher[f].goal = 0
       /\ ~flusher[f].late /\ Covered(f) => flusher[f].goal <= cursor

\* A raw artifact has no recoverable tail.
AckInv == ~RecoversTail =>
  tail = <<>> /\ recovered = <<>> /\ Lies(acked[FALSE], 0, disk)

\* The drain at the head of the chain has taken its batch.
DrainRuns == step # "waiting" /\ Op.kind = "drain"

\* close(), as long as nothing has failed.
CloseInv == faults = 0 =>
  /\ draining # "failed" /\ ~closer.failed
  /\ Alive => materialized = exists
  /\ draining = "queued" => buffered # <<>> \/ DrainRuns
  /\ session = "live" /\ closer.at \in {"leaving", "releasing", "closed"} =>
       \/ closer.covers <= cursor
       \/ /\ closer.at = "leaving" /\ closer.awaits > 0
          /\ DrainRuns /\ closer.covers <= cursor + Len(batch)

IInv == /\ Types /\ Numbered /\ DiskInv /\ CursorInv /\ ChainInv /\ BatchInv /\ SetupInv
        /\ BufferInv /\ FlushInv /\ AckInv /\ CloseInv

-----------------------------------------------------------------------------
(***************************************************************************)
(* The parts of the invariant under what a step leaves alone.              *)
(***************************************************************************)
LEMMA Frame ==
  ASSUME IInv
  PROVE  /\ log' = log => Numbered'
         /\ UNCHANGED <<disks, log>> => DiskInv'
         /\ UNCHANGED <<disks, log, session, state, step>> => CursorInv'
         /\ UNCHANGED <<chain, log, session, draining, flusher>> => ChainInv'
         /\ UNCHANGED <<batch, cursor, log, step, chain>> => BatchInv'
         /\ UNCHANGED <<session, cursor, stored, log>> => SetupInv'
         /\ UNCHANGED <<session, buffered, cursor, batch, log>> => BufferInv'
         /\ UNCHANGED <<session, flusher, cursor, draining, log>> => FlushInv'
         /\ UNCHANGED <<tail, recovered, acked, disk>> => AckInv'
<1>1. log' = log => Numbered'  BY DEF IInv, Numbered
<1>2. UNCHANGED <<disks, log>> => DiskInv'  BY DEF IInv, DiskInv, disks
<1>3. UNCHANGED <<disks, log, session, state, step>> => CursorInv'
  BY DEF IInv, CursorInv, disks, state, Alive
<1>4. UNCHANGED <<chain, log, session, draining, flusher>> => ChainInv'
  BY DEF IInv, ChainInv, Known
<1>5. UNCHANGED <<batch, cursor, log, step, chain>> => BatchInv'  BY DEF IInv, BatchInv, Op
<1>6. UNCHANGED <<session, cursor, stored, log>> => SetupInv'  BY DEF IInv, SetupInv
<1>7. UNCHANGED <<session, buffered, cursor, batch, log>> => BufferInv'
  BY DEF IInv, BufferInv
<1>8. UNCHANGED <<session, flusher, cursor, draining, log>> => FlushInv'
  BY DEF IInv, FlushInv, Covered
<1>9. UNCHANGED <<tail, recovered, acked, disk>> => AckInv'  BY DEF IInv, AckInv
<1> QED  BY <1>1, <1>2, <1>3, <1>4, <1>5, <1>6, <1>7, <1>8, <1>9

LEMMA Sequences ==
  ASSUME Types
  PROVE  /\ log \in Seq(Event) /\ disk \in Seq(Event) /\ tail \in Seq(Event)
         /\ recovered \in Seq(Event) /\ batch \in Seq(Event) /\ buffered \in Seq(Event)
         /\ acked[FALSE] \in Seq(Event) /\ acked[TRUE] \in Seq(Event)
BY DEF Types

LEMMA Lengths ==
  ASSUME Types
  PROVE  /\ Len(log) \in Nat /\ Len(disk) \in Nat /\ Len(tail) \in Nat
         /\ Len(recovered) \in Nat /\ Len(batch) \in Nat /\ Len(buffered) \in Nat
         /\ cursor \in Nat /\ stored \in Nat /\ MaxEvents \in Nat /\ Len(chain) \in Nat
         /\ Len(log) \in 0 .. MaxEvents
<1>1. MaxEvents \in Nat  BY SessionHandleConstants
<1>2. /\ Len(log) \in Nat /\ Len(disk) \in Nat /\ Len(tail) \in Nat
      /\ Len(recovered) \in Nat /\ Len(batch) \in Nat /\ Len(buffered) \in Nat
      /\ Len(chain) \in Nat
  BY LenProperties DEF Types
<1> QED  BY <1>1, <1>2 DEF Types

LEMMA FlushTypes ==
  ASSUME Types, NEW f \in Flushers
  PROVE  /\ flusher[f] \in Flushes /\ flusher[f].goal \in 0 .. MaxEvents
         /\ flusher[f].goal \in Nat /\ flusher[f].late \in BOOLEAN
<1>1. flusher[f] \in Flushes  BY DEF Types
<1>2. MaxEvents \in Nat  BY SessionHandleConstants
<1> QED  BY <1>1, <1>2 DEF Flushes

\* What is known of the operation at the head of the chain, and of those behind it.
LEMMA Running ==
  ASSUME IInv, chain # <<>>
  PROVE  /\ Alive /\ session \in {"storing", "live"}
         /\ Op \in Ops /\ Op.kind \in {"drain", "append", "flush"}
         /\ Op.kind = "append" => session = "storing" /\ Op.upto = Len(log)
         /\ Op.kind = "drain" => session = "live" /\ draining = "queued"
         /\ Op.kind = "flush" => /\ session = "live" /\ Op.by \in Flushers
                                 /\ flusher[Op.by].at = "flushing"
         /\ Tail(chain) \in Seq(Ops) /\ Distinct(Tail(chain))
         /\ \A op \in OpsOf(Tail(chain)) :
              /\ op \in Ops /\ Known(op) /\ op.kind # "append"
              /\ op.kind = "drain" => Op.kind # "drain"
              /\ op.kind = "flush" => op.by \in Flushers
              /\ op.kind = "flush" /\ Op.kind = "flush" => op.by # Op.by
<1>1. chain \in Seq(Ops) /\ Distinct(chain) /\ \A op \in OpsOf(chain) : Known(op)
  BY DEF IInv, Types, ChainInv
<1>2. /\ Tail(chain) \in Seq(Ops) /\ Distinct(Tail(chain))
      /\ Op \in Ops /\ Op \in OpsOf(chain)
      /\ OpsOf(Tail(chain)) \subseteq OpsOf(chain) \ {Op}
  BY <1>1, TailChain DEF Op
<1>3. Known(Op) /\ Op.kind \in {"drain", "append", "flush"}  BY <1>1, <1>2, OpTypes
<1>4. session \in {"storing", "live"}  BY <1>3 DEF Known
<1>5. OpsOf(chain) \subseteq Ops  BY <1>1, ElementOfSeq DEF OpsOf
<1>6. ASSUME NEW op \in OpsOf(Tail(chain))
      PROVE  /\ op \in Ops /\ Known(op) /\ op.kind # "append"
             /\ op.kind = "drain" => Op.kind # "drain"
             /\ op.kind = "flush" => op.by \in Flushers
             /\ op.kind = "flush" /\ Op.kind = "flush" => op.by # Op.by
  <2>1. op \in Ops /\ Known(op) /\ op # Op  BY <1>1, <1>2, <1>5
  <2>2. op.kind = "drain" => Op.kind # "drain"  BY <1>2, <2>1, OpTypes
  <2>3. op.kind = "flush" /\ Op.kind = "flush" => op.by # Op.by  BY <1>2, <2>1, OpTypes
  <2>4. ASSUME op.kind = "append" PROVE FALSE
    <3>1. session = "storing" /\ op = [kind |-> "append", upto |-> Len(log)]
      BY <2>1, <2>4, OpTypes DEF Known
    <3>2. Op.kind = "append"  BY <1>3, <3>1 DEF Known
    <3>3. Op = [kind |-> "append", upto |-> Len(log)]  BY <1>2, <1>3, <3>2, OpTypes DEF Known
    <3> QED  BY <2>1, <3>1, <3>3
  <2>5. op.kind = "flush" => op.by \in Flushers  BY <2>1, OpTypes
  <2> QED  BY <2>1, <2>2, <2>3, <2>4, <2>5
<1> QED  BY <1>2, <1>3, <1>4, <1>6, OpTypes DEF Known, Alive

LEMMA NobodyRuns ==
  ASSUME IInv, session \notin {"storing", "live"}
  PROVE  chain = <<>> /\ step = "waiting" /\ batch = <<>> /\ buffered = <<>>
         /\ \A f \in Flushers : flusher[f].at = "idle"
<1>1. chain = <<>>  BY Running
<1> QED  BY <1>1 DEF IInv, BatchInv, BufferInv, FlushInv

\* Without a drain in the chain of a live session, nothing is in flight.
LEMMA NothingInFlight ==
  ASSUME IInv, session = "live", step = "waiting" \/ Op.kind # "drain"
  PROVE  batch = <<>> /\ Len(batch) = 0
<1>1. CASE step = "waiting"  BY <1>1 DEF IInv, BatchInv
<1>2. CASE step # "waiting"
  <2>1. chain # <<>>  BY <1>2 DEF IInv, BatchInv
  <2>2. Op.kind = "flush"  BY <1>2, <2>1, Running
  <2> QED  BY <1>2, <2>2 DEF IInv, BatchInv
<1> QED  BY <1>1, <1>2

-----------------------------------------------------------------------------
(***************************************************************************)
(* The actions.                                                            *)
(***************************************************************************)
LEMMA InitSafe == Init => IInv
<1> SUFFICES ASSUME Init PROVE IInv  OBVIOUS
<1>1. <<>> \in Seq(Event) /\ <<>> \in Seq(Ops) /\ Len(<<>>) = 0 /\ 1 .. Len(<<>>) = {}
  BY EmptySeq
<1>2. 0 \in 0 .. MaxEvents /\ 0 \in 0 .. MaxFaults /\ 0 \in 0 .. MaxCrashes
  BY SessionHandleConstants
<1>3. Types
  <2>1. Open \in Closings /\ NoFlush \in Flushes
    BY <1>2 DEF Open, NoFlush, Closings, Flushes
  <2>2. closer \in Closings /\ flusher \in [Flushers -> Flushes]  BY <2>1 DEF Init
  <2>3. acked \in [BOOLEAN -> Seq(Event)]  BY <1>1 DEF Init
  <2>4. Len(log) <= MaxEvents  BY <1>1, SessionHandleConstants DEF Init
  <2> QED  BY <1>1, <1>2, <2>2, <2>3, <2>4 DEF Init, Types, Steps
<1>4. Lies(<<>>, 0, <<>>)  BY <1>1 DEF Lies
<1>5. Numbered /\ DiskInv /\ CursorInv
  BY <1>1, <1>4 DEF Init, Numbered, DiskInv, CursorInv
<1>6. ChainInv /\ BatchInv  BY <1>1, <1>4, NoOps DEF Init, ChainInv, BatchInv
<1>7. SetupInv /\ BufferInv /\ FlushInv
  BY <1>1 DEF Init, SetupInv, BufferInv, FlushInv, Covered, NoFlush
<1>8. AckInv  BY <1>4 DEF Init, AckInv
<1>9. CloseInv  BY DEF Init, CloseInv, Open
<1> QED  BY <1>3, <1>5, <1>6, <1>7, <1>8, <1>9 DEF IInv

\* The log grows by an event.
LEMMA LogGrows ==
  ASSUME IInv, Len(log) < MaxEvents, log' = Append(log, NextEvent)
  PROVE  /\ NextEvent \in Event
         /\ log' \in Seq(Event) /\ Len(log') <= MaxEvents /\ Len(log') = Len(log) + 1
         /\ Numbered'
         /\ \A s \in Seq(Event), k \in Nat : Lies(s, k, log) => Lies(s, k, log')
<1> PICK n \in Nat : n = Len(log)  BY Lengths DEF IInv
<1> PICK l \in Seq(Event) : l = log  BY DEF IInv, Types
<1> PICK e : e = NextEvent  OBVIOUS
<1>1. e \in Event /\ e.seq = n + 1
  <2>1. n + 1 \in 1 .. MaxEvents /\ crashes \in 0 .. MaxCrashes
    BY SessionHandleConstants DEF IInv, Types
  <2>2. e = [seq |-> n + 1, epoch |-> crashes]  BY DEF NextEvent
  <2> QED  BY <2>1, <2>2 DEF Event
<1>2. /\ log' \in Seq(Event) /\ Len(log') = n + 1 /\ log'[n + 1] = e
      /\ \A i \in 1 .. n : log'[i] = l[i]
  BY <1>1, AppendProperties
<1>3. Numbered'
  <2>1. \A i \in 1 .. n + 1 : i \in 1 .. n \/ i = n + 1  OBVIOUS
  <2>2. \A i \in 1 .. n : l[i].seq = i  BY DEF IInv, Numbered
  <2> QED  BY <1>1, <1>2, <2>1, <2>2 DEF Numbered
<1>4. \A s \in Seq(Event), k \in Nat : Lies(s, k, log) => Lies(s, k, log')
  BY <1>1, LiesLonger
<1>5. n + 1 <= MaxEvents  BY SessionHandleConstants
<1> QED  BY <1>1, <1>2, <1>3, <1>4, <1>5

\* What an event appended to the log leaves as it was.
LEMMA LogStep ==
  ASSUME IInv, Len(log) < MaxEvents, log' = Append(log, NextEvent),
         session \in {"setup", "stored", "live"}, session' # "storing",
         session' = session \/ (session # "live" /\ session' \notin {"live", "crashed"}),
         UNCHANGED <<disks, draining, running, state, acked, flusher>>
  PROVE  Numbered' /\ DiskInv' /\ CursorInv' /\ ChainInv' /\ BatchInv' /\ FlushInv' /\ AckInv'
<1>1. /\ Len(log') = Len(log) + 1 /\ Numbered'
      /\ \A s \in Seq(Event), k \in Nat : Lies(s, k, log) => Lies(s, k, log')
  BY LogGrows
<1>2. /\ disk \in Seq(Event) /\ tail \in Seq(Event) /\ batch \in Seq(Event)
      /\ recovered \in Seq(Event) /\ Len(disk) \in Nat /\ cursor \in Nat /\ Len(log) \in Nat
  BY Lengths, Sequences DEF IInv
<1>3. DiskInv'  BY <1>1, <1>2 DEF IInv, DiskInv, disks
<1>4. CursorInv'  BY <1>1, <1>2 DEF IInv, CursorInv, disks, state, running, Alive
<1>5. ChainInv'
  <2>1. CASE session = "live"
    <3>1. \A op \in OpsOf(chain) : op.kind # "append"  BY <2>1 DEF IInv, ChainInv, Known
    <3> QED  BY <2>1, <3>1 DEF IInv, ChainInv, Known, running
  <2>2. CASE session # "live"
    <3>1. chain' = <<>>  BY <2>2, NobodyRuns DEF running
    <3> QED  BY <3>1, NoOps DEF ChainInv
  <2> QED  BY <2>1, <2>2
<1>6. BatchInv'  BY <1>1, <1>2 DEF IInv, BatchInv, Op, running, state
<1>7. FlushInv'
  <2>1. ASSUME NEW f \in Flushers PROVE flusher[f].goal <= Len(log')
    <3>1. flusher[f].goal \in Nat /\ flusher[f].goal <= Len(log)
      BY FlushTypes DEF IInv, FlushInv
    <3> QED  BY <1>1, <1>2, <3>1
  <2>2. session' # "live" => session # "live"  OBVIOUS
  <2> QED  BY <2>1, <2>2 DEF IInv, FlushInv, Covered, state
<1>8. AckInv'  BY DEF IInv, AckInv, disks, state
<1> QED  BY <1>1, <1>3, <1>4, <1>5, <1>6, <1>7, <1>8

LEMMA SetupEventSafe == ASSUME IInv, SetupEvent PROVE IInv'
<1>1. /\ session \in {"setup", "stored"} /\ session' = "setup"
      /\ Len(log) < MaxEvents /\ log' = Append(log, NextEvent)
      /\ UNCHANGED <<disks, stored, buffers, running, state, lease, callers, bounds>>
  BY DEF SetupEvent
<1>2. log' \in Seq(Event) /\ Len(log') <= MaxEvents /\ Len(log') = Len(log) + 1
  BY <1>1, LogGrows
<1>3. Types'
  BY <1>1, <1>2 DEF IInv, Types, disks, buffers, running, state, callers, bounds
<1>4. Numbered' /\ DiskInv' /\ CursorInv' /\ ChainInv' /\ BatchInv' /\ FlushInv' /\ AckInv'
  BY <1>1, LogStep DEF buffers, callers
<1>5. SetupInv'
  <2>1. Len(log) \in Nat /\ stored \in Nat  BY Lengths DEF IInv
  <2> QED  BY <1>1, <1>2, <2>1 DEF IInv, SetupInv, state
<1>6. BufferInv'  BY <1>1 DEF IInv, BufferInv, buffers
<1>7. CloseInv'
  BY <1>1 DEF IInv, CloseInv, buffers, callers, disks, running, state, bounds, Alive,
              DrainRuns, Op
<1> QED  BY <1>3, <1>4, <1>5, <1>6, <1>7 DEF IInv

LEMMA LiveEventSafe == ASSUME IInv, LiveEvent PROVE IInv'
<1>1. /\ session = "live" /\ Len(log) < MaxEvents /\ log' = Append(log, NextEvent)
      /\ buffered' = Append(buffered, NextEvent) /\ timer' = (timer \/ Arms)
      /\ UNCHANGED <<disks, session, stored, paused, draining, running, state, lease, callers,
                     bounds>>
  BY DEF LiveEvent
<1>2. /\ log' \in Seq(Event) /\ Len(log') <= MaxEvents /\ Len(log') = Len(log) + 1
      /\ NextEvent \in Event
  BY <1>1, LogGrows
<1>3. /\ buffered' \in Seq(Event) /\ Len(buffered') = Len(buffered) + 1 /\ buffered' # <<>>
      /\ buffered \in Seq(Event)
  <2>1. buffered \in Seq(Event)  BY DEF IInv, Types
  <2> QED  BY <1>1, <1>2, <2>1, AppendProperties
<1>4. Types'
  <2>1. timer' \in BOOLEAN  BY <1>1
  <2> QED  BY <1>1, <1>2, <1>3, <2>1 DEF IInv, Types, disks, running, state, callers, bounds
<1>5. Numbered' /\ DiskInv' /\ CursorInv' /\ ChainInv' /\ BatchInv' /\ FlushInv' /\ AckInv'
  <2>1. /\ UNCHANGED <<disks, draining, running, state, acked, flusher>>
        /\ session \in {"setup", "stored", "live"} /\ session' # "storing"
        /\ session' = session
    BY <1>1 DEF callers
  <2> QED  BY <1>1, <2>1, LogStep
<1>6. SetupInv'  BY <1>1 DEF SetupInv
<1>7. BufferInv'
  <2>1. /\ Lies(buffered, cursor + Len(batch), log)
        /\ cursor + Len(batch) + Len(buffered) = Len(log)
    BY <1>1 DEF IInv, BufferInv
  <2>2. /\ cursor + Len(batch) \in Nat /\ log \in Seq(Event)
        /\ cursor \in Nat /\ Len(batch) \in Nat /\ Len(buffered) \in Nat
    BY Lengths, Sequences DEF IInv
  <2>3. Lies(buffered', cursor + Len(batch), log')
    BY <1>1, <1>2, <1>3, <2>1, <2>2, LiesLonger
  <2>4. cursor + Len(batch) + Len(buffered') = Len(log')
    <3> PICK k \in Nat : k = cursor + Len(batch)  BY <2>2
    <3>1. k + (Len(buffered) + 1) = Len(log) + 1  BY <2>1, <2>2
    <3> QED  BY <1>2, <1>3, <3>1
  <2> QED  BY <1>1, <2>3, <2>4 DEF BufferInv, running, state
<1>8. CloseInv'
  BY <1>1, <1>3 DEF IInv, CloseInv, callers, disks, running, state, bounds, Alive,
              DrainRuns, Op
<1> QED  BY <1>4, <1>5, <1>6, <1>7, <1>8 DEF IInv

\* Storing before publication, and publication.
LEMMA StoreSuffixSafe == ASSUME IInv, StoreSuffix PROVE IInv'
<1>1. /\ session = "setup"
      /\ UNCHANGED <<disks, log, stored, buffers, step, batch, state, lease, callers, bounds>>
  BY DEF StoreSuffix
<1>2. /\ chain = <<>> /\ step = "waiting" /\ batch = <<>> /\ buffered = <<>>
      /\ \A f \in Flushers : flusher[f].at = "idle"
  BY <1>1, NobodyRuns
<1>3. Numbered' /\ DiskInv' /\ AckInv'  BY <1>1, Frame DEF state, disks, callers
<1>4. CursorInv'
  <2>1. Alive /\ step' = "waiting"  BY <1>1, <1>2 DEF Alive
  <2> QED  BY <1>1, <2>1 DEF IInv, CursorInv, disks, state
<1>5. FlushInv'  BY <1>1, <1>2 DEF IInv, FlushInv, Covered, callers, state, buffers
<1>6. BufferInv'  BY <1>1, <1>2 DEF BufferInv, buffers, StoreSuffix
<1>7. CASE UNCHANGED chain /\ session' \in {"stored", "failed"} /\ (session' = "stored" => stored = Len(log))
  <2>1. Types'
    BY <1>1, <1>7 DEF IInv, Types, disks, buffers, state, callers, bounds
  <2>2. ChainInv'  BY <1>2, <1>7, NoOps DEF ChainInv
  <2>3. BatchInv'  BY <1>1, <1>7 DEF IInv, BatchInv, Op, state
  <2>4. SetupInv'  BY <1>1, <1>7 DEF IInv, SetupInv, state
  <2>5. CloseInv'
    BY <1>1, <1>7 DEF IInv, CloseInv, buffers, callers, disks, state, bounds, Alive, DrainRuns, Op
  <2> QED  BY <1>3, <1>4, <1>5, <1>6, <2>1, <2>2, <2>3, <2>4, <2>5 DEF IInv
<1>8. CASE /\ stored < Len(log) /\ session' = "storing"
           /\ chain' = Append(chain, [kind |-> "append", upto |-> Len(log)])
  <2> PICK op : op = [kind |-> "append", upto |-> Len(log)]  OBVIOUS
  <2>1. op \in Ops /\ op.kind = "append" /\ op.upto = Len(log)
    <3>1. Len(log) \in 1 .. MaxEvents  BY <1>8, Lengths DEF IInv
    <3> QED  BY <3>1 DEF Ops
  <2>2. /\ chain \in Seq(Ops) /\ Distinct(chain) /\ OpsOf(chain) = {}
    BY <1>2, NoOps
  <2>3. /\ chain' \in Seq(Ops) /\ Distinct(chain') /\ OpsOf(chain') = {op}
    BY <1>8, <2>1, <2>2, LongerChain
  <2>4. Types'
    BY <1>1, <1>8, <2>3 DEF IInv, Types, disks, buffers, state, callers, bounds
  <2>5. ChainInv'
    <3>1. Known(op)'  BY <1>1, <1>8, <2>1 DEF Known
    <3> QED  BY <2>3, <3>1 DEF ChainInv
  <2>6. BatchInv'  BY <1>1, <1>2 DEF IInv, BatchInv, state
  <2>7. SetupInv'  BY <1>1, <1>8 DEF IInv, SetupInv, state
  <2>8. CloseInv'
    BY <1>1, <1>2, <1>8 DEF IInv, CloseInv, buffers, callers, disks, state, bounds, Alive, DrainRuns
  <2> QED  BY <1>3, <1>4, <1>5, <1>6, <2>4, <2>5, <2>6, <2>7, <2>8 DEF IInv
<1> QED  BY <1>7, <1>8 DEF StoreSuffix

LEMMA PublishSafe == ASSUME IInv, Publish PROVE IInv'
<1>1. /\ session = "stored" /\ closer.at = "open" /\ session' = "live"
      /\ UNCHANGED <<disks, log, stored, buffers, running, state, lease, callers, bounds>>
  BY DEF Publish
<1>2. /\ chain = <<>> /\ step = "waiting" /\ batch = <<>> /\ buffered = <<>>
      /\ \A f \in Flushers : flusher[f].at = "idle"
  BY <1>1, NobodyRuns
<1>3. Numbered' /\ DiskInv' /\ AckInv' /\ BatchInv'
  BY <1>1, Frame DEF state, disks, callers, running
<1>4. Types'
  BY <1>1 DEF IInv, Types, disks, buffers, running, state, callers, bounds
<1>5. CursorInv'  BY <1>1 DEF IInv, CursorInv, disks, state, Alive, running
<1>6. ChainInv'  BY <1>1, <1>2, NoOps DEF ChainInv, running
<1>7. SetupInv'  BY <1>1 DEF SetupInv
<1>8. BufferInv'
  <2>1. cursor = Len(log) /\ cursor \in Nat /\ log \in Seq(Event)
    BY <1>1, Lengths, Sequences DEF IInv, SetupInv
  <2>2. Len(<<>>) = 0 /\ cursor \in 0 .. Len(log)  BY <2>1
  <2>3. Lies(<<>>, cursor, log)  BY <2>1, <2>2, LiesNothing
  <2> QED  BY <1>1, <1>2, <2>1, <2>2, <2>3 DEF BufferInv, buffers, running, state
<1>9. FlushInv'  BY <1>1, <1>2 DEF IInv, FlushInv, Covered, callers, state, buffers
<1>10. CloseInv'
  BY <1>1 DEF IInv, CloseInv, buffers, callers, disks, state, bounds, Alive, DrainRuns, Op, running
<1> QED  BY <1>3, <1>4, <1>5, <1>6, <1>7, <1>8, <1>9, <1>10 DEF IInv

-----------------------------------------------------------------------------
(***************************************************************************)
(* What drainLive() and its loop may do, whoever called it.                *)
(***************************************************************************)
DrainMove ==
  /\ UNCHANGED <<disks, sessions, buffered, step, batch, state, lease, acked, bounds>>
  /\ timer' \in BOOLEAN /\ paused' \in BOOLEAN
  /\ \/ UNCHANGED <<draining, chain>>
     \/ /\ draining \in {"none", "written"} /\ buffered = <<>>
        /\ draining' = "ended" /\ UNCHANGED chain
     \/ /\ draining \in {"none", "written"} /\ buffered # <<>>
        /\ draining' = "queued" /\ chain' = Append(chain, [kind |-> "drain"])

\* close() goes into another round, or no step of it is taken.
CloseWaits == closer' = closer \/ (closer'.at = "draining" /\ closer'.failed = closer.failed)

LEMMA DrainIdle ==
  ASSUME IInv, draining # "queued"
  PROVE  /\ \A op \in OpsOf(chain) : op.kind # "drain"
         /\ ~DrainRuns
         /\ session = "live" /\ buffered = <<>> => cursor = Len(log)
<1>1. \A op \in OpsOf(chain) : op.kind # "drain"  BY DEF IInv, ChainInv, Known
<1>2. chain # <<>> => Op.kind # "drain"  BY Running
<1>3. ~DrainRuns  BY <1>2 DEF IInv, BatchInv, DrainRuns
<1>4. ASSUME session = "live", buffered = <<>> PROVE cursor = Len(log)
  <2>1. Len(batch) = 0  BY <1>3, <1>4, NothingInFlight DEF DrainRuns
  <2>2. cursor + Len(batch) + Len(buffered) = Len(log)  BY <1>4 DEF IInv, BufferInv
  <2>3. Len(buffered) = 0 /\ cursor \in Nat /\ Len(log) \in Nat  BY <1>4, Lengths DEF IInv
  <2> QED  BY <2>1, <2>2, <2>3
<1> QED  BY <1>1, <1>3, <1>4

LEMMA DrainMoved ==
  ASSUME IInv, DrainMove
  PROVE  /\ Numbered' /\ DiskInv' /\ CursorInv' /\ BatchInv' /\ SetupInv' /\ BufferInv' /\ AckInv'
         /\ closer' \in Closings /\ flusher' \in [Flushers -> Flushes] => Types'
         /\ (\A f \in Flushers : flusher[f].at = "flushing" => flusher'[f].at = "flushing")
            => ChainInv'
         /\ flusher' = flusher => FlushInv'
         /\ CloseWaits => CloseInv'
<1>1. /\ UNCHANGED <<disks, sessions, buffered, step, batch, state, lease, acked, bounds>>
      /\ timer' \in BOOLEAN /\ paused' \in BOOLEAN
  BY DEF DrainMove
<1>2. Numbered' /\ DiskInv' /\ CursorInv' /\ SetupInv' /\ BufferInv' /\ AckInv'
  BY <1>1, Frame DEF sessions, disks, state
<1> PICK drain : drain = [kind |-> "drain"]  OBVIOUS
<1>3. drain \in Ops /\ drain.kind = "drain"  BY DEF Ops
<1>4. \/ UNCHANGED <<draining, chain>>
      \/ /\ draining \in {"none", "written"} /\ buffered = <<>>
         /\ draining' = "ended" /\ UNCHANGED chain
      \/ /\ draining \in {"none", "written"} /\ buffered # <<>>
         /\ draining' = "queued" /\ chain' = Append(chain, drain)
  BY DEF DrainMove
<1>5. /\ chain' \in Seq(Ops) /\ Distinct(chain')
      /\ OpsOf(chain') \subseteq OpsOf(chain) \cup {drain}
      /\ chain # <<>> => chain' # <<>> /\ Op' = Op
      /\ chain' # chain => draining' = "queued" /\ session = "live"
      /\ drain \in OpsOf(chain') => session = "live" /\ draining' = "queued"
  <2>1. chain \in Seq(Ops) /\ Distinct(chain) /\ \A op \in OpsOf(chain) : Known(op)
    BY DEF IInv, Types, ChainInv
  <2>2. CASE chain' = chain
    <3>1. drain \in OpsOf(chain) => session = "live" /\ draining = "queued"
      BY <1>3, <2>1 DEF Known
    <3>2. drain \in OpsOf(chain) => draining' = "queued"  BY <1>4, <2>2, <3>1, DrainIdle, <1>3
    <3> QED  BY <2>1, <2>2, <3>1, <3>2 DEF Op
  <2>3. CASE chain' # chain
    <3>1. /\ draining \in {"none", "written"} /\ buffered # <<>>
          /\ draining' = "queued" /\ chain' = Append(chain, drain)
      BY <1>4, <2>3
    <3>2. drain \notin OpsOf(chain)  BY <1>3, <3>1, DrainIdle
    <3>3. session = "live"  BY <3>1 DEF IInv, BufferInv
    <3>4. /\ chain' \in Seq(Ops) /\ Distinct(chain') /\ OpsOf(chain') = OpsOf(chain) \cup {drain}
          /\ chain' # <<>> /\ (chain # <<>> => Head(chain') = Head(chain))
      BY <1>3, <2>1, <3>1, <3>2, LongerChain
    <3> QED  BY <3>1, <3>3, <3>4 DEF Op
  <2> QED  BY <2>2, <2>3
<1>6. BatchInv'  BY <1>1, <1>5 DEF IInv, BatchInv, state, sessions
<1>7. ASSUME closer' \in Closings, flusher' \in [Flushers -> Flushes] PROVE Types'
  <2>1. draining' \in {"none", "queued", "written", "ended", "failed"}
    BY <1>4 DEF IInv, Types
  <2> QED  BY <1>1, <1>5, <1>7, <2>1 DEF IInv, Types, disks, sessions, state, bounds
<1>8. ASSUME \A f \in Flushers : flusher[f].at = "flushing" => flusher'[f].at = "flushing"
      PROVE  ChainInv'
  <2> SUFFICES ASSUME NEW op \in OpsOf(chain') PROVE Known(op)'
    BY <1>5 DEF ChainInv
  <2>1. CASE op = drain  BY <1>1, <1>3, <1>5, <2>1 DEF Known, sessions
  <2>2. CASE op # drain
    <3>1. op \in OpsOf(chain) /\ op \in Ops
      <4>1. op \in OpsOf(chain) /\ chain \in Seq(Ops)  BY <1>5, <2>2 DEF IInv, Types
      <4> QED  BY <4>1, ElementOfSeq DEF OpsOf
    <3>2. Known(op) /\ op.kind # "drain" /\ (op.kind = "flush" => op.by \in Flushers)
      BY <1>3, <2>2, <3>1, OpTypes DEF IInv, ChainInv
    <3> QED  BY <1>1, <1>8, <3>2 DEF Known, sessions
  <2> QED  BY <2>1, <2>2
<1>9. ASSUME flusher' = flusher PROVE FlushInv'
  <2>1. ASSUME NEW f \in Flushers, ~flusher[f].late, Covered(f)'
        PROVE  flusher[f].goal <= cursor
    <3>1. CASE Covered(f)  BY <2>1, <3>1 DEF IInv, FlushInv
    <3>2. CASE ~Covered(f)
      <4>1. flusher[f].at = "draining" /\ draining' = "ended" /\ draining # "ended"
        BY <1>9, <2>1, <3>2 DEF Covered
      <4>2. draining # "queued" /\ buffered = <<>>  BY <1>4, <4>1
      <4>3. session = "live"  BY <4>1 DEF IInv, FlushInv
      <4>4. cursor = Len(log) /\ flusher[f].goal <= Len(log)
        BY <4>2, <4>3, DrainIdle DEF IInv, FlushInv
      <4> QED  BY <4>4
    <3> QED  BY <3>1, <3>2
  <2> QED  BY <1>1, <1>9, <2>1 DEF IInv, FlushInv, sessions, state
<1>10. ASSUME CloseWaits PROVE CloseInv'
  <2>1. DrainRuns => DrainRuns'
    <3>1. step # "waiting" => chain # <<>>  BY DEF IInv, BatchInv
    <3> QED  BY <1>1, <1>5, <3>1 DEF DrainRuns
  <2> SUFFICES ASSUME faults' = 0 PROVE CloseInv'  BY DEF CloseInv
  <2>2. faults = 0  BY <1>1 DEF bounds
  <2>3. draining' # "failed" /\ ~closer'.failed
    BY <1>4, <1>10, <2>2 DEF IInv, CloseInv, CloseWaits
  <2>4. Alive' => materialized' = exists'
    BY <1>1, <2>2 DEF IInv, CloseInv, Alive, sessions, disks, state
  <2>5. draining' = "queued" => buffered' # <<>> \/ DrainRuns'
    BY <1>1, <1>4, <2>1, <2>2 DEF IInv, CloseInv
  <2>6. closer'.at \in {"leaving", "releasing", "closed"} => closer' = closer
    BY <1>10 DEF CloseWaits
  <2> QED  BY <1>1, <2>1, <2>2, <2>3, <2>4, <2>5, <2>6 DEF IInv, CloseInv, sessions, state
<1> QED  BY <1>2, <1>6, <1>7, <1>8, <1>9, <1>10

LEMMA DrainLiveMoves ==
  ASSUME IInv, NEW armed \in BOOLEAN, DrainLive(armed),
         UNCHANGED <<disks, sessions, buffered, step, batch, state, lease, acked, bounds>>
  PROVE  DrainMove
<1>1. paused \in BOOLEAN /\ timer \in BOOLEAN  BY DEF IInv, Types
<1>2. CASE draining # "none" /\ timer' = armed /\ UNCHANGED <<paused, draining, chain>>
  BY <1>1, <1>2 DEF DrainMove
<1>3. CASE draining = "none" /\ timer' = FALSE /\ paused' = FALSE
  BY <1>1, <1>3 DEF DrainMove, DrainLive
<1> QED  BY <1>2, <1>3 DEF DrainLive

LEMMA TimerFiresSafe == ASSUME IInv, TimerFires PROVE IInv'
<1>1. /\ DrainLive(FALSE) /\ UNCHANGED <<closer, flusher>>
      /\ UNCHANGED <<disks, sessions, buffered, step, batch, state, lease, acked, bounds>>
  BY DEF TimerFires, callers
<1>2. DrainMove  BY <1>1, DrainLiveMoves
<1>3. closer' \in Closings /\ flusher' \in [Flushers -> Flushes] /\ CloseWaits
  BY <1>1 DEF IInv, Types, CloseWaits
<1> QED  BY <1>1, <1>2, <1>3, DrainMoved DEF IInv

LEMMA DrainContinuesSafe == ASSUME IInv, DrainContinues PROVE IInv'
<1>1. /\ draining = "written" /\ UNCHANGED <<closer, flusher, timer, paused>>
      /\ UNCHANGED <<disks, sessions, buffered, step, batch, state, lease, acked, bounds>>
  BY DEF DrainContinues, callers
<1>2. \/ /\ buffered # <<>> /\ draining' = "queued" /\ chain' = Append(chain, [kind |-> "drain"])
      \/ buffered = <<>> /\ draining' = "ended" /\ UNCHANGED chain
  BY DEF DrainContinues, LooksAgain
<1>3. timer' \in BOOLEAN /\ paused' \in BOOLEAN  BY <1>1 DEF IInv, Types
<1>4. DrainMove  BY <1>1, <1>2, <1>3 DEF DrainMove
<1>5. closer' \in Closings /\ flusher' \in [Flushers -> Flushes] /\ CloseWaits
  BY <1>1 DEF IInv, Types, CloseWaits
<1> QED  BY <1>1, <1>4, <1>5, DrainMoved DEF IInv

LEMMA CloseTypes ==
  ASSUME Types
  PROVE  /\ closer.at \in {"open", "draining", "drained", "waiting", "leaving", "releasing",
                           "closed"}
         /\ closer.awaits \in Nat /\ closer.failed \in BOOLEAN /\ closer.covers \in 0 .. MaxEvents
         /\ closer.covers \in Nat
         /\ closer = [at |-> closer.at, awaits |-> closer.awaits, failed |-> closer.failed,
                      covers |-> closer.covers]
<1>1. closer \in Closings /\ MaxEvents \in Nat  BY SessionHandleConstants DEF Types
<1> QED  BY <1>1 DEF Closings

LEMMA CloseSafe == ASSUME IInv, Close PROVE IInv'
<1>1. /\ DrainLive(timer) /\ UNCHANGED flusher /\ closer' = [closer EXCEPT !.at = "draining"]
      /\ UNCHANGED <<disks, sessions, buffered, step, batch, state, lease, acked, bounds>>
  BY DEF Close
<1>2. timer \in BOOLEAN /\ flusher \in [Flushers -> Flushes] /\ closer \in Closings
  BY DEF IInv, Types
<1>3. DrainMove  BY <1>1, <1>2, DrainLiveMoves
<1>4. closer' \in Closings /\ CloseWaits  BY <1>1, <1>2 DEF Closings, CloseWaits
<1> QED  BY <1>1, <1>2, <1>3, <1>4, DrainMoved DEF IInv

LEMMA FlushCallSafe == ASSUME IInv, NEW g \in Flushers, FlushCall(g) PROVE IInv'
<1>1. /\ session = "live" /\ flusher[g].at = "idle" /\ DrainLive(timer) /\ UNCHANGED closer
      /\ flusher' = [flusher EXCEPT ![g] =
           [at |-> "draining", goal |-> Len(log), late |-> draining = "ended"]]
      /\ UNCHANGED <<disks, sessions, buffered, step, batch, state, lease, acked, bounds>>
  BY DEF FlushCall
<1>2. timer \in BOOLEAN /\ flusher \in [Flushers -> Flushes] /\ closer \in Closings
  BY DEF IInv, Types
<1>3. DrainMove  BY <1>1, <1>2, DrainLiveMoves
<1> PICK new : new = [at |-> "draining", goal |-> Len(log), late |-> draining = "ended"]
  OBVIOUS
<1>4. /\ new \in Flushes /\ new.at = "draining" /\ new.goal = Len(log)
      /\ ~new.late => draining # "ended"
  <2>1. (draining = "ended") \in BOOLEAN  OBVIOUS
  <2>2. Len(log) \in 0 .. MaxEvents  BY Lengths DEF IInv
  <2> QED  BY <2>1, <2>2 DEF Flushes
<1>5. /\ flusher' \in [Flushers -> Flushes] /\ flusher'[g] = new
      /\ \A f \in Flushers : f # g => flusher'[f] = flusher[f]
  BY <1>1, <1>2, <1>4
<1>6. \A f \in Flushers : flusher[f].at = "flushing" => flusher'[f].at = "flushing"
  BY <1>1, <1>5
<1>7. ASSUME draining' = "ended", draining # "ended" PROVE cursor = Len(log)
  <2>1. draining # "queued" /\ buffered = <<>>  BY <1>3, <1>7 DEF DrainMove
  <2> QED  BY <1>1, <2>1, DrainIdle
<1>8. FlushInv'
  <2>1. log' = log /\ session' = session /\ cursor' = cursor
    BY <1>1 DEF sessions, state
  <2>2. ASSUME NEW f \in Flushers
        PROVE  /\ flusher'[f].goal <= Len(log)
               /\ flusher'[f].at = "idle" => flusher'[f].goal = 0
               /\ ~flusher'[f].late /\ Covered(f)' => flusher'[f].goal <= cursor
    <3>1. CASE f = g
      <4>1. Len(log) \in Nat  BY Lengths DEF IInv
      <4>2. Covered(f)' => draining' = "ended"  BY <1>4, <1>5, <3>1 DEF Covered
      <4>3. ~flusher'[f].late /\ Covered(f)' => cursor = Len(log)
        BY <1>4, <1>5, <1>7, <3>1, <4>2
      <4> QED  BY <1>4, <1>5, <3>1, <4>1, <4>3
    <3>2. CASE f # g
      <4>1. flusher'[f] = flusher[f]  BY <1>5, <3>2
      <4>2. /\ flusher[f].goal <= Len(log)
            /\ flusher[f].at = "idle" => flusher[f].goal = 0
            /\ ~flusher[f].late /\ Covered(f) => flusher[f].goal <= cursor
        BY DEF IInv, FlushInv
      <4>3. Covered(f)' => Covered(f) \/ (draining' = "ended" /\ draining # "ended")
        BY <4>1 DEF Covered
      <4> QED  BY <1>7, <4>1, <4>2, <4>3
    <3> QED  BY <3>1, <3>2
  <2> QED  BY <1>1, <2>1, <2>2 DEF FlushInv
<1>9. CloseWaits  BY <1>1 DEF CloseWaits
<1> QED  BY <1>1, <1>2, <1>3, <1>5, <1>6, <1>8, <1>9, DrainMoved DEF IInv

LEMMA DrainSettlesSafe == ASSUME IInv, DrainSettles PROVE IInv'
<1>1. /\ draining \in {"ended", "failed"} /\ draining' = "none"
      /\ flusher' = [f \in Flushers |->
           IF flusher[f].at # "draining" THEN flusher[f]
           ELSE IF draining = "ended" THEN [flusher[f] EXCEPT !.at = "drained"] ELSE NoFlush]
      /\ closer' = IF closer.at # "draining" THEN closer
                   ELSE [closer EXCEPT !.at = "drained", !.failed = draining = "failed"]
      /\ UNCHANGED <<disks, sessions, buffered, timer, paused, running, state, lease, acked,
                     bounds>>
  BY DEF DrainSettles
<1>2. Numbered' /\ DiskInv' /\ CursorInv' /\ BatchInv' /\ SetupInv' /\ BufferInv' /\ AckInv'
  BY <1>1, Frame DEF sessions, disks, state, running
<1>3. NoFlush \in Flushes /\ NoFlush.at = "idle" /\ NoFlush.goal = 0
  BY SessionHandleConstants DEF NoFlush, Flushes
<1>4. ASSUME NEW f \in Flushers
      PROVE  \/ flusher[f].at # "draining" /\ flusher'[f] = flusher[f]
             \/ /\ flusher[f].at = "draining" /\ draining = "ended"
                /\ flusher'[f] \in Flushes /\ flusher'[f].at = "drained"
                /\ flusher'[f].goal = flusher[f].goal /\ flusher'[f].late = flusher[f].late
             \/ flusher[f].at = "draining" /\ flusher'[f] = NoFlush
  <2>1. flusher[f] \in Flushes  BY FlushTypes DEF IInv
  <2>2. CASE flusher[f].at # "draining"  BY <1>1, <2>2
  <2>3. CASE flusher[f].at = "draining" /\ draining = "ended"
    <3> PICK r : r = flusher[f]  OBVIOUS
    <3>1. flusher'[f] = [r EXCEPT !.at = "drained"]  BY <1>1, <2>3
    <3> QED  BY <2>1, <2>3, <3>1 DEF Flushes
  <2>4. CASE flusher[f].at = "draining" /\ draining # "ended"  BY <1>1, <2>4
  <2> QED  BY <2>2, <2>3, <2>4
<1>5. closer' \in Closings /\ (closer' = closer \/ closer'.at = "drained")
      /\ (closer'.failed => closer.failed \/ draining = "failed")
  <2> PICK c \in Closings : c = closer  BY DEF IInv, Types
  <2>1. CASE closer.at # "draining"  BY <1>1, <2>1
  <2>2. CASE closer.at = "draining"
    <3>1. closer' = [c EXCEPT !.at = "drained", !.failed = draining = "failed"]  BY <1>1, <2>2
    <3> QED  BY <3>1 DEF Closings
  <2> QED  BY <2>1, <2>2
<1>6. Types'
  <2>1. \A f \in Flushers : flusher'[f] \in Flushes  BY <1>3, <1>4, FlushTypes DEF IInv
  <2>2. flusher' \in [Flushers -> Flushes]
    <3>1. flusher' = [f \in Flushers |-> flusher'[f]]  BY <1>1
    <3> QED  BY <2>1, <3>1
  <2> QED  BY SMTT(20), <1>1, <1>5, <2>2 DEF IInv, Types, disks, sessions, running, state, bounds
<1>7. ChainInv'
  <2>1. chain \in Seq(Ops) /\ Distinct(chain) /\ chain' = chain /\ session' = session
        /\ log' = log
    BY <1>1 DEF IInv, Types, ChainInv, running, sessions
  <2>2. ASSUME NEW op \in OpsOf(chain) PROVE Known(op)'
    <3>1. op \in Ops  BY <2>1, ElementOfSeq DEF OpsOf
    <3>2. Known(op) /\ op.kind # "drain" /\ (op.kind = "flush" => op.by \in Flushers)
      BY <1>1, <3>1, OpTypes, DrainIdle DEF IInv, ChainInv
    <3>3. op.kind = "flush" => flusher'[op.by].at = "flushing"  BY <1>4, <3>2 DEF Known
    <3> QED  BY <2>1, <3>2, <3>3 DEF Known
  <2> QED  BY <2>1, <2>2 DEF ChainInv
<1>8. FlushInv'
  <2>1. log' = log /\ session' = session /\ cursor' = cursor
    BY <1>1 DEF sessions, state
  <2>2. cursor \in Nat /\ Len(log) \in Nat  BY Lengths DEF IInv
  <2>3. ASSUME NEW f \in Flushers
        PROVE  /\ flusher'[f].goal <= Len(log)
               /\ flusher'[f].at = "idle" => flusher'[f].goal = 0
               /\ ~flusher'[f].late /\ Covered(f)' => flusher'[f].goal <= cursor
               /\ flusher[f].at = "idle" => flusher'[f].at = "idle"
    BY <1>1, <1>3, <1>4, <2>2 DEF IInv, FlushInv, Covered
  <2> QED  BY <2>1, <2>3 DEF IInv, FlushInv
<1>9. CloseInv'
  <2> SUFFICES ASSUME faults' = 0 PROVE CloseInv'  BY DEF CloseInv
  <2>1. faults = 0 /\ DrainRuns' = DrainRuns
    BY <1>1 DEF bounds, running, DrainRuns, Op
  <2>2. ~closer'.failed  BY <1>5, <2>1 DEF IInv, CloseInv
  <2> QED  BY <1>1, <1>5, <2>1, <2>2
       DEF IInv, CloseInv, sessions, state, disks, running, Alive
<1> QED  BY <1>2, <1>6, <1>7, <1>8, <1>9 DEF IInv

LEMMA FlushDrainedSafe == ASSUME IInv, NEW g \in Flushers, FlushDrained(g) PROVE IInv'
<1>1. /\ flusher[g].at = "drained"
      /\ UNCHANGED <<disks, sessions, buffers, step, batch, state, lease, closer, acked, bounds>>
  BY DEF FlushDrained
<1>2. Numbered' /\ DiskInv' /\ CursorInv' /\ SetupInv' /\ BufferInv' /\ AckInv'
  BY <1>1, Frame DEF sessions, disks, state, buffers
<1>3. /\ session = "live" /\ flusher[g].goal <= Len(log)
      /\ ~flusher[g].late => flusher[g].goal <= cursor
  BY <1>1 DEF IInv, FlushInv, Covered
<1>4. /\ chain \in Seq(Ops) /\ Distinct(chain) /\ OpsOf(chain) \subseteq Ops
      /\ \A op \in OpsOf(chain) : Known(op) /\ (op.kind = "flush" => op.by # g)
  <2>1. chain \in Seq(Ops) /\ Distinct(chain) /\ \A op \in OpsOf(chain) : Known(op)
    BY DEF IInv, Types, ChainInv
  <2> QED  BY <1>1, <2>1, ElementOfSeq DEF Known, OpsOf
<1>5. ASSUME /\ flusher' \in [Flushers -> Flushes]
             /\ \A f \in Flushers : f # g => flusher'[f] = flusher[f]
             /\ flusher'[g].goal <= Len(log)
             /\ flusher'[g].at = "idle" => flusher'[g].goal = 0
             /\ flusher'[g].late = flusher[g].late \/ flusher'[g].at = "idle"
             /\ ~flusher'[g].late => flusher'[g].goal <= cursor,
             chain' \in Seq(Ops), Distinct(chain'),
             chain # <<>> => chain' # <<>> /\ Op' = Op,
             \A op \in OpsOf(chain') : op \in OpsOf(chain) \/ Known(op)'
      PROVE  IInv'
  <2>1. Types'
    <3>1. flusher' \in [Flushers -> Flushes] /\ chain' \in Seq(Ops)  BY <1>5
    <3> QED  BY SMTT(20), <1>1, <3>1 DEF IInv, Types, disks, sessions, buffers, state, bounds
  <2>2. ChainInv'
    <3>1. ASSUME NEW op \in OpsOf(chain') PROVE Known(op)'
      <4>1. CASE op \in OpsOf(chain)
        <5>1. op.kind = "flush" => op.by \in Flushers  BY <1>4, <4>1, OpTypes
        <5> QED  BY <1>1, <1>4, <1>5, <4>1, <5>1 DEF Known, sessions, buffers
      <4> QED  BY <1>5, <4>1
    <3> QED  BY <1>5, <3>1 DEF ChainInv
  <2>3. BatchInv'  BY <1>1, <1>5 DEF IInv, BatchInv, state, sessions
  <2>4. FlushInv'
    <3>1. ASSUME NEW f \in Flushers
          PROVE  /\ flusher'[f].goal <= Len(log)
                 /\ flusher'[f].at = "idle" => flusher'[f].goal = 0
                 /\ ~flusher'[f].late /\ Covered(f)' => flusher'[f].goal <= cursor
      BY <1>1, <1>5 DEF IInv, FlushInv, Covered, buffers
    <3> QED  BY <1>1, <1>3, <3>1 DEF FlushInv, sessions, state
  <2>5. CloseInv'
    <3>1. DrainRuns => DrainRuns'
      <4>1. step # "waiting" => chain # <<>>  BY DEF IInv, BatchInv
      <4> QED  BY <1>1, <1>5, <4>1 DEF DrainRuns
    <3> QED  BY <1>1, <3>1 DEF IInv, CloseInv, sessions, state, disks, buffers, Alive, bounds
  <2> QED  BY <1>2, <2>1, <2>2, <2>3, <2>4, <2>5 DEF IInv
<1>6. NoFlush \in Flushes /\ NoFlush.at = "idle" /\ NoFlush.goal = 0 /\ Len(log) \in Nat
      /\ cursor \in Nat /\ flusher \in [Flushers -> Flushes]
  <2>1. NoFlush \in Flushes  BY SessionHandleConstants DEF NoFlush, Flushes
  <2>2. flusher \in [Flushers -> Flushes]  BY DEF IInv, Types
  <2> QED  BY <2>1, <2>2, Lengths DEF NoFlush, IInv
<1>7. CASE flusher' = [flusher EXCEPT ![g] = NoFlush] /\ UNCHANGED chain
  <2>1. Op' = Op  BY <1>7 DEF Op
  <2> QED  BY <1>4, <1>5, <1>6, <1>7, <2>1
<1>8. CASE /\ flusher' = [flusher EXCEPT ![g].at = "flushing"]
           /\ chain' = Append(chain, [kind |-> "flush", by |-> g])
  <2> PICK op : op = [kind |-> "flush", by |-> g]  OBVIOUS
  <2>1. op \in Ops /\ op.kind = "flush" /\ op.by = g  BY DEF Ops
  <2>2. op \notin OpsOf(chain)  BY <1>4, <2>1
  <2>3. /\ chain' \in Seq(Ops) /\ Distinct(chain') /\ OpsOf(chain') = OpsOf(chain) \cup {op}
        /\ chain' # <<>> /\ (chain # <<>> => Head(chain') = Head(chain))
    BY <1>4, <1>8, <2>1, <2>2, LongerChain
  <2>4. chain # <<>> => Op' = Op  BY <2>3 DEF Op
  <2> PICK r \in Flushes : r = flusher[g]  BY FlushTypes DEF IInv
  <2>5. flusher' = [flusher EXCEPT ![g] = [r EXCEPT !.at = "flushing"]]  BY <1>8
  <2>6. /\ [r EXCEPT !.at = "flushing"] \in Flushes
        /\ [r EXCEPT !.at = "flushing"].at = "flushing"
        /\ [r EXCEPT !.at = "flushing"].goal = r.goal
        /\ [r EXCEPT !.at = "flushing"].late = r.late
    BY DEF Flushes
  <2>7. /\ flusher' \in [Flushers -> Flushes]
        /\ flusher'[g] = [r EXCEPT !.at = "flushing"]
        /\ \A f \in Flushers : f # g => flusher'[f] = flusher[f]
    BY <1>6, <2>5, <2>6
  <2>8. Known(op)'  BY <1>1, <1>3, <2>1, <2>6, <2>7 DEF Known, sessions
  <2> QED  BY <1>3, <1>5, <2>3, <2>4, <2>6, <2>7, <2>8
<1> QED  BY <1>7, <1>8 DEF FlushDrained

\* A step of close() that moves nothing else.
LEMMA CloseMoves ==
  ASSUME IInv, UNCHANGED <<disks, sessions, buffers, running, state, flusher, acked, bounds>>,
         lease' \in {"none", "held", "released"}, closer' \in Closings,
         faults = 0 => /\ ~closer'.failed
                       /\ session = "live" /\ closer'.at \in {"leaving", "releasing", "closed"} =>
                            \/ closer'.covers <= cursor
                            \/ /\ closer'.at = "leaving" /\ closer'.awaits > 0
                               /\ DrainRuns /\ closer'.covers <= cursor + Len(batch)
  PROVE  IInv'
<1>1. /\ Numbered' /\ DiskInv' /\ CursorInv' /\ ChainInv' /\ BatchInv' /\ SetupInv'
      /\ BufferInv' /\ FlushInv' /\ AckInv'
  BY Frame DEF sessions, disks, state, buffers, running
<1>2. Types'
  BY DEF IInv, Types, disks, sessions, buffers, running, state, bounds
<1>3. CloseInv'
  <2> SUFFICES ASSUME faults' = 0 PROVE CloseInv'  BY DEF CloseInv
  <2>1. faults = 0 /\ DrainRuns' = DrainRuns  BY DEF bounds, running, DrainRuns, Op
  <2> QED  BY <2>1 DEF IInv, CloseInv, sessions, state, disks, running, buffers, Alive
<1> QED  BY <1>1, <1>2, <1>3 DEF IInv

LEMMA CloseDrainedSafe == ASSUME IInv, CloseDrained PROVE IInv'
<1> PICK c \in Closings : c = closer  BY DEF IInv, Types
<1> PICK n \in Nat : n = Len(chain)  BY Lengths DEF IInv
<1>1. /\ closer' = [c EXCEPT !.at = IF c.failed THEN "leaving" ELSE "waiting", !.awaits = n]
      /\ UNCHANGED <<disks, sessions, buffers, running, state, lease, flusher, acked, bounds>>
  BY DEF CloseDrained, GivesUp
<1>2. /\ closer' \in Closings /\ closer'.failed = c.failed
      /\ ~c.failed => closer'.at = "waiting"
  BY <1>1 DEF Closings
<1>3. faults = 0 => ~c.failed  BY DEF IInv, CloseInv
<1>4. lease' \in {"none", "held", "released"}  BY <1>1 DEF IInv, Types
<1> QED  BY <1>1, <1>2, <1>3, <1>4, CloseMoves

LEMMA CloseLooksSafe == ASSUME IInv, CloseLooks PROVE IInv'
<1> PICK c \in Closings : c = closer  BY DEF IInv, Types
<1>1. CASE /\ buffered = <<>>
           /\ closer' = [closer EXCEPT !.at = "leaving", !.awaits = Len(chain),
                                       !.covers = Len(log)]
           /\ UNCHANGED <<timer, paused, draining, chain>>
  <2> PICK n \in Nat : n = Len(chain)  BY Lengths DEF IInv
  <2> PICK p \in 0 .. MaxEvents : p = Len(log)  BY Lengths DEF IInv
  <2>1. closer' = [c EXCEPT !.at = "leaving", !.awaits = n, !.covers = p]  BY <1>1
  <2>2. /\ closer' \in Closings /\ closer'.failed = c.failed /\ closer'.at = "leaving"
        /\ closer'.awaits = n /\ closer'.covers = p
    BY <2>1 DEF Closings
  <2>3. UNCHANGED <<disks, sessions, buffers, running, state, lease, flusher, acked, bounds>>
    BY <1>1 DEF CloseLooks, buffers, running
  <2>4. faults = 0 => ~c.failed  BY DEF IInv, CloseInv
  <2>5. ASSUME session = "live" PROVE p <= cursor \/ (n > 0 /\ DrainRuns /\ p <= cursor + Len(batch))
    <3>1. cursor + Len(batch) + Len(buffered) = p /\ Len(buffered) = 0
          /\ cursor \in Nat /\ Len(batch) \in Nat
      BY <1>1, <2>5, Lengths DEF IInv, BufferInv
    <3>2. CASE DrainRuns
      <4>1. chain # <<>>  BY <3>2 DEF IInv, BatchInv, DrainRuns
      <4>2. n > 0  BY <4>1, EmptySeq DEF IInv, Types
      <4> QED  BY <3>1, <3>2, <4>2
    <3>3. CASE ~DrainRuns
      <4>1. Len(batch) = 0  BY <2>5, <3>3, NothingInFlight DEF DrainRuns
      <4> QED  BY <3>1, <4>1
    <3> QED  BY <3>2, <3>3
  <2>6. lease' \in {"none", "held", "released"}  BY <2>3 DEF IInv, Types
  <2> QED  BY <2>2, <2>3, <2>4, <2>5, <2>6, CloseMoves
<1>2. CASE DrainLive(timer) /\ closer' = [closer EXCEPT !.at = "draining"]
  <2>1. UNCHANGED <<disks, sessions, buffered, step, batch, state, lease, flusher, acked, bounds>>
    BY DEF CloseLooks
  <2>2. timer \in BOOLEAN /\ flusher \in [Flushers -> Flushes] /\ closer \in Closings
    BY DEF IInv, Types
  <2>3. DrainMove  BY <1>2, <2>1, <2>2, DrainLiveMoves
  <2>4. closer' \in Closings /\ CloseWaits  BY <1>2, <2>2 DEF Closings, CloseWaits
  <2> QED  BY <2>1, <2>2, <2>3, <2>4, DrainMoved DEF IInv
<1> QED  BY <1>1, <1>2 DEF CloseLooks, NothingBuffered

LEMMA CloseLeavesSafe == ASSUME IInv, CloseLeaves PROVE IInv'
<1> PICK c \in Closings : c = closer  BY DEF IInv, Types
<1>1. UNCHANGED <<disks, sessions, buffers, running, state, flusher, acked, bounds>>
  BY DEF CloseLeaves
<1>2. faults = 0 => ~c.failed  BY DEF IInv, CloseInv
<1>3. c.awaits \in Nat /\ lease \in {"none", "held", "released"}  BY DEF Closings, IInv, Types
<1>4. \/ /\ c.at = "leaving" /\ c.awaits = 0 /\ closer' = [c EXCEPT !.at = "releasing"]
      \/ c.at = "releasing" /\ closer' = [c EXCEPT !.at = "closed"]
  BY DEF CloseLeaves
<1>5. /\ closer' \in Closings /\ closer'.failed = c.failed /\ closer'.covers = c.covers
  BY <1>4 DEF Closings
<1>6. faults = 0 /\ session = "live" => c.covers <= cursor
  BY <1>3, <1>4 DEF IInv, CloseInv
<1>7. lease' \in {"none", "held", "released"}  BY <1>3 DEF CloseLeaves
<1> QED  BY <1>1, <1>2, <1>5, <1>6, <1>7, CloseMoves

-----------------------------------------------------------------------------
(***************************************************************************)
(* How the running operation ends or goes on, apart from the artifact and  *)
(* what the handle knows of it.                                            *)
(***************************************************************************)
FileTypes ==
  /\ disk \in Seq(Event) /\ tail \in Seq(Event) /\ recovered \in Seq(Event)
  /\ torn \in BOOLEAN /\ exists \in BOOLEAN /\ materialized \in BOOLEAN /\ truncate \in BOOLEAN
  /\ lease \in {"none", "held", "released"} /\ faults \in 0 .. MaxFaults

LEMMA EndedChain ==
  ASSUME IInv, chain # <<>>, chain' = Tail(chain), log' = log,
         Op.kind # "append" => session' = session,
         Op.kind # "drain" => draining' = draining,
         \A f \in Flushers : (Op.kind = "flush" /\ f = Op.by) \/ flusher'[f] = flusher[f]
  PROVE  chain' \in Seq(Ops) /\ ChainInv'
<1>1. /\ chain' \in Seq(Ops) /\ Distinct(chain')
      /\ Op.kind = "append" => session = "storing"
      /\ \A op \in OpsOf(chain') :
           /\ op \in Ops /\ Known(op) /\ op.kind # "append"
           /\ op.kind = "drain" => Op.kind # "drain"
           /\ op.kind = "flush" => op.by \in Flushers
           /\ op.kind = "flush" /\ Op.kind = "flush" => op.by # Op.by
  BY Running
<1>2. ASSUME NEW op \in OpsOf(chain') PROVE Known(op)'
  <2>1. session = "live"  BY <1>1, <1>2, OpTypes DEF Known
  <2>2. session' = "live"  BY <1>1, <2>1
  <2> QED  BY <1>1, <2>1, <2>2 DEF Known
<1> QED  BY <1>1, <1>2 DEF ChainInv

\* The log holds what counts as stored, and the batch behind it.
LEMMA WithinLog ==
  ASSUME IInv
  PROVE  /\ cursor + Len(batch) <= Len(log) /\ cursor \in 0 .. Len(log)
         /\ cursor + Len(batch) \in 0 .. Len(log)
         /\ Lies(<<>>, cursor, log) /\ Lies(<<>>, cursor + Len(batch), log)
<1>1. /\ cursor + Len(batch) <= Len(log) /\ cursor \in Nat /\ Len(batch) \in Nat
      /\ Len(log) \in Nat
  BY Lengths DEF IInv, BatchInv, Lies
<1>2. log \in Seq(Event) /\ cursor \in 0 .. Len(log) /\ cursor + Len(batch) \in 0 .. Len(log)
  BY <1>1, Sequences DEF IInv
<1> QED  BY <1>1, <1>2, LiesNothing

LEMMA EndsTypes ==
  ASSUME Types, Ends
  PROVE  /\ closer' \in Closings /\ closer'.at = closer.at /\ closer'.failed = closer.failed
         /\ closer'.covers = closer.covers /\ batch' = <<>> /\ step' = "waiting"
         /\ batch' \in Seq(Event) /\ Len(batch') = 0
<1> PICK c \in Closings : c = closer  BY DEF Types
<1>1. c.awaits \in Nat  BY DEF Closings
<1> PICK n \in Nat : n = Awaited(c.awaits)  BY <1>1 DEF Awaited
<1>2. closer' = [c EXCEPT !.awaits = n] /\ batch' = <<>> /\ step' = "waiting"  BY DEF Ends
<1>3. /\ closer' \in Closings /\ closer'.at = c.at /\ closer'.failed = c.failed
      /\ closer'.covers = c.covers
  BY <1>2 DEF Closings
<1> QED  BY <1>2, <1>3

LEMMA OneFlushLess ==
  ASSUME IInv, NEW g \in Flushers, flusher' = [flusher EXCEPT ![g] = NoFlush]
  PROVE  /\ flusher' \in [Flushers -> Flushes]
         /\ flusher'[g] = NoFlush /\ \A f \in Flushers : f # g => flusher'[f] = flusher[f]
         /\ NoFlush.at = "idle" /\ NoFlush.goal = 0
<1>1. NoFlush \in Flushes /\ flusher \in [Flushers -> Flushes]
  BY SessionHandleConstants DEF NoFlush, Flushes, IInv, Types
<1> QED  BY <1>1 DEF NoFlush

\* The checkpoints when operations end: none is further than it was.
LEMMA FlushesEnd ==
  ASSUME IInv, chain # <<>>, log' = log, cursor' \in Nat, cursor' >= cursor,
         Op.kind # "append" => session' = session,
         draining' # "ended" \/ draining = "ended",
         \A f \in Flushers : flusher'[f] = flusher[f] \/ flusher'[f] = NoFlush
  PROVE  FlushInv'
<1>1. cursor \in Nat /\ Len(log) \in Nat  BY Lengths DEF IInv
<1>2. NoFlush.at = "idle" /\ NoFlush.goal = 0  BY DEF NoFlush
<1>3. session' = "live" \/ session # "live"  BY Running
<1>4. ASSUME NEW f \in Flushers
      PROVE  /\ flusher'[f].goal <= Len(log)
             /\ flusher'[f].at = "idle" => flusher'[f].goal = 0
             /\ ~flusher'[f].late /\ Covered(f)' => flusher'[f].goal <= cursor'
             /\ flusher[f].at = "idle" => flusher'[f].at = "idle"
  <2>1. CASE flusher'[f] = NoFlush  BY <1>1, <1>2, <2>1 DEF Covered
  <2>2. CASE flusher'[f] = flusher[f]
    <3>1. flusher[f].goal \in Nat  BY FlushTypes DEF IInv
    <3>2. Covered(f)' => Covered(f)  BY <2>2 DEF Covered
    <3>3. /\ flusher[f].goal <= Len(log)
          /\ flusher[f].at = "idle" => flusher[f].goal = 0
          /\ ~flusher[f].late /\ Covered(f) => flusher[f].goal <= cursor
      BY DEF IInv, FlushInv
    <3> QED  BY <1>1, <2>2, <3>1, <3>2, <3>3
  <2> QED  BY <2>1, <2>2
<1> QED  BY <1>3, <1>4 DEF IInv, FlushInv

LEMMA FailsStep ==
  ASSUME IInv, chain # <<>>, Fails, UNCHANGED <<cursor, crashes>>, FileTypes',
         faults' # 0 \/ (Op.kind # "drain" /\ step = "waiting" /\ UNCHANGED <<disks, state, faults>>)
  PROVE  /\ Types' /\ Numbered' /\ ChainInv' /\ BatchInv' /\ SetupInv' /\ BufferInv' /\ FlushInv'
         /\ CloseInv'
         /\ Alive /\ Alive' /\ log' = log /\ step' = "waiting" /\ acked' = acked
<1>1. /\ Ends /\ chain' = Tail(chain)
      /\ IF Op.kind = "drain"
         THEN buffered' = batch \o buffered /\ paused' = TRUE /\ draining' = "failed"
         ELSE UNCHANGED <<buffered, paused, draining>>
      /\ session' = IF Op.kind = "append" THEN "failed" ELSE session
      /\ flusher' = IF Op.kind = "flush" THEN [flusher EXCEPT ![Op.by] = NoFlush] ELSE flusher
      /\ UNCHANGED <<log, stored, timer, acked>>
  BY DEF Fails, Rest, Restored
<1>2. /\ closer' \in Closings /\ closer'.at = closer.at /\ closer'.failed = closer.failed
      /\ closer'.covers = closer.covers /\ batch' = <<>> /\ step' = "waiting"
      /\ batch' \in Seq(Event) /\ Len(batch') = 0
  BY <1>1, EndsTypes DEF IInv
<1>3. /\ Alive /\ session \in {"storing", "live"} /\ Op.kind \in {"drain", "append", "flush"}
      /\ Op.kind = "append" <=> session = "storing"
      /\ Op.kind = "drain" => draining = "queued"
      /\ Op.kind = "flush" => Op.by \in Flushers
  BY Running
<1>4. /\ flusher' \in [Flushers -> Flushes]
      /\ \A f \in Flushers : \/ flusher'[f] = flusher[f]
                             \/ Op.kind = "flush" /\ f = Op.by /\ flusher'[f] = NoFlush
  <2>1. CASE Op.kind = "flush"  BY <1>1, <1>3, <2>1, OneFlushLess
  <2>2. CASE Op.kind # "flush"  BY <1>1, <2>2 DEF IInv, Types
  <2> QED  BY <2>1, <2>2
<1>5. /\ batch \in Seq(Event) /\ buffered \in Seq(Event) /\ buffered' \in Seq(Event)
      /\ log \in Seq(Event)
  <2>1. batch \in Seq(Event) /\ buffered \in Seq(Event) /\ log \in Seq(Event)
    BY DEF IInv, Types
  <2> QED  BY <1>1, <2>1, ConcatProperties
<1>6. chain' \in Seq(Ops) /\ ChainInv'  BY <1>1, <1>3, <1>4, EndedChain
<1>7. Types'
  <2>1. /\ session' \in {"setup", "storing", "stored", "live", "failed", "crashed"}
        /\ draining' \in {"none", "queued", "written", "ended", "failed"}
        /\ paused' \in BOOLEAN /\ step' \in Steps
    BY <1>1, <1>2, <1>3 DEF IInv, Types, Steps
  <2> QED  BY <1>1, <1>2, <1>4, <1>5, <1>6, <2>1 DEF IInv, Types, FileTypes
<1>8. Numbered'  BY <1>1, Frame
<1>9. BatchInv'  BY <1>1, <1>2, WithinLog DEF BatchInv
<1>10. SetupInv'  BY <1>1, <1>3 DEF SetupInv
<1>11. BufferInv'
  <2>1. CASE session # "live"
    <3>1. buffered' = <<>> /\ session' # "live"  BY <1>1, <1>3, <2>1 DEF IInv, BufferInv
    <3> QED  BY <3>1 DEF BufferInv
  <2>2. CASE session = "live"
    <3>1. /\ Lies(buffered, cursor + Len(batch), log) /\ Lies(batch, cursor, log)
          /\ cursor + Len(batch) + Len(buffered) = Len(log)
          /\ cursor \in Nat /\ Len(batch) \in Nat /\ Len(buffered) \in Nat /\ Len(log) \in Nat
      BY <2>2, Lengths DEF IInv, BufferInv, BatchInv
    <3>2. Lies(buffered', cursor, log) /\ cursor + Len(buffered') = Len(log)
      <4>1. CASE Op.kind = "drain"
        <5>1. buffered' = batch \o buffered /\ Len(buffered') = Len(batch) + Len(buffered)
          BY <1>1, <1>5, <4>1, ConcatProperties
        <5>2. Lies(buffered', cursor, log)  BY <1>5, <3>1, <5>1, LiesConcat
        <5> QED  BY <3>1, <5>1, <5>2
      <4>2. CASE Op.kind # "drain"
        <5>1. Len(batch) = 0  BY <2>2, <4>2, NothingInFlight
        <5>2. cursor + Len(batch) = cursor  BY <3>1, <5>1
        <5> QED  BY <1>1, <3>1, <4>2, <5>1, <5>2
      <4> QED  BY <4>1, <4>2
    <3>3. cursor + Len(batch') = cursor  BY <1>2, <3>1
    <3>4. session' = "live"  BY <1>1, <1>3, <2>2
    <3> QED  BY <1>1, <3>2, <3>3, <3>4 DEF BufferInv
  <2> QED  BY <2>1, <2>2
<1>12. FlushInv'
  <2>1. cursor' \in Nat /\ cursor' >= cursor  BY Lengths DEF IInv
  <2>2. draining' # "ended" \/ draining = "ended"  BY <1>1
  <2>3. Op.kind # "append" => session' = session  BY <1>1
  <2> QED  BY <1>1, <1>4, <2>1, <2>2, <2>3, FlushesEnd
<1>13. CloseInv'
  <2> SUFFICES ASSUME faults' = 0 PROVE CloseInv'  BY DEF CloseInv
  <2>1. Op.kind # "drain" /\ step = "waiting" /\ UNCHANGED <<disks, state, faults>>  OBVIOUS
  <2>2. ~DrainRuns /\ faults = 0  BY <2>1 DEF DrainRuns
  <2>3. UNCHANGED <<buffered, draining>>  BY <1>1, <2>1
  <2>4. session' = "live" => session = "live"  BY <1>1
  <2> QED  BY <1>2, <1>3, <2>1, <2>2, <2>3, <2>4 DEF IInv, CloseInv, disks, state
<1>14. Alive'  BY <1>1, <1>3 DEF Alive
<1> QED  BY <1>1, <1>2, <1>3, <1>6, <1>7, <1>8, <1>9, <1>10, <1>11, <1>12, <1>13, <1>14

\* What a checkpoint adds to what is acknowledged lies in the log, in front of its goal.
LEMMA Acknowledges ==
  ASSUME IInv, NEW g \in Flushers,
         acked' = [acked EXCEPT ![flusher[g].late] =
                     Longest(Stored(flusher[g].goal), acked[flusher[g].late])]
  PROVE  /\ acked' \in [BOOLEAN -> Seq(Event)]
         /\ \/ acked'[FALSE] = acked[FALSE]
            \/ /\ ~flusher[g].late
               /\ Lies(acked'[FALSE], 0, log) /\ Len(acked'[FALSE]) = flusher[g].goal
<1> PICK late \in BOOLEAN : late = flusher[g].late  BY FlushTypes DEF IInv
<1> PICK n \in Nat : n = flusher[g].goal  BY FlushTypes DEF IInv
<1>1. log \in Seq(Event) /\ acked \in [BOOLEAN -> Seq(Event)] /\ n <= Len(log)
      /\ Len(log) \in Nat
  BY Lengths DEF IInv, Types, FlushInv
<1> PICK s : s = Stored(n)  OBVIOUS
<1>2. s \in Seq(Event) /\ Len(s) = n /\ Lies(s, 0, log)
  <2>1. n \in 0 .. Len(log)  BY <1>1
  <2>2. SubSeq(log, 1, n) \in Seq(Event) /\ Len(SubSeq(log, 1, n)) = n
        /\ Lies(SubSeq(log, 1, n), 0, log)
    BY <1>1, <2>1, LiesPrefix
  <2> QED  BY <2>2 DEF Stored
<1> PICK r : r = Longest(s, acked[late])  OBVIOUS
<1>3. r = s \/ r = acked[late]  BY DEF Longest
<1>4. acked' = [acked EXCEPT ![late] = r]  OBVIOUS
<1>5. r \in Seq(Event)  BY <1>1, <1>2, <1>3
<1>6. acked' \in [BOOLEAN -> Seq(Event)]  BY <1>1, <1>4, <1>5
<1>7. CASE late  BY <1>1, <1>4, <1>6, <1>7
<1>8. CASE ~late
  <2>1. late = FALSE /\ acked'[FALSE] = r  BY <1>1, <1>4, <1>8
  <2>2. acked'[FALSE] = acked[FALSE] \/ acked'[FALSE] = s  BY <1>3, <2>1
  <2> QED  BY <1>2, <1>6, <1>8, <2>2
<1> QED  BY <1>7, <1>8

LEMMA SucceedsStep ==
  ASSUME IInv, chain # <<>>, Succeeds, UNCHANGED <<crashes, faults, tail, recovered>>,
         cursor' = cursor + Len(batch), FileTypes',
         step # "waiting" \/ Op.kind = "flush",
         faults = 0 => materialized' = exists',
         ~RecoversTail => Lies(disk, 0, disk') /\ Lies(disk', 0, log) /\ cursor' <= Len(disk')
  PROVE  /\ Types' /\ Numbered' /\ ChainInv' /\ BatchInv' /\ SetupInv' /\ BufferInv' /\ FlushInv'
         /\ AckInv' /\ CloseInv'
         /\ Alive /\ Alive' /\ log' = log /\ step' = "waiting"
<1>1. /\ Ends /\ chain' = Tail(chain)
      /\ draining' = IF Op.kind = "drain" THEN "written" ELSE draining
      /\ session' = IF Op.kind = "append" THEN "stored" ELSE session
      /\ stored' = IF Op.kind = "append" THEN Op.upto ELSE stored
      /\ IF Op.kind = "flush"
         THEN /\ acked' = [acked EXCEPT ![flusher[Op.by].late] =
                             Longest(Stored(flusher[Op.by].goal), acked[flusher[Op.by].late])]
              /\ flusher' = [flusher EXCEPT ![Op.by] = NoFlush]
         ELSE UNCHANGED <<acked, flusher>>
      /\ UNCHANGED <<log, buffered, timer, paused>>
  BY DEF Succeeds
<1>2. /\ closer' \in Closings /\ closer'.at = closer.at /\ closer'.failed = closer.failed
      /\ closer'.covers = closer.covers /\ batch' = <<>> /\ step' = "waiting"
      /\ batch' \in Seq(Event) /\ Len(batch') = 0
  BY <1>1, EndsTypes DEF IInv
<1>3. /\ Alive /\ session \in {"storing", "live"} /\ Op.kind \in {"drain", "append", "flush"}
      /\ Op.kind = "append" <=> session = "storing"
      /\ Op.kind = "append" => Op.upto = Len(log)
      /\ Op.kind = "drain" => draining = "queued"
      /\ Op.kind = "flush" => Op.by \in Flushers /\ flusher[Op.by].at = "flushing"
  BY Running
<1>4. /\ flusher' \in [Flushers -> Flushes]
      /\ \A f \in Flushers : \/ flusher'[f] = flusher[f]
                             \/ Op.kind = "flush" /\ f = Op.by /\ flusher'[f] = NoFlush
  <2>1. CASE Op.kind = "flush"  BY <1>1, <1>3, <2>1, OneFlushLess
  <2>2. CASE Op.kind # "flush"  BY <1>1, <2>2 DEF IInv, Types
  <2> QED  BY <2>1, <2>2
<1>5. /\ cursor' \in 0 .. Len(log) /\ Lies(<<>>, cursor', log) /\ cursor \in Nat
      /\ Len(batch) \in Nat /\ Len(log) \in 0 .. MaxEvents /\ cursor' \in Nat
      /\ MaxEvents \in Nat /\ cursor' \in 0 .. MaxEvents /\ cursor' >= cursor
  <2>1. /\ cursor + Len(batch) \in 0 .. Len(log) /\ Lies(<<>>, cursor + Len(batch), log)
        /\ cursor \in Nat /\ Len(batch) \in Nat /\ Len(log) \in 0 .. MaxEvents
        /\ MaxEvents \in Nat
    BY WithinLog, Lengths DEF IInv
  <2> QED  BY <2>1
<1>6. chain' \in Seq(Ops) /\ ChainInv'  BY <1>1, <1>3, <1>4, EndedChain
<1>7. acked' \in [BOOLEAN -> Seq(Event)]
  <2>1. CASE Op.kind = "flush"  BY <1>1, <1>3, <2>1, Acknowledges
  <2>2. CASE Op.kind # "flush"  BY <1>1, <2>2 DEF IInv, Types
  <2> QED  BY <2>1, <2>2
<1>8. Types'
  <2>1. /\ session' \in {"setup", "storing", "stored", "live", "failed", "crashed"}
        /\ draining' \in {"none", "queued", "written", "ended", "failed"}
        /\ step' \in Steps
    BY <1>1, <1>2, <1>3 DEF IInv, Types, Steps
  <2>2. stored' \in 0 .. MaxEvents  BY <1>1, <1>3, <1>5 DEF IInv, Types
  <2> QED  BY <1>1, <1>2, <1>4, <1>5, <1>6, <1>7, <2>1, <2>2 DEF IInv, Types, FileTypes
<1>9. Numbered'  BY <1>1, Frame
<1>10. BatchInv'  BY <1>1, <1>2, <1>5 DEF BatchInv
<1>11. SetupInv'
  <2>1. CASE Op.kind = "append"
    <3>1. cursor + Len(batch) = Op.upto  BY <2>1 DEF IInv, BatchInv
    <3> QED  BY <1>1, <1>3, <1>5, <2>1, <3>1 DEF SetupInv
  <2>2. CASE Op.kind # "append"  BY <1>1, <1>3, <2>2 DEF SetupInv
  <2> QED  BY <2>1, <2>2
<1>12. BufferInv'
  <2>1. CASE session # "live"  BY <1>1, <1>3, <2>1 DEF IInv, BufferInv
  <2>2. CASE session = "live"
    <3>1. cursor' + Len(batch') = cursor + Len(batch)  BY <1>2, <1>5
    <3>2. session' = "live"  BY <1>1, <1>3, <2>2
    <3> QED  BY <1>1, <2>2, <3>1, <3>2 DEF IInv, BufferInv
  <2> QED  BY <2>1, <2>2
<1>13. FlushInv'
  <2>1. draining' # "ended" \/ draining = "ended"  BY <1>1
  <2>2. Op.kind # "append" => session' = session  BY <1>1
  <2> QED  BY <1>1, <1>4, <1>5, <2>1, <2>2, FlushesEnd
<1>14. AckInv'
  <2> SUFFICES ASSUME ~RecoversTail PROVE AckInv'  BY DEF AckInv
  <2>1. tail' = <<>> /\ recovered' = <<>> /\ Lies(acked[FALSE], 0, disk)
    BY DEF IInv, AckInv
  <2>2. /\ disk \in Seq(Event) /\ disk' \in Seq(Event) /\ log \in Seq(Event)
        /\ acked[FALSE] \in Seq(Event) /\ acked'[FALSE] \in Seq(Event) /\ Len(disk') \in Nat
        /\ Lies(disk, 0, disk') /\ Lies(disk', 0, log) /\ cursor' <= Len(disk')
    BY <1>7, LenProperties DEF IInv, Types, FileTypes
  <2>3. Lies(acked[FALSE], 0, disk')  BY <2>1, <2>2, LiesShorter
  <2>4. CASE acked'[FALSE] = acked[FALSE]  BY <2>1, <2>3, <2>4 DEF AckInv
  <2>5. CASE acked'[FALSE] # acked[FALSE]
    <3>1. Op.kind = "flush"  BY <1>1, <2>5
    <3> PICK g \in Flushers : g = Op.by  BY <1>3, <3>1
    <3>2. /\ ~flusher[g].late /\ Lies(acked'[FALSE], 0, log)
          /\ Len(acked'[FALSE]) = flusher[g].goal
      BY <1>1, <2>5, <3>1, Acknowledges
    <3>3. flusher[g].goal <= cursor /\ flusher[g].goal \in Nat
      BY <1>3, <3>1, <3>2, FlushTypes DEF IInv, FlushInv, Covered
    <3>4. Len(acked'[FALSE]) <= Len(disk')  BY <1>5, <2>2, <3>2, <3>3
    <3>5. Lies(acked'[FALSE], 0, disk')  BY <2>2, <3>2, <3>4, LiesShorter
    <3> QED  BY <2>1, <3>5 DEF AckInv
  <2> QED  BY <2>4, <2>5
<1>15. CloseInv'
  <2> SUFFICES ASSUME faults' = 0 PROVE CloseInv'  BY DEF CloseInv
  <2>1. /\ draining # "failed" /\ ~closer.failed /\ faults = 0
        /\ draining = "queued" => buffered # <<>> \/ DrainRuns
    BY DEF IInv, CloseInv
  <2>2. draining' = "queued" => buffered' # <<>>
    BY <1>1, <2>1 DEF DrainRuns
  <2>3. ASSUME session' = "live", closer'.at \in {"leaving", "releasing", "closed"}
        PROVE  closer'.covers <= cursor'
    <3>1. session = "live" /\ closer.covers \in Nat
      BY <1>1, <2>3, CloseTypes DEF IInv
    <3>2. closer.covers <= cursor \/ closer.covers <= cursor + Len(batch)
      BY <1>2, <2>1, <2>3, <3>1 DEF IInv, CloseInv
    <3> QED  BY <1>2, <1>5, <3>1, <3>2
  <2> QED  BY <1>1, <1>2, <2>1, <2>2, <2>3 DEF CloseInv
<1>16. Alive'  BY <1>1, <1>3 DEF Alive
<1> QED  BY <1>1, <1>2, <1>3, <1>6, <1>8, <1>9, <1>10, <1>11, <1>12, <1>13, <1>14, <1>15, <1>16

LEMMA GoesOnStep ==
  ASSUME IInv, step # "waiting", NEW at \in Steps \ {"waiting"}, GoesOn(at),
         UNCHANGED <<cursor, crashes, faults, materialized, exists>>, FileTypes'
  PROVE  /\ Types' /\ Numbered' /\ ChainInv' /\ BatchInv' /\ SetupInv' /\ BufferInv' /\ FlushInv'
         /\ CloseInv'
         /\ Alive /\ Alive' /\ log' = log /\ step' = at /\ acked' = acked
<1>1. step' = at /\ UNCHANGED <<sessions, buffers, chain, batch, callers>>  BY DEF GoesOn
<1>2. Numbered' /\ ChainInv' /\ SetupInv' /\ BufferInv' /\ FlushInv'
  BY <1>1, Frame DEF sessions, buffers, callers
<1>3. Types'
  BY <1>1 DEF IInv, Types, FileTypes, sessions, buffers, callers
<1>4. BatchInv'  BY <1>1 DEF IInv, BatchInv, Op, sessions
<1>5. CloseInv'
  <2>1. DrainRuns' = DrainRuns  BY <1>1 DEF DrainRuns, Op
  <2> QED  BY <1>1, <2>1 DEF IInv, CloseInv, sessions, buffers, callers, Alive
<1>6. Alive /\ Alive'
  <2>1. Alive  BY Running DEF IInv, BatchInv
  <2> QED  BY <1>1, <2>1 DEF Alive, sessions
<1> QED  BY <1>1, <1>2, <1>3, <1>4, <1>5, <1>6 DEF sessions, callers

-----------------------------------------------------------------------------
(***************************************************************************)
(* The steps of an operation.                                              *)
(***************************************************************************)
LEMMA FileKept ==
  ASSUME IInv
  PROVE  FileTypes /\ (UNCHANGED <<disks, state, lease, faults>> => FileTypes')
<1>1. FileTypes  BY DEF IInv, Types, FileTypes
<1> QED  BY <1>1 DEF FileTypes, disks, state

\* With nothing torn left, the artifact holds exactly what counts as stored and owed.
LEMMA ArtifactWhole ==
  ASSUME IInv, step \in {"rewrite", "write"}
  PROVE  /\ Alive /\ ~torn /\ tail = <<>> /\ ~truncate
         /\ Lies(disk, 0, log) /\ Lies(recovered, Len(disk), log)
         /\ materialized => exists /\ cursor = Len(disk) + Len(recovered)
         /\ ~materialized => cursor = 0 /\ recovered = <<>>
         /\ ~exists => disk = <<>> /\ Len(disk) = 0 /\ cursor = 0 /\ ~materialized
         /\ step = "write" => recovered = <<>> /\ (materialized \/ ~exists => cursor = Len(disk))
         /\ disk \in Seq(Event) /\ recovered \in Seq(Event) /\ batch \in Seq(Event)
         /\ log \in Seq(Event) /\ Len(disk) \in Nat
<1>1. Alive /\ chain # <<>>  BY Running DEF IInv, BatchInv
<1>2. /\ ~truncate /\ ~torn /\ tail = <<>> /\ Lies(disk, 0, log)
      /\ step = "write" => recovered = <<>>
      /\ materialized => exists /\ cursor = Len(disk) + Len(recovered)
                         /\ Lies(recovered, Len(disk), log)
      /\ ~materialized => cursor = 0 /\ recovered = <<>>
      /\ ~exists => disk = <<>>
  BY <1>1 DEF IInv, CursorInv, DiskInv
<1>3. /\ disk \in Seq(Event) /\ recovered \in Seq(Event) /\ batch \in Seq(Event)
      /\ log \in Seq(Event)
  BY DEF IInv, Types
<1>4. Len(disk) \in Nat /\ Len(log) \in Nat /\ Len(<<>>) = 0  BY Lengths DEF IInv
<1>5. Lies(recovered, Len(disk), log)
  <2>1. Len(disk) \in 0 .. Len(log)  BY <1>2, <1>4 DEF Lies
  <2> QED  BY <1>2, <1>3, <2>1, LiesNothing
<1>6. step = "write" => (materialized \/ ~exists => cursor = Len(disk))
  BY <1>2, <1>4
<1> QED  BY <1>1, <1>2, <1>3, <1>4, <1>5, <1>6

LEMMA StartOpSafe == ASSUME IInv, StartOp PROVE IInv'
<1>1. /\ chain # <<>> /\ step = "waiting" /\ UNCHANGED <<disks, state, lease, bounds>>
  BY DEF StartOp
<1>2. FileTypes' /\ UNCHANGED <<cursor, crashes, faults, tail, recovered, materialized, exists>>
  BY <1>1, FileKept DEF bounds, state, disks
<1>3. Alive /\ batch = <<>> /\ Len(batch) = 0
  BY <1>1, Running DEF IInv, BatchInv
<1>4. ASSUME log' = log PROVE DiskInv'  BY <1>1, <1>4, Frame
<1>5. ASSUME log' = log, step' \in {"waiting", "lease"} PROVE CursorInv'
  BY <1>1, <1>3, <1>5 DEF IInv, CursorInv, disks, state
<1>6. CASE Refused /\ Fails
  <2>1. Op.kind # "drain"  BY <1>6 DEF Refused
  <2>2. /\ Types' /\ Numbered' /\ ChainInv' /\ BatchInv' /\ SetupInv' /\ BufferInv'
        /\ FlushInv' /\ CloseInv' /\ log' = log /\ step' = "waiting" /\ acked' = acked
    BY <1>1, <1>2, <1>6, <2>1, FailsStep DEF bounds
  <2>3. AckInv'  BY <1>1, <2>2, Frame DEF disks, state
  <2> QED  BY <1>4, <1>5, <2>2, <2>3 DEF IInv
<1>7. CASE Op.kind = "flush" /\ materialized /\ Succeeds
  <2>1. cursor' = cursor + Len(batch)  BY <1>2, <1>3, Lengths DEF IInv
  <2>2. faults = 0 => materialized' = exists'  BY <1>2, <1>3 DEF IInv, CloseInv
  <2>3. ASSUME ~RecoversTail
        PROVE  Lies(disk, 0, disk') /\ Lies(disk', 0, log) /\ cursor' <= Len(disk')
    <3>1. disk' = disk /\ Lies(disk, 0, log) /\ disk \in Seq(Event)
      BY <1>1 DEF IInv, Types, DiskInv, disks
    <3>2. recovered = <<>>  BY <2>3 DEF IInv, AckInv
    <3>3. cursor = Len(disk) + Len(recovered)  BY <1>3, <1>7 DEF IInv, CursorInv
    <3>4. Len(recovered) = 0 /\ Len(disk) \in Nat /\ cursor \in Nat
      BY <3>2, Lengths DEF IInv
    <3>5. Lies(disk, 0, disk)  BY <3>4 DEF Lies
    <3>6. cursor' = cursor /\ cursor <= Len(disk)  BY <1>2, <3>3, <3>4
    <3> QED  BY <3>1, <3>5, <3>6
  <2>4. /\ Types' /\ Numbered' /\ ChainInv' /\ BatchInv' /\ SetupInv' /\ BufferInv'
        /\ FlushInv' /\ AckInv' /\ CloseInv' /\ log' = log /\ step' = "waiting"
    BY <1>1, <1>2, <1>7, <2>1, <2>2, <2>3, SucceedsStep
  <2> QED  BY <1>4, <1>5, <2>4 DEF IInv
<1>8. CASE /\ batch' = Taken /\ buffered' = (IF Op.kind = "drain" THEN <<>> ELSE buffered)
           /\ step' = "lease"
           /\ UNCHANGED <<sessions, timer, paused, draining, chain, callers>>
  <2>1. log' = log /\ session' = session /\ stored' = stored  BY <1>8 DEF sessions
  <2>2. Numbered' /\ DiskInv' /\ ChainInv' /\ SetupInv' /\ FlushInv'
    BY <1>1, <1>8, <2>1, Frame DEF callers, state
  <2>3. AckInv'  BY <1>1, <1>8, Frame DEF disks, state, callers
  <2>4. CursorInv'  BY <1>5, <1>8, <2>1
  <2>5. /\ Op.kind \in {"drain", "append", "flush"}
        /\ session \in {"storing", "live"} /\ Op' = Op
        /\ Op.kind = "append" => session = "storing" /\ Op.upto = Len(log)
        /\ Op.kind = "drain" => session = "live"
        /\ Op.kind = "flush" => session = "live"
    BY <1>1, <1>8, Running DEF Op
  <2>6. /\ cursor' = cursor /\ cursor \in 0 .. Len(log) /\ Lies(<<>>, cursor, log)
        /\ Len(log) \in Nat /\ log \in Seq(Event) /\ cursor \in Nat /\ Len(<<>>) = 0
        /\ cursor + Len(batch) = cursor /\ buffered \in Seq(Event) /\ Len(buffered) \in Nat
    BY <1>2, <1>3, WithinLog, Lengths, Sequences DEF IInv
  <2>7. session = "live" => Lies(buffered, cursor, log) /\ cursor + Len(buffered) = Len(log)
    BY <2>6 DEF IInv, BufferInv
  <2>8. /\ batch' \in Seq(Event) /\ Lies(batch', cursor, log)
        /\ Op.kind = "drain" => batch' = buffered
        /\ Op.kind = "flush" => batch' = <<>>
        /\ Op.kind = "append" => cursor + Len(batch') = Op.upto
    <3>1. CASE Op.kind = "drain"  BY <1>8, <2>5, <2>6, <2>7, <3>1 DEF Taken
    <3>2. CASE Op.kind = "flush"  BY <1>8, <2>5, <2>6, <3>2, EmptySeq DEF Taken
    <3>3. CASE Op.kind = "append"
      <4>1. batch' = SubSeq(log, stored + 1, Op.upto)  BY <1>8, <3>3 DEF Taken
      <4>2. stored = cursor  BY <2>5, <3>3 DEF IInv, SetupInv
      <4> PICK a \in Nat : a = cursor  BY <2>6
      <4> PICK b \in Nat : b = Len(log)  BY <2>6
      <4>3. b \in 0 .. Len(log) /\ a \in 0 .. b /\ batch' = SubSeq(log, a + 1, b)
        BY <2>5, <2>6, <3>3, <4>1, <4>2
      <4>4. /\ SubSeq(log, a + 1, b) \in Seq(Event) /\ Len(SubSeq(log, a + 1, b)) = b - a
            /\ Lies(SubSeq(log, a + 1, b), a, log)
        BY <2>6, <4>3, LiesPiece
      <4> QED  BY <2>5, <3>3, <4>3, <4>4
    <3> QED  BY <2>5, <3>1, <3>2, <3>3
  <2>9. Types'
    <3>1. buffered' \in Seq(Event)  BY <1>8, <2>6, EmptySeq
    <3> QED  BY <1>1, <1>8, <2>1, <2>8, <3>1
         DEF IInv, Types, Steps, disks, sessions, state, callers, bounds
  <2>10. BatchInv'  BY <1>1, <1>8, <2>1, <2>5, <2>6, <2>8 DEF BatchInv
  <2>11. BufferInv'
    <3>1. CASE session # "live"  BY <1>8, <2>1, <2>5, <3>1 DEF IInv, BufferInv
    <3>2. CASE session = "live" /\ Op.kind = "drain"
      <4>1. batch' = buffered /\ buffered' = <<>>  BY <1>8, <2>8, <3>2
      <4>2. cursor + Len(batch') = Len(log)  BY <2>7, <3>2, <4>1
      <4>3. Lies(<<>>, Len(log), log)
        <5>1. Len(log) \in 0 .. Len(log)  BY <2>6
        <5> QED  BY <2>6, <5>1, LiesNothing
      <4>4. Len(log) + Len(<<>>) = Len(log)  BY <2>6
      <4> QED  BY <2>1, <2>6, <3>2, <4>1, <4>2, <4>3, <4>4 DEF BufferInv
    <3>3. CASE session = "live" /\ Op.kind # "drain"
      <4>1. batch' = <<>> /\ buffered' = buffered  BY <1>8, <2>5, <2>8, <3>3
      <4>2. cursor + Len(batch') = cursor  BY <2>6, <4>1
      <4> QED  BY <2>1, <2>6, <2>7, <3>3, <4>1, <4>2 DEF BufferInv
    <3> QED  BY <3>1, <3>2, <3>3
  <2>12. CloseInv'
    <3> SUFFICES ASSUME faults' = 0 PROVE CloseInv'  BY DEF CloseInv
    <3>1. faults = 0 /\ ~DrainRuns /\ (Op.kind = "drain" => DrainRuns')
      BY <1>1, <1>2, <1>8, <2>5 DEF DrainRuns
    <3>2. Op.kind # "drain" => buffered' = buffered  BY <1>8
    <3> QED  BY <1>2, <1>3, <1>8, <2>1, <3>1, <3>2 DEF IInv, CloseInv, callers, Alive
  <2> QED  BY <2>2, <2>3, <2>4, <2>9, <2>10, <2>11, <2>12 DEF IInv
<1> QED  BY <1>6, <1>7, <1>8 DEF StartOp

LEMMA LeaseSettlesSafe == ASSUME IInv, LeaseSettles PROVE IInv'
<1>1. step = "lease" /\ Alive /\ UNCHANGED <<disks, state, crashes>>  BY DEF LeaseSettles
<1>2. /\ chain # <<>> /\ faults \in 0 .. MaxFaults /\ faults \in Nat /\ MaxFaults \in Nat
      /\ lease \in {"none", "held", "released"}
  BY <1>1, SessionHandleConstants DEF IInv, BatchInv, Types
<1>3. UNCHANGED <<cursor, crashes, materialized, exists, truncate, recovered>>
  BY <1>1 DEF state, disks
<1>4. ASSUME log' = log PROVE DiskInv'  BY <1>1, <1>4, Frame
<1>5. ASSUME log' = log, acked' = acked PROVE AckInv'  BY <1>1, <1>5, Frame DEF disks, state
<1>6. CASE Fault /\ Fails /\ UNCHANGED lease
  <2>1. faults' # 0 /\ faults' \in 0 .. MaxFaults  BY <1>2, <1>6 DEF Fault
  <2>2. FileTypes'  BY <1>1, <1>6, <2>1 DEF IInv, Types, FileTypes, disks, state
  <2>3. /\ Types' /\ Numbered' /\ ChainInv' /\ BatchInv' /\ SetupInv' /\ BufferInv'
        /\ FlushInv' /\ CloseInv' /\ log' = log /\ step' = "waiting" /\ acked' = acked
    BY <1>2, <1>3, <1>6, <2>1, <2>2, FailsStep
  <2>4. CursorInv'  BY <1>1, <2>3 DEF IInv, CursorInv, disks, state
  <2> QED  BY <1>4, <1>5, <2>3, <2>4 DEF IInv
<1>7. CASE /\ lease' = (IF lease = "none" THEN "held" ELSE lease)
           /\ \/ ~Contiguous /\ Fails
              \/ Contiguous /\ GoesOn(IF truncate THEN "truncate" ELSE AfterTruncation)
           /\ UNCHANGED faults
  <2>1. Contiguous
    <3> SUFFICES ASSUME batch # <<>> PROVE batch[1].seq = cursor + 1  BY DEF Contiguous
    <3>1. /\ batch \in Seq(Event) /\ Len(batch) \in Nat /\ Len(log) \in Nat /\ cursor \in Nat
      BY Lengths, Sequences DEF IInv
    <3>2. Len(batch) >= 1  BY <3>1, EmptySeq
    <3>3. /\ cursor + Len(batch) <= Len(log)
          /\ \A i \in 1 .. Len(batch) : batch[i] = log[cursor + i]
      BY DEF IInv, BatchInv, Lies
    <3>4. 1 \in 1 .. Len(batch) /\ cursor + 1 \in 1 .. Len(log)  BY <3>1, <3>2, <3>3
    <3> QED  BY <3>3, <3>4 DEF IInv, Numbered
  <2> PICK at : at = IF truncate THEN "truncate" ELSE AfterTruncation  OBVIOUS
  <2>2. /\ at \in Steps \ {"waiting"}
        /\ at \in {"rewrite", "write"} => ~truncate
        /\ at = "write" => recovered = <<>>
    BY DEF Steps, AfterTruncation
  <2>3. FileTypes'  BY <1>1, <1>2, <1>7 DEF IInv, Types, FileTypes, disks, state
  <2>4. /\ Types' /\ Numbered' /\ ChainInv' /\ BatchInv' /\ SetupInv' /\ BufferInv'
        /\ FlushInv' /\ CloseInv' /\ log' = log /\ step' = at /\ acked' = acked
    BY <1>1, <1>3, <1>7, <2>1, <2>2, <2>3, GoesOnStep
  <2>5. CursorInv'  BY <1>1, <2>2, <2>4 DEF IInv, CursorInv, disks, state, Steps
  <2> QED  BY <1>4, <1>5, <2>4, <2>5 DEF IInv
<1> QED  BY <1>6, <1>7 DEF LeaseSettles

LEMMA TruncateSettlesSafe == ASSUME IInv, TruncateSettles PROVE IInv'
<1>1. /\ step = "truncate" /\ Alive
      /\ UNCHANGED <<disk, exists, cursor, materialized, recovered, lease, crashes>>
      /\ Truncated \/ UNCHANGED disks
  BY DEF TruncateSettles, Truncated, Macrotask, disks
<1>2. /\ chain # <<>> /\ faults \in 0 .. MaxFaults /\ faults \in Nat /\ MaxFaults \in Nat
  BY <1>1, SessionHandleConstants DEF IInv, BatchInv, Types
<1>3. /\ (torn' = FALSE /\ tail' = <<>>) \/ (torn' = torn /\ tail' = tail)
      /\ tail' \in Seq(Event) /\ torn' \in BOOLEAN
  <2>1. (torn' = FALSE /\ tail' = <<>>) \/ (torn' = torn /\ tail' = tail)
    BY <1>1 DEF Truncated, disks
  <2> QED  BY <2>1, EmptySeq DEF IInv, Types
<1>4. ASSUME log' = log PROVE DiskInv'
  <2>1. /\ disk \in Seq(Event) /\ log \in Seq(Event) /\ Len(disk) \in Nat /\ Len(log) \in Nat
        /\ Lies(disk, 0, log)
    BY Lengths, Sequences DEF IInv, DiskInv
  <2>2. Len(disk) \in 0 .. Len(log)  BY <2>1 DEF Lies
  <2>3. Lies(<<>>, Len(disk), log)  BY <2>1, <2>2, LiesNothing
  <2> QED  BY <1>1, <1>3, <1>4, <2>3 DEF IInv, DiskInv
<1>5. ASSUME acked' = acked PROVE AckInv'  BY <1>1, <1>3, <1>5 DEF IInv, AckInv
<1>6. CASE Truncated /\ truncate' = FALSE /\ GoesOn(AfterTruncation) /\ UNCHANGED faults
  <2> PICK at : at = AfterTruncation  OBVIOUS
  <2>1. at \in Steps \ {"waiting"} /\ (at = "write" => recovered = <<>>)
    BY DEF Steps, AfterTruncation
  <2>2. FileTypes'  BY <1>1, <1>2, <1>3, <1>6 DEF IInv, Types, FileTypes
  <2>3. /\ Types' /\ Numbered' /\ ChainInv' /\ BatchInv' /\ SetupInv' /\ BufferInv'
        /\ FlushInv' /\ CloseInv' /\ log' = log /\ step' = at /\ acked' = acked
    BY <1>1, <1>6, <2>1, <2>2, GoesOnStep
  <2>4. CursorInv'
    <3>1. torn' = FALSE /\ tail' = <<>>  BY <1>6 DEF Truncated
    <3> QED  BY <1>1, <1>6, <2>1, <2>3, <3>1 DEF IInv, CursorInv
  <2> QED  BY <1>4, <1>5, <2>3, <2>4 DEF IInv
<1>7. CASE Fault /\ Fails /\ UNCHANGED truncate
  <2>1. faults' # 0 /\ faults' \in 0 .. MaxFaults  BY <1>2, <1>7 DEF Fault
  <2>2. FileTypes'  BY <1>1, <1>3, <1>7, <2>1 DEF IInv, Types, FileTypes
  <2>3. /\ Types' /\ Numbered' /\ ChainInv' /\ BatchInv' /\ SetupInv' /\ BufferInv'
        /\ FlushInv' /\ CloseInv' /\ log' = log /\ step' = "waiting" /\ acked' = acked
    BY <1>1, <1>2, <1>7, <2>1, <2>2, FailsStep
  <2>4. CursorInv'  BY <1>1, <1>3, <1>7, <2>3 DEF IInv, CursorInv
  <2> QED  BY <1>4, <1>5, <2>3, <2>4 DEF IInv
<1> QED  BY <1>6, <1>7 DEF TruncateSettles

\* Events that lie in the log behind the artifact are appended to it.
LEMMA ArtifactGrows ==
  ASSUME IInv, NEW s \in Seq(Event), Lies(s, Len(disk), log)
  PROVE  /\ disk \o s \in Seq(Event) /\ Len(disk \o s) = Len(disk) + Len(s)
         /\ Lies(disk \o s, 0, log) /\ Lies(disk, 0, disk \o s)
         /\ Len(disk \o s) \in 0 .. Len(log) /\ Lies(<<>>, Len(disk \o s), log)
<1> PICK d \in Seq(Event) : d = disk  BY DEF IInv, Types
<1> PICK m \in Nat : m = Len(d)  BY LenProperties
<1> PICK n \in Nat : n = Len(s)  BY LenProperties
<1> PICK r : r = d \o s  OBVIOUS
<1>1. /\ log \in Seq(Event) /\ Len(log) \in Nat /\ Lies(d, 0, log)
  BY Lengths, Sequences DEF IInv, DiskInv
<1>2. r \in Seq(Event) /\ Len(r) = m + n  BY ConcatProperties
<1>3. Lies(s, 0 + Len(d), log)  OBVIOUS
<1>4. Lies(r, 0, log)  BY <1>1, <1>3, LiesConcat
<1>5. Lies(r, 0, r)  BY <1>2 DEF Lies
<1>6. Lies(d, 0, r)  BY <1>2, <1>5, LiesConcat
<1>7. m + n \in 0 .. Len(log)  BY <1>1, <1>2, <1>4 DEF Lies
<1>8. Lies(<<>>, Len(r), log)  BY <1>1, <1>2, <1>7, LiesNothing
<1> QED  BY <1>2, <1>4, <1>6, <1>7, <1>8

LEMMA RewriteSettlesSafe == ASSUME IInv, RewriteSettles PROVE IInv'
<1>1. /\ step = "rewrite"
      /\ UNCHANGED <<tail, torn, exists, cursor, materialized, truncate, lease, crashes>>
  BY DEF RewriteSettles
<1>2. /\ chain # <<>> /\ faults \in 0 .. MaxFaults /\ faults \in Nat /\ MaxFaults \in Nat
  BY <1>1, SessionHandleConstants DEF IInv, BatchInv, Types
<1>3. /\ Alive /\ ~torn /\ tail = <<>> /\ ~truncate
      /\ Lies(disk, 0, log) /\ Lies(recovered, Len(disk), log)
      /\ materialized => exists /\ cursor = Len(disk) + Len(recovered)
      /\ ~materialized => cursor = 0 /\ recovered = <<>>
      /\ ~exists => disk = <<>> /\ ~materialized
      /\ disk \in Seq(Event) /\ recovered \in Seq(Event) /\ Len(disk) \in Nat
  BY <1>1, ArtifactWhole
<1>4. CASE /\ disk' = disk \o recovered /\ recovered' = <<>>
           /\ GoesOn("write") /\ UNCHANGED faults
  <2>1. /\ disk' \in Seq(Event) /\ Len(disk') = Len(disk) + Len(recovered)
        /\ Lies(disk', 0, log) /\ Lies(disk, 0, disk') /\ Lies(<<>>, Len(disk'), log)
        /\ Len(disk') \in Nat
    BY <1>3, <1>4, ArtifactGrows
  <2>2. FileTypes'  BY <1>1, <1>2, <1>4, <2>1, EmptySeq DEF IInv, Types, FileTypes
  <2>3. /\ Types' /\ Numbered' /\ ChainInv' /\ BatchInv' /\ SetupInv' /\ BufferInv'
        /\ FlushInv' /\ CloseInv' /\ log' = log /\ step' = "write" /\ acked' = acked
    <3>1. "write" \in Steps \ {"waiting"}  BY DEF Steps
    <3> QED  BY <1>1, <1>4, <2>2, <3>1, GoesOnStep
  <2>4. recovered = <<>> => disk' = disk
    <3>1. disk \o <<>> = disk  BY <1>3, ConcatEmptySeq
    <3> QED  BY <1>4, <3>1
  <2>5. DiskInv'  BY <1>1, <1>3, <2>1, <2>3, <2>4 DEF DiskInv
  <2>6. CursorInv'
    <3>1. Len(recovered') = 0 /\ Len(disk') + 0 = Len(disk')  BY <1>4, <2>1
    <3> QED  BY <1>1, <1>3, <1>4, <2>1, <2>3, <3>1 DEF CursorInv
  <2>7. AckInv'
    <3> SUFFICES ASSUME ~RecoversTail PROVE AckInv'  BY DEF AckInv
    <3>1. recovered = <<>>  BY DEF IInv, AckInv
    <3> QED  BY <1>1, <1>4, <2>3, <2>4, <3>1 DEF IInv, AckInv
  <2> QED  BY <2>3, <2>5, <2>6, <2>7 DEF IInv
<1>5. CASE disk' = disk /\ Fault /\ Fails /\ UNCHANGED recovered
  <2>1. faults' # 0 /\ faults' \in 0 .. MaxFaults  BY <1>2, <1>5 DEF Fault
  <2>2. FileTypes'  BY <1>1, <1>5, <2>1 DEF IInv, Types, FileTypes
  <2>3. /\ Types' /\ Numbered' /\ ChainInv' /\ BatchInv' /\ SetupInv' /\ BufferInv'
        /\ FlushInv' /\ CloseInv' /\ log' = log /\ step' = "waiting" /\ acked' = acked
    BY <1>1, <1>2, <1>5, <2>1, <2>2, FailsStep
  <2>4. CursorInv' /\ DiskInv' /\ AckInv'
    BY <1>1, <1>3, <1>5, <2>3 DEF IInv, CursorInv, DiskInv, AckInv
  <2> QED  BY <2>3, <2>4 DEF IInv
<1> QED  BY <1>4, <1>5 DEF RewriteSettles, RolledBack

LEMMA WriteSettlesSafe == ASSUME IInv, WriteSettles PROVE IInv'
<1>1. step = "write" /\ UNCHANGED <<tail, torn, truncate, recovered, lease, crashes>>
  BY DEF WriteSettles
<1>2. /\ chain # <<>> /\ faults \in 0 .. MaxFaults /\ faults \in Nat /\ MaxFaults \in Nat
      /\ Lies(batch, cursor, log)
  BY <1>1, SessionHandleConstants DEF IInv, BatchInv, Types
<1>3. /\ Alive /\ ~torn /\ tail = <<>> /\ ~truncate /\ recovered = <<>>
      /\ Lies(disk, 0, log)
      /\ materialized => exists /\ cursor = Len(disk) + Len(recovered)
      /\ ~materialized => cursor = 0
      /\ ~exists => disk = <<>> /\ Len(disk) = 0 /\ cursor = 0 /\ ~materialized
      /\ materialized \/ ~exists => cursor = Len(disk)
      /\ disk \in Seq(Event) /\ batch \in Seq(Event) /\ log \in Seq(Event)
      /\ Len(disk) \in Nat /\ Len(recovered) = 0
  BY <1>1, ArtifactWhole
<1>4. CASE WriteFails
  <2>1. /\ Fails /\ UNCHANGED <<cursor, materialized>>
        /\ \/ Refuses /\ UNCHANGED <<disk, exists, faults>>
           \/ Fault /\ disk' = disk /\ UNCHANGED exists
           \/ Fault /\ ~exists /\ ~materialized /\ disk' = batch /\ exists' = TRUE
    BY <1>4 DEF WriteFails, RolledBack, Refuses
  <2>2. faults' # 0 /\ faults' \in 0 .. MaxFaults
    <3>1. CASE Fault  BY <1>2, <3>1 DEF Fault
    <3>2. CASE Refuses /\ faults' = faults
      BY <1>2, <1>3, <3>2 DEF IInv, CloseInv, Refuses
    <3> QED  BY <2>1, <3>1, <3>2
  <2>3. /\ disk' \in Seq(Event) /\ exists' \in BOOLEAN
    BY <1>3, <2>1 DEF IInv, Types
  <2>4. FileTypes'  BY <1>1, <2>1, <2>2, <2>3 DEF IInv, Types, FileTypes
  <2>5. /\ Types' /\ Numbered' /\ ChainInv' /\ BatchInv' /\ SetupInv' /\ BufferInv'
        /\ FlushInv' /\ CloseInv' /\ log' = log /\ step' = "waiting" /\ acked' = acked
    BY <1>1, <1>2, <2>1, <2>2, <2>4, FailsStep
  <2>6. CASE disk' = disk /\ exists' = exists
    BY <1>1, <1>3, <2>1, <2>5, <2>6 DEF IInv, CursorInv, DiskInv, AckInv
  <2>7. CASE ~exists /\ ~materialized /\ disk' = batch /\ exists' = TRUE
    <3>1. Lies(batch, 0, log) /\ Len(batch) \in Nat /\ Len(log) \in Nat
      BY <1>2, <1>3, <2>7, Lengths DEF IInv
    <3>2. Lies(<<>>, Len(batch), log)
      <4>1. Len(batch) \in 0 .. Len(log)  BY <3>1 DEF Lies
      <4> QED  BY <1>3, <4>1, LiesNothing
    <3>3. DiskInv'  BY <1>1, <1>3, <2>5, <2>7, <3>1, <3>2 DEF DiskInv
    <3>4. CursorInv'  BY <1>1, <1>3, <2>1, <2>5, <2>7 DEF CursorInv
    <3>5. AckInv'
      <4> SUFFICES ASSUME ~RecoversTail PROVE AckInv'  BY DEF AckInv
      <4>1. acked[FALSE] \in Seq(Event) /\ Lies(acked[FALSE], 0, disk)
        BY DEF IInv, Types, AckInv
      <4>2. Len(batch) \in Nat /\ Len(disk) = 0  BY <1>3, <2>7, <3>1
      <4>3. Lies(acked[FALSE], 0, batch)  BY <1>3, <4>1, <4>2, LiesInNothing
      <4> QED  BY <1>1, <1>3, <2>5, <2>7, <4>3 DEF AckInv
    <3> QED  BY <2>5, <3>3, <3>4, <3>5 DEF IInv
  <2> QED  BY <2>1, <2>5, <2>6, <2>7 DEF IInv
<1>5. CASE /\ ~Refuses /\ disk' = disk \o batch /\ exists' = TRUE
           /\ cursor' = cursor + Len(batch) /\ materialized' = TRUE
           /\ Succeeds /\ UNCHANGED faults
  <2>1. cursor = Len(disk)  BY <1>3, <1>5 DEF Refuses
  <2>2. /\ disk' \in Seq(Event) /\ Len(disk') = Len(disk) + Len(batch)
        /\ Lies(disk', 0, log) /\ Lies(disk, 0, disk') /\ Lies(<<>>, Len(disk'), log)
        /\ Len(disk') \in Nat
    BY <1>2, <1>3, <1>5, <2>1, ArtifactGrows
  <2>3. FileTypes'  BY <1>1, <1>2, <1>5, <2>2 DEF IInv, Types, FileTypes
  <2>4. cursor' = Len(disk') /\ cursor' <= Len(disk')  BY <1>5, <2>1, <2>2
  <2>5. /\ Types' /\ Numbered' /\ ChainInv' /\ BatchInv' /\ SetupInv' /\ BufferInv'
        /\ FlushInv' /\ AckInv' /\ CloseInv' /\ log' = log /\ step' = "waiting"
    BY <1>1, <1>2, <1>5, <2>2, <2>3, <2>4, SucceedsStep
  <2>6. DiskInv'  BY <1>1, <1>3, <1>5, <2>2, <2>5 DEF DiskInv
  <2>7. CursorInv'
    <3>1. cursor' = Len(disk') + Len(recovered')  BY <1>1, <1>3, <2>2, <2>4
    <3> QED  BY <1>1, <1>3, <1>5, <2>2, <2>5, <3>1 DEF CursorInv
  <2> QED  BY <2>5, <2>6, <2>7 DEF IInv
<1> QED  BY <1>4, <1>5 DEF WriteSettles, Advanced

-----------------------------------------------------------------------------
(***************************************************************************)
(* A crash, and the next process.                                          *)
(***************************************************************************)
LEMMA Interrupted ==
  ASSUME IInv, Crash
  PROVE  /\ disk' \in Seq(Event) /\ tail' \in Seq(Event) /\ torn' \in BOOLEAN
         /\ exists' \in BOOLEAN
         /\ Lies(disk', 0, log) /\ Lies(tail', Len(disk'), log) /\ Lies(disk, 0, disk')
         /\ tail' # <<>> => torn'
         /\ ~exists' => disk' = <<>> /\ ~torn'
         /\ ~RecoversTail => tail' = <<>>
<1>1. /\ disk \in Seq(Event) /\ tail \in Seq(Event) /\ torn \in BOOLEAN /\ exists \in BOOLEAN
      /\ batch \in Seq(Event) /\ log \in Seq(Event)
      /\ Lies(disk, 0, log) /\ Lies(tail, Len(disk), log)
      /\ tail # <<>> => torn
      /\ ~exists => disk = <<>> /\ ~torn
      /\ ~RecoversTail => tail = <<>>
  BY DEF IInv, Types, DiskInv, AckInv
<1>2. Len(disk) \in Nat /\ Len(log) \in Nat /\ Len(<<>>) = 0 /\ <<>> \in Seq(Event)
  BY Lengths DEF IInv
<1>3. Lies(disk, 0, disk) /\ Lies(<<>>, Len(disk), log)
  <2>1. Len(disk) \in 0 .. Len(log)  BY <1>1, <1>2 DEF Lies
  <2> QED  BY <1>1, <1>2, <2>1, LiesNothing DEF Lies
<1>4. CASE UNCHANGED disks  BY <1>1, <1>3, <1>4 DEF disks
<1>5. CASE Truncated  BY <1>1, <1>2, <1>3, <1>5 DEF Truncated
<1>6. CASE /\ step \in {"rewrite", "write"} /\ materialized /\ PartlyWritten
           /\ UNCHANGED exists
  <2>1. /\ ~torn /\ tail = <<>> /\ exists /\ cursor = Len(disk) + Len(recovered)
        /\ Lies(recovered, Len(disk), log) /\ recovered \in Seq(Event)
        /\ step = "write" => recovered = <<>> /\ cursor = Len(disk)
    BY <1>6, ArtifactWhole
  <2> PICK w : w = Written  OBVIOUS
  <2>2. w \in Seq(Event) /\ Lies(w, Len(disk), log)
    <3>1. CASE step = "rewrite"  BY <2>1, <3>1 DEF Written
    <3>2. CASE step = "write"
      <4>1. w = batch /\ Lies(batch, cursor, log)  BY <3>2 DEF Written, IInv, BatchInv
      <4> QED  BY <1>1, <2>1, <3>2, <4>1
    <3> QED  BY <1>6, <3>1, <3>2
  <2> PICK n \in 0 .. Len(w) :
        \/ /\ ~RecoversTail /\ disk' = disk \o SubSeq(w, 1, n) /\ torn' \in BOOLEAN
           /\ tail' = tail
        \/ /\ RecoversTail /\ tail' = SubSeq(w, 1, n) /\ torn' = TRUE /\ disk' = disk
        \/ /\ disk' = disk \o SubSeq(w, 1, n) /\ tail' = tail /\ torn' = torn
    BY <1>6 DEF PartlyWritten
  <2> PICK s : s = SubSeq(w, 1, n)  OBVIOUS
  <2>3. s \in Seq(Event) /\ Lies(s, Len(disk), log)
    BY <1>1, <1>2, <2>2, LiesPrefix
  <2>4. /\ disk \o s \in Seq(Event) /\ Lies(disk \o s, 0, log) /\ Lies(disk, 0, disk \o s)
        /\ Lies(<<>>, Len(disk \o s), log)
    BY <2>3, ArtifactGrows
  <2>5. CASE disk' = disk \o s /\ tail' = tail /\ torn' \in BOOLEAN
    BY <1>1, <1>6, <2>1, <2>4, <2>5
  <2>6. CASE RecoversTail /\ tail' = s /\ torn' = TRUE /\ disk' = disk
    BY <1>1, <1>3, <1>6, <2>1, <2>3, <2>6
  <2> QED  BY <1>1, <2>5, <2>6
<1>7. CASE /\ step = "write" /\ ~exists
           /\ disk' = batch /\ exists' = TRUE /\ UNCHANGED <<tail, torn>>
  <2>1. ~torn /\ tail = <<>> /\ disk = <<>> /\ cursor = 0  BY <1>7, ArtifactWhole
  <2>2. Lies(batch, 0, log) /\ Len(batch) \in Nat  BY <2>1, Lengths DEF IInv, BatchInv
  <2>3. Lies(<<>>, Len(batch), log)
    <3>1. Len(batch) \in 0 .. Len(log)  BY <1>2, <2>2 DEF Lies
    <3> QED  BY <1>1, <3>1, LiesNothing
  <2>4. Lies(<<>>, 0, batch)
    <3>1. 0 \in 0 .. Len(batch)  BY <2>2
    <3> QED  BY <1>1, <3>1, LiesNothing
  <2> QED  BY <1>1, <1>7, <2>1, <2>2, <2>3, <2>4
<1> QED  BY <1>4, <1>5, <1>6, <1>7 DEF Crash

LEMMA CrashSafe == ASSUME IInv, Crash PROVE IInv'
<1>1. /\ session' = "crashed" /\ crashes' = crashes + 1 /\ crashes < MaxCrashes
      /\ buffered' = <<>> /\ timer' = FALSE /\ paused' = FALSE /\ draining' = "none"
      /\ chain' = <<>> /\ step' = "waiting" /\ batch' = <<>>
      /\ closer' = Open /\ flusher' = [f \in Flushers |-> NoFlush]
      /\ UNCHANGED <<log, stored, state, lease, acked, faults>>
  BY DEF Crash
<1>2. /\ disk' \in Seq(Event) /\ tail' \in Seq(Event) /\ torn' \in BOOLEAN
      /\ exists' \in BOOLEAN
      /\ Lies(disk', 0, log) /\ Lies(tail', Len(disk'), log) /\ Lies(disk, 0, disk')
      /\ tail' # <<>> => torn'
      /\ ~exists' => disk' = <<>> /\ ~torn'
      /\ ~RecoversTail => tail' = <<>>
  BY Interrupted
<1>3. /\ Open \in Closings /\ Open.at = "open" /\ ~Open.failed
      /\ NoFlush \in Flushes /\ NoFlush.at = "idle" /\ NoFlush.goal = 0
  BY SessionHandleConstants DEF Open, Closings, NoFlush, Flushes
<1>4. Types'
  <2>1. flusher' \in [Flushers -> Flushes]  BY <1>1, <1>3
  <2>2. crashes' \in 0 .. MaxCrashes  BY <1>1, SessionHandleConstants DEF IInv, Types
  <2>3. <<>> \in Seq(Event) /\ <<>> \in Seq(Ops)  BY EmptySeq
  <2> QED  BY <1>1, <1>2, <1>3, <2>1, <2>2, <2>3 DEF IInv, Types, Steps, state
<1>5. Numbered'  BY <1>1, Frame
<1>6. DiskInv'  BY <1>1, <1>2 DEF DiskInv
<1>7. CursorInv'  BY <1>1 DEF CursorInv, Alive
<1>8. ChainInv'  BY <1>1, NoOps DEF ChainInv
<1>9. BatchInv'  BY <1>1, WithinLog DEF BatchInv, state
<1>10. SetupInv' /\ BufferInv'  BY <1>1 DEF SetupInv, BufferInv
<1>11. FlushInv'
  <2>1. Len(log) \in Nat  BY Lengths DEF IInv
  <2> QED  BY <1>1, <1>3, <2>1 DEF FlushInv, Covered
<1>12. AckInv'
  <2> SUFFICES ASSUME ~RecoversTail PROVE AckInv'  BY DEF AckInv
  <2>1. recovered = <<>> /\ Lies(acked[FALSE], 0, disk) /\ acked[FALSE] \in Seq(Event)
    BY DEF IInv, AckInv, Types
  <2>2. Lies(acked[FALSE], 0, disk')
    <3>1. disk \in Seq(Event)  BY DEF IInv, Types
    <3> QED  BY <1>2, <2>1, <3>1, LiesShorter
  <2> QED  BY <1>1, <1>2, <2>1, <2>2 DEF AckInv, state
<1>13. CloseInv'  BY <1>1, <1>3 DEF CloseInv, Alive
<1> QED  BY <1>4, <1>5, <1>6, <1>7, <1>8, <1>9, <1>10, <1>11, <1>12, <1>13 DEF IInv

LEMMA ReopenSafe == ASSUME IInv, Reopen PROVE IInv'
<1>1. /\ session = "crashed" /\ session' = "setup"
      /\ log' = Readable /\ stored' = Len(Readable) /\ cursor' = Len(Readable)
      /\ materialized' = exists /\ truncate' = torn /\ recovered' = tail
      /\ lease' = IF exists THEN "held" ELSE "none"
      /\ UNCHANGED <<disks, buffers, running, callers, bounds>>
  BY DEF Reopen
<1> PICK d \in Seq(Event) : d = disk  BY DEF IInv, Types
<1> PICK t \in Seq(Event) : t = tail  BY DEF IInv, Types
<1> PICK m \in Nat : m = Len(d)  BY LenProperties
<1> PICK n \in Nat : n = Len(t)  BY LenProperties
<1> PICK r : r = d \o t  OBVIOUS
<1>2. r = Readable /\ r \in Seq(Event) /\ Len(r) = m + n
  BY ConcatProperties DEF Readable
<1>3. /\ Lies(r, 0, log) /\ log \in Seq(Event) /\ Len(log) \in 0 .. MaxEvents
      /\ MaxEvents \in Nat
  <2>1. /\ Lies(d, 0, log) /\ Lies(t, Len(d), log) /\ Len(d) = 0 + Len(d)
        /\ log \in Seq(Event) /\ Len(log) \in 0 .. MaxEvents /\ MaxEvents \in Nat
    BY Lengths, Sequences DEF IInv, DiskInv
  <2> QED  BY <2>1, LiesConcat
<1>4. m + n <= Len(log) /\ \A i \in 1 .. m + n : r[i] = log[i]
  BY <1>2, <1>3 DEF Lies
<1>5. Lies(d, 0, r) /\ Lies(t, m, r)
  <2>1. Lies(r, 0, r)
    <3>1. 0 + (m + n) <= m + n /\ \A i \in 1 .. m + n : 0 + i = i  OBVIOUS
    <3> QED  BY <1>2, <3>1 DEF Lies
  <2>2. Lies(d \o t, 0, r)  BY <2>1
  <2>3. Lies(d, 0, r) /\ Lies(t, 0 + Len(d), r)  BY <1>2, <2>2, LiesConcat
  <2>4. 0 + Len(d) = m  OBVIOUS
  <2> QED  BY <2>3, <2>4
<1>6. /\ chain = <<>> /\ step = "waiting" /\ batch = <<>> /\ buffered = <<>>
      /\ \A f \in Flushers : flusher[f].at = "idle"
  BY <1>1, NobodyRuns
<1>7. Types'
  <2>1. m + n \in 0 .. MaxEvents /\ m + n <= MaxEvents  BY <1>3, <1>4
  <2>2. lease' \in {"none", "held", "released"}  BY <1>1
  <2>3. /\ log' \in Seq(Event) /\ recovered' \in Seq(Event) /\ Len(log') <= MaxEvents
        /\ stored' \in 0 .. MaxEvents /\ cursor' \in 0 .. MaxEvents
    BY <1>1, <1>2, <2>1
  <2>4. UNCHANGED <<disks, buffers, running, callers, bounds>>  BY <1>1
  <2>5. materialized' = exists /\ truncate' = torn /\ session' = "setup"  BY <1>1
  <2> QED  BY <2>2, <2>3, <2>4, <2>5 DEF IInv, Types, disks, buffers, running, callers, bounds
<1>8. Numbered'
  <2>1. \A i \in 1 .. m + n : i \in 1 .. Len(log)  BY <1>3, <1>4
  <2> QED  BY <1>1, <1>2, <1>4, <2>1 DEF IInv, Numbered
<1>9. DiskInv'  BY <1>1, <1>2, <1>5 DEF IInv, DiskInv, disks
<1>10. CursorInv'
  <2>1. ~exists => d = <<>> /\ t = <<>> /\ ~torn  BY DEF IInv, DiskInv
  <2>2. ~exists => m + n = 0
    <3>1. Len(<<>>) = 0  OBVIOUS
    <3> QED  BY <2>1, <3>1
  <2> QED  BY <1>1, <1>2, <1>5, <1>6, <2>1, <2>2 DEF CursorInv, disks, running
<1>11. ChainInv'  BY <1>1, <1>6, NoOps DEF ChainInv, running
<1>12. BatchInv'
  <2>1. m + n \in 0 .. Len(r)  BY <1>2
  <2>2. Lies(<<>>, m + n, r)  BY <1>2, <2>1, LiesNothing
  <2> QED  BY <1>1, <1>2, <1>6, <2>2 DEF BatchInv, running
<1>13. SetupInv'  BY <1>1, <1>2 DEF SetupInv
<1>14. BufferInv'  BY <1>1, <1>6 DEF BufferInv, buffers
<1>15. FlushInv'  BY <1>1, <1>2, <1>6 DEF IInv, FlushInv, Covered, callers
<1>16. AckInv'  BY <1>1 DEF IInv, AckInv, disks, callers
<1>17. CloseInv'
  <2>1. DrainRuns' = DrainRuns  BY <1>1 DEF DrainRuns, Op, running
  <2> QED  BY <1>1, <2>1 DEF IInv, CloseInv, disks, buffers, callers, bounds
<1> QED  BY <1>7, <1>8, <1>9, <1>10, <1>11, <1>12, <1>13, <1>14, <1>15, <1>16, <1>17 DEF IInv

-----------------------------------------------------------------------------
LEMMA StutterSafe == ASSUME IInv, UNCHANGED vars PROVE IInv'
<1>1. UNCHANGED <<disks, sessions, buffers, running, state, lease, callers, bounds>>
  BY DEF vars
<1>2. /\ Numbered' /\ DiskInv' /\ CursorInv' /\ ChainInv' /\ BatchInv' /\ SetupInv'
      /\ BufferInv' /\ FlushInv' /\ AckInv'
  BY <1>1, Frame DEF sessions, disks, state, buffers, running, callers
<1>3. Types'
  BY <1>1 DEF IInv, Types, disks, sessions, buffers, running, state, callers, bounds
<1>4. CloseInv'
  <2>1. DrainRuns' = DrainRuns  BY <1>1 DEF DrainRuns, Op, running
  <2> QED  BY <1>1, <2>1
       DEF IInv, CloseInv, disks, sessions, buffers, running, state, callers, bounds, Alive
<1> QED  BY <1>2, <1>3, <1>4 DEF IInv

LEMMA StepSafe == ASSUME IInv, [Next]_vars PROVE IInv'
<1>1. CASE SetupEvent \/ StoreSuffix \/ Publish \/ LiveEvent
  BY <1>1, SetupEventSafe, StoreSuffixSafe, PublishSafe, LiveEventSafe
<1>2. CASE HandleStep
  BY <1>2, TimerFiresSafe, DrainContinuesSafe, DrainSettlesSafe, StartOpSafe,
     LeaseSettlesSafe, TruncateSettlesSafe, RewriteSettlesSafe, WriteSettlesSafe DEF HandleStep
<1>3. CASE CloseStep \/ Close
  BY <1>3, CloseSafe, CloseDrainedSafe, CloseLooksSafe, CloseLeavesSafe DEF CloseStep
<1>4. CASE \E f \in Flushers : FlushCall(f) \/ FlushDrained(f)
  BY <1>4, FlushCallSafe, FlushDrainedSafe
<1>5. CASE Crash \/ Reopen  BY <1>5, CrashSafe, ReopenSafe
<1>6. CASE UNCHANGED vars  BY <1>6, StutterSafe
<1> QED  BY <1>1, <1>2, <1>3, <1>4, <1>5, <1>6 DEF Next

LEMMA SessionHandleInvariant == Spec => []IInv
<1>1. IInv /\ [Next]_vars => IInv'  BY StepSafe
<1> QED  BY InitSafe, <1>1, PTL DEF Spec

-----------------------------------------------------------------------------
(***************************************************************************)
(* What the invariant says of the properties of SessionHandle.             *)
(***************************************************************************)
LEMMA PrefixOfLog ==
  ASSUME NEW S, NEW l \in Seq(S), NEW n \in Nat, n <= Len(l)
  PROVE  SubSeq(l, 1, n) \in Seq(S) /\ Len(SubSeq(l, 1, n)) = n /\ Lies(SubSeq(l, 1, n), 0, l)
<1>1. n \in 0 .. Len(l)  BY LenProperties
<1> QED  BY <1>1, LiesPrefix

(***************************************************************************)
(* Artifact, cursor, write in flight and buffer agree about the log in     *)
(* every state, through failed writes, retries, crashes and reopenings: a  *)
(* reader of the artifact sees a prefix of the log, the cursor counts what *)
(* is committed or owed, and nothing published is missed or doubled.       *)
(***************************************************************************)
THEOREM BooksCorrect == Spec => []BooksAgree
<1>1. ASSUME IInv PROVE BooksAgree
  <2>1. /\ log \in Seq(Event) /\ disk \in Seq(Event) /\ tail \in Seq(Event)
        /\ recovered \in Seq(Event) /\ batch \in Seq(Event) /\ buffered \in Seq(Event)
        /\ acked \in [BOOLEAN -> Seq(Event)]
    BY <1>1 DEF IInv, Types
  <2>2. /\ Len(disk) \in Nat /\ cursor \in Nat /\ Len(batch) \in Nat /\ Len(log) \in Nat
        /\ Len(recovered) \in Nat /\ Len(buffered) \in Nat /\ cursor <= Len(log)
    BY <1>1, Lengths, WithinLog DEF IInv
  <2>3. TypeOK
    <3>1. acked[TRUE] \in Seq(Event) /\ acked[FALSE] \in Seq(Event)  BY <2>1
    <3>2. \A events \in {disk, tail, log, buffered, batch, recovered, acked[TRUE], acked[FALSE]} :
            events \in Seq(Event)
      BY <2>1, <3>1
    <3>3. {torn, exists, timer, paused, materialized, truncate} \subseteq BOOLEAN
      BY <1>1 DEF IInv, Types
    <3>4. /\ session \in {"setup", "storing", "stored", "live", "failed", "crashed"}
          /\ stored \in 0 .. MaxEvents /\ cursor \in 0 .. MaxEvents
          /\ draining \in {"none", "queued", "written", "ended", "failed"}
          /\ chain \in Seq(Ops)
          /\ step \in {"waiting", "lease", "truncate", "rewrite", "write"}
          /\ lease \in {"none", "held", "released"}
          /\ faults \in 0 .. MaxFaults /\ crashes \in 0 .. MaxCrashes
      BY <1>1 DEF IInv, Types, Steps
    <3>5. closer \in Closings /\ flusher \in [Flushers -> Flushes]  BY <1>1 DEF IInv, Types
    <3> QED  BY <3>2, <3>3, <3>4, <3>5 DEF TypeOK, Closings, Flushes
  <2>4. ReadersSeePrefix
    <3>1. Lies(disk, 0, log) /\ Lies(tail, Len(disk), log) /\ 0 + Len(disk) = Len(disk)
      BY <1>1, <2>2 DEF IInv, DiskInv
    <3>2. Lies(disk \o tail, 0, log)  BY <2>1, <3>1, LiesConcat
    <3>3. disk \o tail \in Seq(Event)  BY <2>1, ConcatProperties
    <3> QED  BY <2>1, <3>2, <3>3, LiesFirst DEF ReadersSeePrefix, Readable
  <2>5. StoredAgrees
    <3> SUFFICES ASSUME Alive, materialized PROVE disk \o recovered = Stored(cursor)
      BY DEF StoredAgrees
    <3>1. /\ Lies(disk, 0, log) /\ Lies(recovered, Len(disk), log)
          /\ cursor = Len(disk) + Len(recovered) /\ 0 + Len(disk) = Len(disk)
      BY <1>1, <2>2 DEF IInv, DiskInv, CursorInv
    <3> PICK r : r = disk \o recovered  OBVIOUS
    <3>2. r \in Seq(Event) /\ Len(r) = cursor  BY <2>1, <3>1, ConcatProperties
    <3>3. Lies(r, 0, log)  BY <2>1, <3>1, LiesConcat
    <3>4. r = SubSeq(log, 1, Len(r))  BY <2>1, <3>2, <3>3, LiesFirst
    <3> QED  BY <3>2, <3>4 DEF Stored
  <2>6. NothingMissed
    <3> SUFFICES ASSUME session = "live"
                 PROVE  log = Stored(cursor)
                              \o (IF chain # <<>> /\ Op.kind = "drain" THEN batch ELSE <<>>)
                              \o buffered
      BY DEF NothingMissed
    <3> PICK b : b = IF chain # <<>> /\ Op.kind = "drain" THEN batch ELSE <<>>  OBVIOUS
    <3>1. b = batch
      <4>1. CASE chain # <<>> /\ Op.kind = "drain"  BY <4>1
      <4>2. CASE chain = <<>>
        <5>1. step = "waiting"  BY <1>1, <4>2 DEF IInv, BatchInv
        <5> QED  BY <1>1, <4>2, <5>1, NothingInFlight
      <4>3. CASE chain # <<>> /\ Op.kind # "drain"  BY <1>1, <4>3, NothingInFlight
      <4> QED  BY <4>1, <4>2, <4>3
    <3> PICK s : s = Stored(cursor)  OBVIOUS
    <3>2. s \in Seq(Event) /\ Len(s) = cursor /\ Lies(s, 0, log)
      BY <2>1, <2>2, PrefixOfLog DEF Stored
    <3>3. /\ Lies(batch, cursor, log) /\ Lies(buffered, cursor + Len(batch), log)
          /\ cursor + Len(batch) + Len(buffered) = Len(log) /\ 0 + cursor = cursor
      BY <1>1, <2>2 DEF IInv, BatchInv, BufferInv
    <3> PICK q : q = s \o batch  OBVIOUS
    <3>4. q \in Seq(Event) /\ Len(q) = cursor + Len(batch)  BY <2>1, <3>2, ConcatProperties
    <3>5. Lies(q, 0, log)  BY <2>1, <3>2, <3>3, LiesConcat
    <3>6. 0 + Len(q) = cursor + Len(batch)  BY <2>2, <3>4
    <3> PICK r : r = q \o buffered  OBVIOUS
    <3>7. r \in Seq(Event) /\ Len(r) = Len(log)  BY <2>1, <3>3, <3>4, ConcatProperties
    <3>8. Lies(r, 0, log)  BY <2>1, <3>3, <3>4, <3>5, <3>6, LiesConcat
    <3>9. r = log  BY <2>1, <3>7, <3>8, LiesFirst
    <3> QED  BY <3>1, <3>9
  <2> QED  BY <2>3, <2>4, <2>5, <2>6 DEF BooksAgree
<1> QED  BY <1>1, SessionHandleInvariant, PTL

(***************************************************************************)
(* Of a raw artifact, whose committed lines are never offered for recovery *)
(* a second time: what a checkpoint acknowledged that did not join an      *)
(* ended drain is in the artifact for good.                                *)
(***************************************************************************)
THEOREM AckedCorrect == ASSUME ~RecoversTail PROVE Spec => []AckedSurvive
<1>1. ASSUME IInv PROVE AckedSurvive
  <2>1. /\ tail = <<>> /\ recovered = <<>> /\ Lies(acked[FALSE], 0, disk)
        /\ disk \in Seq(Event) /\ acked[FALSE] \in Seq(Event)
    BY <1>1 DEF IInv, Types, AckInv
  <2>2. Recoverable = disk
    <3>1. disk \o <<>> = disk  BY <2>1, ConcatEmptySeq
    <3> QED  BY <2>1, <3>1 DEF Recoverable
  <2> QED  BY <2>1, <2>2, LiesFirst DEF AckedSurvive
<1> QED  BY <1>1, SessionHandleInvariant, PTL

(***************************************************************************)
(* Of a raw artifact, as long as no write fails: what was published before *)
(* close() last found the buffer empty is stored when it resolves.         *)
(***************************************************************************)
THEOREM CloseCorrect == ASSUME ~RecoversTail PROVE Spec => []CloseKeepsPublished
<1>1. ASSUME IInv PROVE CloseKeepsPublished
  <2> SUFFICES ASSUME faults = 0, session = "live", closer.at = "closed"
               PROVE  IsPrefix(Stored(closer.covers), Readable)
    BY DEF CloseKeepsPublished, CloseLosesNothing
  <2>1. closer.covers <= cursor /\ Alive /\ materialized = exists
    BY <1>1 DEF IInv, CloseInv, Alive
  <2>2. /\ tail = <<>> /\ recovered = <<>> /\ Lies(disk, 0, log)
        /\ disk \in Seq(Event) /\ log \in Seq(Event)
        /\ cursor \in Nat /\ Len(disk) \in Nat /\ Len(log) \in Nat /\ Len(recovered) = 0
    BY <1>1, Lengths, Sequences DEF IInv, AckInv, DiskInv
  <2>3. cursor <= Len(disk)
    BY <1>1, <2>1, <2>2 DEF IInv, CursorInv
  <2> PICK n \in Nat : n = closer.covers  BY <1>1, CloseTypes DEF IInv
  <2>4. n <= Len(log) /\ n <= Len(disk)  BY <2>1, <2>2, <2>3 DEF Lies
  <2> PICK s : s = Stored(n)  OBVIOUS
  <2>5. s \in Seq(Event) /\ Len(s) = n /\ Lies(s, 0, log)
    BY <2>2, <2>4, PrefixOfLog DEF Stored
  <2>6. Lies(s, 0, disk)  BY <2>2, <2>4, <2>5, LiesShorter
  <2>7. Readable = disk  BY <2>2, ConcatEmptySeq DEF Readable
  <2> QED  BY <2>2, <2>5, <2>6, <2>7, LiesFirst
<1> QED  BY <1>1, SessionHandleInvariant, PTL
=============================================================================
