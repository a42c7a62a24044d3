--------------------------- MODULE ScheduleProofs ---------------------------
(***************************************************************************)
(* Proofs about Schedule, for any tasks, period and bounds.                *)
(*                                                                         *)
(* What makes deliveries sound is that nothing else runs while the drive   *)
(* is at the head of the chain: the rows it read before an await still say *)
(* the same behind it (DriveInv). That an occurrence is not repeated is a  *)
(* matter of accounting: whoever could deliver it again has a row that is  *)
(* not past it, and the mishap that paid for that (Counted).               *)
(***************************************************************************)
EXTENDS Schedule, SequenceTheorems, FiniteSetTheorems, WellFoundedInduction, TLAPS

Rows == {Absent, Deleted}
        \cup [status : {"active", "inactive"}, due : Times, receipts : SUBSET Receipts]

Ops == {Driving, [kind |-> "stop"]}
       \cup [kind : {"create"}, task : Tasks, due : Times]
       \cup [kind : {"update"}, task : Tasks, seen : Times]
       \cup [kind : {"delete"}, task : Tasks]

Drives == [pc : {"none", "resolving", "flushing", "committing"},
           todo : SUBSET Tasks, group : SUBSET Tasks, at : 0 .. MaxTime,
           failed : SUBSET Tasks]

Messages == SUBSET (Tasks \X Times)

\* The message about a task is queued, its row not yet written.
InFlight(t) == drive.pc \in {"flushing", "committing"} /\ t \in drive.group

-----------------------------------------------------------------------------
(***************************************************************************)
(* Arithmetic of occurrences.                                              *)
(***************************************************************************)
LEMMA TimesAreNumbers ==
  /\ MaxTime \in Nat /\ Period \in Nat /\ Period >= 1
  /\ Times = 0 .. MaxTime + Period
BY ScheduleConstants DEF Times

\* The whole periods that fit into a distance.
LEMMA WholePeriods ==
  ASSUME NEW d \in Nat
  PROVE  (d \div Period) * Period \in 0 .. d
<1>1. Period \in Nat /\ Period > 0  BY TimesAreNumbers
<1> PICK q \in Int : q = d \div Period  BY <1>1
<1>2. q * Period <= d /\ q >= 0  BY <1>1
<1>3. q * Period \in Int /\ q * Period >= 0  BY <1>1, <1>2
<1> QED  BY <1>2, <1>3

LEMMA LeastNatural ==
  ASSUME NEW S \in SUBSET Nat, S # {}
  PROVE  \E x \in S : \A y \in S : x <= y
<1> DEFINE T == {0 .. x : x \in S}
<1>1. \A x \in Nat : IsFiniteSet(0 .. x) /\ 0 .. x \subseteq Nat  BY FS_Interval
<1>2. T \subseteq FiniteSubsetsOf(Nat) /\ T # {}  BY <1>1 DEF FiniteSubsetsOf
<1>3. IsWellFoundedOn(StrictSubsetOrdering(Nat), FiniteSubsetsOf(Nat))
  BY FS_StrictSubsetOrderingWellFounded
<1>4. \E u \in T : \A v \in T : ~(<<v, u>> \in StrictSubsetOrdering(Nat))
  <2> HIDE DEF T
  <2> QED  BY <1>2, <1>3, WFMin
<1> PICK x \in S : \A y \in S : ~(<<0 .. y, 0 .. x>> \in StrictSubsetOrdering(Nat))
  BY <1>4
<1>5. ASSUME NEW y \in S, y < x PROVE FALSE
  <2>1. 0 .. y \subseteq 0 .. x /\ x \in 0 .. x /\ x \notin 0 .. y  BY <1>5
  <2>2. <<0 .. y, 0 .. x>> \in StrictSubsetOrdering(Nat)
    BY <1>1, <2>1 DEF StrictSubsetOrdering
  <2> QED  BY <2>2
<1> QED  BY <1>5

LEMMA MinInSet ==
  ASSUME NEW S \in SUBSET Nat, S # {}
  PROVE  Min(S) \in S
<1> PICK x \in S : \A y \in S : x <= y  BY LeastNatural
<1> QED  BY DEF Min

LEMMA OccurrenceInRange ==
  ASSUME NEW t \in Tasks, NEW at \in 0 .. MaxTime, row[t].due \in Times, row[t].due <= at
  PROVE  Occurrence(t, at) \in row[t].due .. at
<1> PICK due \in Nat : due = row[t].due  BY TimesAreNumbers
<1> PICK d \in Nat : d = at - due /\ at = due + d  BY TimesAreNumbers
<1> PICK w \in 0 .. d : w = (d \div Period) * Period  BY WholePeriods
<1>1. t \in OneShot => Occurrence(t, at) = due  BY DEF Occurrence
<1>2. t \notin OneShot => Occurrence(t, at) = due + w  BY DEF Occurrence
<1>3. due + w \in due .. due + d /\ due \in due .. due + d  OBVIOUS
<1> QED  BY <1>1, <1>2, <1>3

LEMMA NextDueTypes ==
  ASSUME NEW t \in Tasks, NEW o \in 0 .. MaxTime
  PROVE  /\ o \in Times /\ NextDue(t, o) \in Times
         /\ t \in Recurring => NextDue(t, o) > o
<1>1. t \in Recurring => t \notin OneShot  BY ScheduleConstants
<1>2. o \in Times /\ o + Period \in Times /\ o + Period > o  BY TimesAreNumbers
<1> QED  BY <1>1, <1>2 DEF NextDue

LEMMA OccurrenceBounds ==
  ASSUME NEW t \in Tasks, NEW at \in 0 .. MaxTime, row[t].due \in Times, row[t].due <= at
  PROVE  /\ Occurrence(t, at) \in Times
         /\ Occurrence(t, at) >= row[t].due /\ Occurrence(t, at) <= at
         /\ NextDue(t, Occurrence(t, at)) \in Times
         /\ t \in Recurring => NextDue(t, Occurrence(t, at)) > Occurrence(t, at)
<1> PICK due \in Nat : due = row[t].due  BY TimesAreNumbers
<1> PICK o \in due .. at : o = Occurrence(t, at)  BY OccurrenceInRange
<1>1. o \in 0 .. MaxTime /\ o >= due /\ o <= at  BY TimesAreNumbers
<1> QED  BY <1>1, NextDueTypes

-----------------------------------------------------------------------------
(***************************************************************************)
(* How often an occurrence is queued.                                      *)
(***************************************************************************)
Tellers(s, o) == {i \in 1 .. Len(s) : o \in s[i]}
Tells(s, o) == Cardinality(Tellers(s, o))

LEMMA TellsType ==
  ASSUME NEW s \in Seq(Messages), NEW o
  PROVE  IsFiniteSet(Tellers(s, o)) /\ Tells(s, o) \in Nat
<1>1. Len(s) \in Nat  BY LenProperties
<1>2. IsFiniteSet(1 .. Len(s))  BY <1>1, FS_Interval
<1>3. Tellers(s, o) \subseteq 1 .. Len(s)  BY DEF Tellers
<1>4. IsFiniteSet(Tellers(s, o))  BY <1>2, <1>3, FS_Subset
<1> QED  BY <1>4, FS_CardinalityType DEF Tells

LEMMA TellsNothing == \A o : Tells(<<>>, o) = 0
<1> SUFFICES ASSUME NEW o PROVE Tells(<<>>, o) = 0  OBVIOUS
<1>1. Len(<<>>) = 0  OBVIOUS
<1>2. Tellers(<<>>, o) = {}  BY <1>1 DEF Tellers
<1> QED  BY <1>2, FS_EmptySet DEF Tells

LEMMA TellsAppend ==
  ASSUME NEW s \in Seq(Messages), NEW m \in Messages, NEW o
  PROVE  Tells(Append(s, m), o) = IF o \in m THEN Tells(s, o) + 1 ELSE Tells(s, o)
<1> PICK n \in Nat : n = Len(s)  BY LenProperties
<1> PICK r : r = Append(s, m)  OBVIOUS
<1>1. Len(r) = n + 1 /\ r[n + 1] = m /\ \A i \in 1 .. n : r[i] = s[i]
  BY AppendProperties
<1>2. IsFiniteSet(Tellers(s, o))  BY TellsType
<1>3. Tellers(s, o) \subseteq 1 .. n /\ n + 1 \notin Tellers(s, o)  BY DEF Tellers
<1>4. CASE o \in m
  <2>1. ASSUME NEW i PROVE i \in Tellers(r, o) <=> i \in Tellers(s, o) \cup {n + 1}
    <3>1. i \in 1 .. n + 1 <=> i \in 1 .. n \/ i = n + 1  OBVIOUS
    <3> QED  BY <1>1, <1>4, <3>1 DEF Tellers
  <2>2. Tellers(r, o) = Tellers(s, o) \cup {n + 1}  BY <2>1
  <2> QED  BY <1>2, <1>3, <1>4, <2>2, FS_AddElement DEF Tells
<1>5. CASE o \notin m
  <2>1. ASSUME NEW i PROVE i \in Tellers(r, o) <=> i \in Tellers(s, o)
    <3>1. i \in 1 .. n + 1 <=> i \in 1 .. n \/ i = n + 1  OBVIOUS
    <3> QED  BY <1>1, <1>5, <3>1 DEF Tellers
  <2>2. Tellers(r, o) = Tellers(s, o)  BY <2>1
  <2> QED  BY <1>5, <2>2 DEF Tells
<1> QED  BY <1>4, <1>5

LEMMA Prefix ==
  ASSUME NEW s \in Seq(Messages), NEW n \in 0 .. Len(s)
  PROVE  /\ SubSeq(s, 1, n) \in Seq(Messages) /\ Len(SubSeq(s, 1, n)) = n
         /\ \A i \in 1 .. n : SubSeq(s, 1, n)[i] = s[i]
         /\ \A o : Tells(SubSeq(s, 1, n), o) <= Tells(s, o)
<1>1. Len(s) \in Nat  BY LenProperties
<1>2. \A i \in 1 .. n : s[i] \in Messages  BY <1>1, ElementOfSeq
<1> PICK r : r = SubSeq(s, 1, n)  OBVIOUS
<1>3. /\ r \in Seq(Messages) /\ Len(r) = IF 1 <= n THEN n - 1 + 1 ELSE 0
      /\ \A i \in 1 .. n - 1 + 1 : r[i] = s[1 + i - 1]
  BY <1>2, SubSeqProperties
<1>4. r \in Seq(Messages) /\ Len(r) = n /\ \A i \in 1 .. n : r[i] = s[i]  BY <1>3
<1>5. ASSUME NEW o PROVE Tells(r, o) <= Tells(s, o)
  <2>1. Tellers(r, o) \subseteq Tellers(s, o)  BY <1>1, <1>4 DEF Tellers
  <2> QED  BY <2>1, TellsType, FS_Subset DEF Tells
<1> QED  BY <1>4, <1>5

-----------------------------------------------------------------------------
(***************************************************************************)
(* The invariant.                                                          *)
(***************************************************************************)
Runnings == {"none", "queued", "returned", "retiring", "closed"}

Types ==
  /\ row \in [Tasks -> Rows]
  /\ inbox \in Seq(Messages) /\ flushed \in 0 .. Len(inbox)
  /\ now \in 0 .. MaxTime
  /\ chain \in Seq(Ops) /\ drive \in Drives
  /\ requested \in BOOLEAN /\ stopping \in BOOLEAN
  /\ running \in Runnings /\ timer \in Times \cup {NoTimer}
  /\ calls \in 0 .. MaxCalls /\ mishaps \in 0 .. MaxMishaps

\* A create that waits in the chain of operations c for its task t.
Creating(c, t) == \E i \in 1 .. Len(c) : c[i].kind = "create" /\ c[i].task = t

CreatesOnce(c) ==
  \A i, j \in 1 .. Len(c) :
    c[i].kind = "create" /\ c[j].kind = "create" /\ c[i].task = c[j].task => i = j

\* An id drawn for a task that waits to be created is nobody else's.
CreateInv == CreatesOnce(chain) /\ \A t \in Tasks : Creating(chain, t) => row[t] = Absent

\* While a drive awaits, it is at the head of the chain, and what it has read
\* of its tasks is still so.
DriveInv ==
  drive.pc # "none" =>
    /\ chain # <<>> /\ Head(chain) = Driving
    /\ drive.todo \cap drive.group = {}
    /\ \A t \in drive.todo \cup drive.group : IsActive(t)

FlightInv ==
  /\ drive.pc \in {"flushing", "committing"} => inbox # <<>>
  /\ \A t \in Tasks : InFlight(t) =>
       /\ row[t].due <= drive.at
       /\ <<t, Occurrence(t, drive.at)>> \in inbox[Len(inbox)]
  /\ drive.pc = "committing" => flushed = Len(inbox)

ReceiptsInv ==
  \A t \in Tasks : row[t] \notin {Absent, Deleted} =>
    /\ \A r \in row[t].receipts :
         r.message \in 1 .. flushed /\ <<t, r.at>> \in inbox[r.message]
    /\ row[t].status = "inactive" => row[t].receipts # {}

\* Whoever could be delivered once more without another mishap, because its row
\* or the clock is not past the occurrence, has one to account for it.
Counted ==
  \A t \in Tasks, at \in Times :
    /\ Tells(inbox, <<t, at>>) <= 1 + mishaps
    /\ now < at => Tells(inbox, <<t, at>>) <= mishaps
    /\ IsActive(t) /\ row[t].due <= at /\ ~(InFlight(t) /\ Occurrence(t, drive.at) = at)
         => Tells(inbox, <<t, at>>) <= mishaps
    /\ row[t] = Absent => Tells(inbox, <<t, at>>) = 0

IInv == Types /\ CreateInv /\ DriveInv /\ FlightInv /\ ReceiptsInv /\ Counted

\* Nothing is left to run when the service has closed: a process that starts
\* then finds no delivery half done, and needs no mishap to account for one.
ClosedInv == running = "closed" => stopping /\ chain = <<>>

-----------------------------------------------------------------------------
(***************************************************************************)
(* Rows, operations and drives.                                            *)
(***************************************************************************)
LEMMA RowTypes ==
  ASSUME NEW r \in Rows
  PROVE  /\ r.status = "active" => r.due \in Times
         /\ r \notin {Absent, Deleted} =>
              /\ r.status \in {"active", "inactive"} /\ r.due \in Times
              /\ r.receipts \subseteq Receipts
              /\ r = [status |-> r.status, due |-> r.due, receipts |-> r.receipts]
         /\ r.status = "active" => r \notin {Absent, Deleted}
BY DEF Rows, Absent, Deleted

LEMMA NewRows ==
  ASSUME NEW st \in {"active", "inactive"}, NEW d \in Times, NEW rs \in SUBSET Receipts
  PROVE  /\ [status |-> st, due |-> d, receipts |-> rs] \in Rows
         /\ [status |-> st, due |-> d, receipts |-> rs] \notin {Absent, Deleted}
BY DEF Rows, Absent, Deleted

LEMMA DriveTypes ==
  ASSUME NEW p \in {"none", "resolving", "flushing", "committing"},
         NEW todo \in SUBSET Tasks, NEW group \in SUBSET Tasks, NEW at \in 0 .. MaxTime,
         NEW failed \in SUBSET Tasks
  PROVE  [pc |-> p, todo |-> todo, group |-> group, at |-> at, failed |-> failed] \in Drives
BY DEF Drives

LEMMA DriveParts ==
  ASSUME Types
  PROVE  /\ drive.pc \in {"none", "resolving", "flushing", "committing"}
         /\ drive.todo \subseteq Tasks /\ drive.group \subseteq Tasks
         /\ drive.at \in 0 .. MaxTime /\ drive.failed \subseteq Tasks
         /\ drive = [pc |-> drive.pc, todo |-> drive.todo, group |-> drive.group,
                     at |-> drive.at, failed |-> drive.failed]
BY DEF Types, Drives

LEMMA IdleDrive ==
  ASSUME NEW failed \in SUBSET Tasks
  PROVE  /\ [Idle EXCEPT !.failed = failed] \in Drives
         /\ [Idle EXCEPT !.failed = failed].pc = "none"
         /\ Idle \in Drives /\ Idle.pc = "none"
<1>1. 0 \in 0 .. MaxTime  BY TimesAreNumbers
<1>2. [Idle EXCEPT !.failed = failed]
        = [pc |-> "none", todo |-> {}, group |-> {}, at |-> 0, failed |-> failed]
  BY DEF Idle
<1> QED  BY <1>1, <1>2, DriveTypes DEF Idle

LEMMA DrivingOp == Driving \in Ops /\ Driving.kind # "create"
BY DEF Ops, Driving

LEMMA TailChain ==
  ASSUME NEW c \in Seq(Ops), c # <<>>, CreatesOnce(c)
  PROVE  /\ Tail(c) \in Seq(Ops) /\ CreatesOnce(Tail(c))
         /\ Head(c) \in Ops
         /\ \A t : Creating(Tail(c), t) => Creating(c, t)
         /\ Head(c).kind = "create" => /\ Creating(c, Head(c).task)
                                       /\ ~Creating(Tail(c), Head(c).task)
<1>1. Len(c) \in Nat \ {0}  BY EmptySeq
<1> PICK n \in Nat : n = Len(c) - 1  BY <1>1
<1> PICK d : d = Tail(c)  OBVIOUS
<1>2. /\ Head(c) \in Ops /\ d \in Seq(Ops) /\ Len(d) = n
      /\ \A i \in 1 .. n : d[i] = c[i + 1]
  BY HeadTailProperties
<1>3. Head(c) = c[1] /\ 1 \in 1 .. Len(c)  BY <1>1
<1>4. \A i \in 1 .. n : i + 1 \in 1 .. Len(c) /\ i + 1 # 1  OBVIOUS
<1>5. CreatesOnce(d)
  <2> SUFFICES ASSUME NEW i \in 1 .. n, NEW j \in 1 .. n, d[i].kind = "create",
                      d[j].kind = "create", d[i].task = d[j].task
               PROVE  i = j
    BY <1>2 DEF CreatesOnce
  <2>1. i + 1 = j + 1  BY <1>2, <1>4 DEF CreatesOnce
  <2> QED  BY <2>1
<1>6. \A t : Creating(d, t) => Creating(c, t)  BY <1>2, <1>4 DEF Creating
<1>7. ASSUME c[1].kind = "create" PROVE ~Creating(d, c[1].task)
  <2> SUFFICES ASSUME NEW i \in 1 .. n, d[i].kind = "create", d[i].task = c[1].task
               PROVE  FALSE
    BY <1>2 DEF Creating
  <2>1. i + 1 = 1  BY <1>2, <1>3, <1>4, <1>7 DEF CreatesOnce
  <2> QED  BY <2>1
<1>8. c[1].kind = "create" => Creating(c, c[1].task)  BY <1>3 DEF Creating
<1> QED  BY <1>2, <1>3, <1>5, <1>6, <1>7, <1>8

LEMMA LongerChain ==
  ASSUME NEW c \in Seq(Ops), CreatesOnce(c), NEW op \in Ops,
         op.kind = "create" => ~Creating(c, op.task)
  PROVE  /\ Append(c, op) \in Seq(Ops) /\ CreatesOnce(Append(c, op))
         /\ \A t : Creating(Append(c, op), t)
                     => Creating(c, t) \/ (op.kind = "create" /\ op.task = t)
         /\ c # <<>> => Append(c, op) # <<>> /\ Head(Append(c, op)) = Head(c)
<1> PICK n \in Nat : n = Len(c)  BY LenProperties
<1> PICK d : d = Append(c, op)  OBVIOUS
<1>1. /\ d \in Seq(Ops) /\ d # <<>> /\ Len(d) = n + 1
      /\ d[n + 1] = op /\ \A i \in 1 .. n : d[i] = c[i]
  BY AppendProperties
<1>2. \A i \in 1 .. n + 1 : i \in 1 .. n \/ i = n + 1  OBVIOUS
<1>3. CreatesOnce(d)
  <2> SUFFICES ASSUME NEW i \in 1 .. n + 1, NEW j \in 1 .. n + 1, d[i].kind = "create",
                      d[j].kind = "create", d[i].task = d[j].task
               PROVE  i = j
    BY <1>1 DEF CreatesOnce
  <2>1. CASE i \in 1 .. n /\ j \in 1 .. n  BY <1>1, <2>1 DEF CreatesOnce
  <2>2. CASE i \in 1 .. n /\ j = n + 1  BY <1>1, <2>2 DEF Creating
  <2>3. CASE j \in 1 .. n /\ i = n + 1  BY <1>1, <2>3 DEF Creating
  <2> QED  BY <1>2, <2>1, <2>2, <2>3
<1>4. \A t : Creating(d, t) => Creating(c, t) \/ (op.kind = "create" /\ op.task = t)
  BY <1>1, <1>2 DEF Creating
<1>5. ASSUME c # <<>> PROVE Head(d) = Head(c)
  <2>1. n >= 1  BY <1>5, EmptySeq
  <2>2. d[1] = c[1]  BY <1>1, <2>1
  <2>3. Head(c) = c[1] /\ Head(d) = d[1]  OBVIOUS
  <2> QED  BY <2>2, <2>3
<1> QED  BY <1>1, <1>3, <1>4, <1>5

\* drive() goes on to its next group, or arms the timer and returns.
LEMMA ProceedStep ==
  ASSUME Types, CreatesOnce(chain), chain # <<>>, Head(chain) = Driving,
         NEW todo \in SUBSET Tasks, NEW failed \in SUBSET Tasks,
         row' \in [Tasks -> Rows], \A t \in todo : row'[t].status = "active",
         Proceed(todo, failed)
  PROVE  /\ chain' \in Seq(Ops) /\ CreatesOnce(chain')
         /\ \A t : Creating(chain', t) => Creating(chain, t)
         /\ drive' \in Drives /\ drive'.pc \in {"none", "resolving"} /\ DriveInv'
         /\ requested' = requested /\ stopping' = stopping
         /\ running' \in Runnings /\ timer' \in Times \cup {NoTimer}
<1>1. requested' = requested /\ stopping' = stopping  BY DEF Proceed
<1>2. ASSUME NEW target \in Times \cup {NoTimer}, DriveReturns(target, failed)
      PROVE  /\ chain' = Tail(chain) /\ running' = "returned" /\ timer' = target
             /\ drive' \in Drives /\ drive'.pc = "none"
  BY <1>2, IdleDrive DEF DriveReturns
<1>3. NextTarget(failed) \in Times \cup {NoTimer}
  <2> DEFINE open == {t \in Tasks : row'[t].status = "active" /\ t \notin failed}
             dues == {row'[t].due : t \in open}
  <2>1. \A t \in open : row'[t].due \in Times  BY RowTypes
  <2>2. dues \subseteq Times  BY <2>1
  <2>3. CASE open = {}  BY <2>3 DEF NextTarget
  <2>4. CASE open # {}
    <3>1. dues # {}  BY <2>4
    <3>2. NextTarget(failed) = Min(dues)  BY <2>4 DEF NextTarget
    <3> HIDE DEF dues, open
    <3>3. dues \in SUBSET Nat  BY <2>2, TimesAreNumbers
    <3>4. Min(dues) \in dues  BY <3>1, <3>3, MinInSet
    <3> QED  BY <2>2, <3>2, <3>4
  <2> QED  BY <2>3, <2>4
<1>4. CASE \E target \in Times \cup {NoTimer} : DriveReturns(target, failed)
  <2>1. /\ chain' = Tail(chain) /\ running' = "returned" /\ timer' \in Times \cup {NoTimer}
        /\ drive' \in Drives /\ drive'.pc = "none"
    BY <1>2, <1>4
  <2>2. chain \in Seq(Ops)  BY DEF Types
  <2>3. /\ Tail(chain) \in Seq(Ops) /\ CreatesOnce(Tail(chain))
        /\ \A t : Creating(Tail(chain), t) => Creating(chain, t)
    BY <2>2, TailChain
  <2>4. DriveInv'  BY <2>1 DEF DriveInv
  <2> QED  BY <1>1, <2>1, <2>3, <2>4 DEF Runnings
<1>5. CASE \E t \in todo :
              /\ drive' = [pc |-> "resolving", todo |-> todo \ GroupOf(t, todo),
                           group |-> GroupOf(t, todo), at |-> 0, failed |-> failed]
              /\ timer' = NoTimer
              /\ UNCHANGED <<chain, running>>
  <2> PICK t \in todo :
              /\ drive' = [pc |-> "resolving", todo |-> todo \ GroupOf(t, todo),
                           group |-> GroupOf(t, todo), at |-> 0, failed |-> failed]
              /\ timer' = NoTimer
              /\ UNCHANGED <<chain, running>>
    BY <1>5
  <2> PICK g : g = GroupOf(t, todo)  OBVIOUS
  <2>1. g \subseteq todo  BY DEF GroupOf
  <2>2. drive' = [pc |-> "resolving", todo |-> todo \ g, group |-> g, at |-> 0,
                  failed |-> failed]
    OBVIOUS
  <2>3. drive' \in Drives
    <3>1. 0 \in 0 .. MaxTime /\ todo \ g \in SUBSET Tasks /\ g \in SUBSET Tasks
      BY <2>1, TimesAreNumbers
    <3> QED  BY <2>2, <3>1, DriveTypes
  <2>4. drive'.pc = "resolving" /\ drive'.todo = todo \ g /\ drive'.group = g  BY <2>2
  <2>5. DriveInv'
    <3>1. drive'.todo \cap drive'.group = {}  BY <2>4
    <3>2. \A u \in drive'.todo \cup drive'.group : row'[u].status = "active"  BY <2>1, <2>4
    <3>3. chain' # <<>> /\ Head(chain') = Driving  OBVIOUS
    <3> QED  BY <3>1, <3>2, <3>3 DEF DriveInv, IsActive
  <2>6. timer' \in Times \cup {NoTimer}  OBVIOUS
  <2>7. running' \in Runnings /\ chain' = chain /\ chain \in Seq(Ops)  BY DEF Types
  <2> QED  BY <1>1, <2>3, <2>4, <2>5, <2>6, <2>7
<1> QED  BY <1>3, <1>4, <1>5 DEF Proceed

LEMMA RequestStep ==
  ASSUME Types, NEW rest \in Seq(Ops), RequestDrive(rest)
  PROVE  /\ chain' = rest \/ chain' = Append(rest, Driving)
         /\ requested' \in BOOLEAN /\ stopping' = stopping
         /\ running' \in Runnings /\ timer' \in Times \cup {NoTimer}
BY DEF RequestDrive, runtime, Types, Runnings

-----------------------------------------------------------------------------
(***************************************************************************)
(* The parts of the invariant under what most steps leave alone.           *)
(***************************************************************************)
LEMMA GroundedFlight ==
  ASSUME drive'.pc \in {"none", "resolving"}
  PROVE  FlightInv'
BY DEF FlightInv, InFlight

LEMMA SameReceipts ==
  ASSUME ReceiptsInv, UNCHANGED <<row, inbox, flushed>>
  PROVE  ReceiptsInv'
BY DEF ReceiptsInv

LEMMA FewerCreates ==
  ASSUME CreateInv, CreatesOnce(chain'), UNCHANGED row,
         \A t : Creating(chain', t) => Creating(chain, t)
  PROVE  CreateInv'
BY DEF CreateInv

LEMMA SameCount ==
  ASSUME Types, Counted, UNCHANGED <<row, inbox, mishaps>>, now' \in Nat, now' >= now,
         \A t \in Tasks : InFlight(t) => InFlight(t)' /\ drive'.at = drive.at
  PROVE  Counted'
<1> SUFFICES ASSUME NEW t \in Tasks, NEW at \in Times
             PROVE  /\ Tells(inbox', <<t, at>>) <= 1 + mishaps'
                    /\ now' < at => Tells(inbox', <<t, at>>) <= mishaps'
                    /\ IsActive(t)' /\ row'[t].due <= at
                       /\ ~(InFlight(t)' /\ Occurrence(t, drive.at)' = at)
                         => Tells(inbox', <<t, at>>) <= mishaps'
                    /\ row'[t] = Absent => Tells(inbox', <<t, at>>) = 0
  BY DEF Counted
<1> PICK n : n = Tells(inbox, <<t, at>>)  OBVIOUS
<1>1. /\ n <= 1 + mishaps
      /\ now < at => n <= mishaps
      /\ IsActive(t) /\ row[t].due <= at /\ ~(InFlight(t) /\ Occurrence(t, drive.at) = at)
           => n <= mishaps
      /\ row[t] = Absent => n = 0
  BY DEF Counted
<1>2. Tells(inbox', <<t, at>>) = n /\ mishaps' = mishaps /\ row' = row  OBVIOUS
<1>3. now' < at => now < at  BY TimesAreNumbers DEF Types
<1>4. InFlight(t) /\ Occurrence(t, drive.at) = at
        => InFlight(t)' /\ Occurrence(t, drive.at)' = at
  BY DEF Occurrence
<1>5. IsActive(t)' <=> IsActive(t)  BY DEF IsActive
<1> QED  BY <1>1, <1>2, <1>3, <1>4, <1>5

\* A mishap pays for one more delivery of everything.
LEMMA PaidCount ==
  ASSUME Types, Counted, UNCHANGED row, mishaps' = mishaps + 1, inbox' \in Seq(Messages),
         \A o : Tells(inbox', o) <= Tells(inbox, o)
  PROVE  Counted'
<1> SUFFICES ASSUME NEW t \in Tasks, NEW at \in Times
             PROVE  /\ Tells(inbox', <<t, at>>) <= mishaps'
                    /\ row'[t] = Absent => Tells(inbox', <<t, at>>) = 0
                    /\ Tells(inbox', <<t, at>>) <= 1 + mishaps'
  BY DEF Counted
<1> PICK n \in Nat : n = Tells(inbox, <<t, at>>)  BY TellsType DEF Types
<1> PICK m \in Nat : m = Tells(inbox', <<t, at>>)  BY TellsType
<1>1. m <= n  OBVIOUS
<1>2. n <= 1 + mishaps /\ (row[t] = Absent => n = 0)  BY DEF Counted
<1>3. mishaps \in Nat  BY DEF Types
<1> QED  BY <1>1, <1>2, <1>3

\* Steps that leave the rows, the messages and the drive alone.
LEMMA KeptStep ==
  ASSUME IInv, Types', UNCHANGED <<row, inbox, flushed, drive>>,
         \/ chain' = chain
         \/ \E op \in Ops :
              /\ chain' = Append(chain, op)
              /\ op.kind = "create" => row[op.task] = Absent /\ ~Creating(chain, op.task),
         (mishaps' = mishaps /\ now' >= now) \/ mishaps' = mishaps + 1
  PROVE  IInv'
<1>1. chain \in Seq(Ops) /\ CreatesOnce(chain)  BY DEF IInv, Types, CreateInv
<1>2. /\ CreatesOnce(chain')
      /\ \A t : Creating(chain', t) => Creating(chain, t) \/ row[t] = Absent
      /\ chain # <<>> => chain' # <<>> /\ Head(chain') = Head(chain)
  <2>1. CASE chain' = chain  BY <1>1, <2>1
  <2>2. CASE \E op \in Ops :
              /\ chain' = Append(chain, op)
              /\ op.kind = "create" => row[op.task] = Absent /\ ~Creating(chain, op.task)
    <3> PICK op \in Ops :
              /\ chain' = Append(chain, op)
              /\ op.kind = "create" => row[op.task] = Absent /\ ~Creating(chain, op.task)
      BY <2>2
    <3>1. /\ CreatesOnce(Append(chain, op))
          /\ \A t : Creating(Append(chain, op), t)
                      => Creating(chain, t) \/ (op.kind = "create" /\ op.task = t)
          /\ chain # <<>> => Append(chain, op) # <<>> /\ Head(Append(chain, op)) = Head(chain)
      BY <1>1, LongerChain
    <3> QED  BY <3>1
  <2> QED  BY <2>1, <2>2
<1>3. CreateInv'  BY <1>2 DEF IInv, CreateInv
<1>4. DriveInv'  BY <1>2 DEF IInv, DriveInv, IsActive
<1>5. FlightInv'  BY DEF IInv, FlightInv, InFlight, Occurrence
<1>6. ReceiptsInv'  BY SameReceipts DEF IInv
<1>7. Counted'
  <2>1. CASE mishaps' = mishaps + 1
    <3>1. \A o : Tells(inbox', o) <= Tells(inbox, o)  BY TellsType DEF IInv, Types
    <3> QED  BY <2>1, <3>1, PaidCount DEF IInv, Types
  <2>2. CASE mishaps' = mishaps /\ now' >= now
    <3>1. now' \in Nat  BY DEF Types
    <3>2. \A t \in Tasks : InFlight(t) => InFlight(t)' /\ drive'.at = drive.at
      BY DEF InFlight
    <3> QED  BY <2>2, <3>1, <3>2, SameCount DEF IInv
  <2> QED  BY <2>1, <2>2
<1> QED  BY <1>3, <1>4, <1>5, <1>6, <1>7 DEF IInv

-----------------------------------------------------------------------------
(***************************************************************************)
(* The actions.                                                            *)
(***************************************************************************)
LEMMA InitSafe == Init => IInv
<1> SUFFICES ASSUME Init PROVE IInv  OBVIOUS
<1>0. 1 \in Times /\ 0 \in 0 .. MaxTime  BY TimesAreNumbers
<1>1. Types
  <2>1. row \in [Tasks -> Rows]
    <3>1. [status |-> "active", due |-> 1, receipts |-> {}] \in Rows  BY <1>0, NewRows
    <3>2. Absent \in Rows  BY DEF Rows
    <3> QED  BY <3>1, <3>2 DEF Init
  <2>2. inbox \in Seq(Messages) /\ Len(inbox) = 0  BY EmptySeq DEF Init
  <2>3. chain \in Seq(Ops)  BY DrivingOp DEF Init
  <2>4. drive \in Drives  BY IdleDrive DEF Init
  <2>5. calls \in 0 .. MaxCalls /\ mishaps \in 0 .. MaxMishaps /\ flushed \in 0 .. Len(inbox)
    BY <2>2, ScheduleConstants DEF Init
  <2> QED  BY <1>0, <2>1, <2>2, <2>3, <2>4, <2>5 DEF Init, Types, Runnings
<1>2. CreateInv
  <2>1. Len(chain) = 1 /\ chain[1] = Driving  BY DEF Init
  <2>2. \A i \in 1 .. Len(chain) : chain[i].kind # "create"  BY <2>1, DrivingOp
  <2> QED  BY <2>2 DEF CreateInv, CreatesOnce, Creating
<1>3. drive.pc = "none"  BY DEF Init, Idle
<1>4. DriveInv /\ FlightInv  BY <1>3 DEF DriveInv, FlightInv, InFlight
<1>5. ReceiptsInv
  <2>1. \A t \in Tasks : row[t] = Absent \/ (row[t].status = "active" /\ row[t].receipts = {})
    BY DEF Init
  <2> QED  BY <2>1 DEF ReceiptsInv
<1>6. Counted
  <2>1. \A o : Tells(inbox, o) = 0  BY TellsNothing DEF Init
  <2>2. mishaps = 0  BY DEF Init
  <2> QED  BY <2>1, <2>2 DEF Counted
<1> QED  BY <1>1, <1>2, <1>4, <1>5, <1>6 DEF IInv

LEMMA TimerStep ==
  ASSUME IInv, TimerFires \/ LoopContinues \/ Retire \/ Tick \/ ClockSetBack
                 \/ Dispose \/ Closes
  PROVE  IInv'
<1>1. Types  BY DEF IInv
<1>2. chain \in Seq(Ops)  BY <1>1 DEF Types
<1>3. /\ chain' \in {chain, Append(chain, Driving)}
      /\ UNCHANGED <<row, inbox, flushed, drive, calls>>
      /\ requested' \in BOOLEAN /\ stopping' \in BOOLEAN
      /\ running' \in Runnings /\ timer' \in Times \cup {NoTimer}
  <2>1. CASE TimerFires  BY <1>1, <1>2, <2>1, RequestStep DEF TimerFires, Types
  <2>2. CASE LoopContinues \/ Retire
    BY <1>1, <2>2 DEF LoopContinues, Retire, Types, Runnings
  <2>3. CASE Tick \/ ClockSetBack
    BY <1>1, <2>3 DEF Tick, ClockSetBack, runtime, Types
  <2>4. CASE Dispose \/ Closes
    BY <1>1, <2>4 DEF Dispose, Closes, Types, Runnings
  <2> QED  BY <2>1, <2>2, <2>3, <2>4
<1>4. /\ now' \in 0 .. MaxTime /\ mishaps' \in 0 .. MaxMishaps
      /\ (mishaps' = mishaps /\ now' >= now) \/ mishaps' = mishaps + 1
  <2>1. now \in 0 .. MaxTime /\ mishaps \in 0 .. MaxMishaps  BY <1>1 DEF Types
  <2>2. MaxTime \in Nat /\ MaxMishaps \in Nat  BY ScheduleConstants
  <2>3. CASE Tick  BY <2>1, <2>2, <2>3 DEF Tick
  <2>4. CASE ClockSetBack  BY <2>1, <2>2, <2>4 DEF ClockSetBack, Mishap
  <2>5. CASE Dispose  BY <2>1, <2>2, <2>5 DEF Dispose, Mishap
  <2>6. CASE TimerFires \/ LoopContinues \/ Retire \/ Closes
    BY <2>1, <2>2, <2>6 DEF TimerFires, LoopContinues, Retire, Closes
  <2> QED  BY <2>3, <2>4, <2>5, <2>6
<1>5. chain' \in Seq(Ops)  BY <1>2, <1>3, DrivingOp, AppendProperties
<1>6. Types'  BY <1>1, <1>3, <1>4, <1>5 DEF Types
<1> QED  BY <1>3, <1>4, <1>6, DrivingOp, KeptStep

LEMMA CallStep == ASSUME IInv, Call PROVE IInv'
<1>1. Types /\ chain \in Seq(Ops)  BY DEF IInv, Types
<1>2. now + 1 \in Times  BY <1>1, TimesAreNumbers DEF Types
<1> PICK op \in [kind : {"create"}, task : {t \in Tasks : Fresh(t)}, due : {now + 1}]
                \cup [kind : {"update"}, task : {t \in Tasks : IsActive(t)}, seen : Times]
                \cup [kind : {"delete"}, task : Tasks]
                \cup {[kind |-> "stop"]} : chain' = Append(chain, op)
  BY DEF Call
<1>3. op \in Ops  BY <1>2 DEF Ops
<1>4. op.kind = "create" => op.task \in Tasks /\ Fresh(op.task)  OBVIOUS
<1>5. op.kind = "create" => row[op.task] = Absent /\ ~Creating(chain, op.task)
  <2>1. DOMAIN chain = 1 .. Len(chain)  BY <1>1, LenProperties
  <2> QED  BY <1>4, <2>1 DEF Fresh, Creating
<1>6. /\ UNCHANGED <<row, inbox, flushed, now, drive, mishaps>> /\ UNCHANGED runtime
      /\ calls' = calls + 1 /\ calls < MaxCalls
  BY DEF Call
<1>7. chain' \in Seq(Ops)  BY <1>1, <1>3, AppendProperties
<1>8. calls' \in 0 .. MaxCalls  BY <1>1, <1>6, ScheduleConstants DEF Types
<1>9. Types'  BY <1>1, <1>6, <1>7, <1>8 DEF Types, runtime
<1>10. now' >= now  BY <1>1, <1>6, TimesAreNumbers DEF Types
<1> QED  BY <1>3, <1>5, <1>6, <1>9, <1>10, KeptStep

\* A drive that starts, or goes on without having queued anything.
LEMMA ProceedSafe ==
  ASSUME IInv, chain # <<>>, Head(chain) = Driving, drive.pc \in {"none", "resolving"},
         NEW todo \in SUBSET Tasks, NEW failed \in SUBSET Tasks,
         \A t \in todo : IsActive(t), Proceed(todo, failed),
         UNCHANGED <<row, inbox, flushed, now, calls, mishaps>>
  PROVE  IInv'
<1>1. Types /\ CreatesOnce(chain)  BY DEF IInv, CreateInv
<1>2. row' \in [Tasks -> Rows]  BY <1>1 DEF Types
<1>3. \A t \in todo : row'[t].status = "active"  BY DEF IsActive
<1>4. /\ chain' \in Seq(Ops) /\ CreatesOnce(chain')
      /\ \A t : Creating(chain', t) => Creating(chain, t)
      /\ drive' \in Drives /\ drive'.pc \in {"none", "resolving"} /\ DriveInv'
      /\ requested' = requested /\ stopping' = stopping
      /\ running' \in Runnings /\ timer' \in Times \cup {NoTimer}
  BY <1>1, <1>2, <1>3, ProceedStep
<1>5. Types'  BY <1>1, <1>2, <1>4 DEF Types
<1>6. CreateInv' /\ ReceiptsInv' /\ FlightInv'
  BY <1>4, FewerCreates, SameReceipts, GroundedFlight DEF IInv
<1>7. Counted'
  <2>1. now' \in Nat /\ now' >= now  BY <1>1, TimesAreNumbers DEF Types
  <2>2. \A t \in Tasks : InFlight(t) => InFlight(t)' /\ drive'.at = drive.at  BY DEF InFlight
  <2> QED  BY <1>1, <2>1, <2>2, SameCount DEF IInv
<1> QED  BY <1>4, <1>5, <1>6, <1>7 DEF IInv

\* The catch clause, wherever the delivery failed.
LEMMA GivesUpSafe ==
  ASSUME IInv, drive.pc # "none", GivesUp(drive.group)
  PROVE  IInv'
<1>1. Types /\ CreatesOnce(chain)  BY DEF IInv, CreateInv
<1>2. /\ chain # <<>> /\ Head(chain) = Driving
      /\ \A t \in drive.todo : IsActive(t)
  BY DEF IInv, DriveInv
<1> PICK todo \in SUBSET Tasks : todo = drive.todo  BY <1>1, DriveParts
<1> PICK failed \in SUBSET Tasks : failed = drive.failed \cup {t \in drive.group : Due(t)}
  BY <1>1, DriveParts
<1>3. Mishap /\ UNCHANGED <<row, inbox, flushed, now, calls>> /\ Proceed(todo, failed)
  BY DEF GivesUp
<1>4. row' \in [Tasks -> Rows] /\ \A t \in todo : row'[t].status = "active"
  BY <1>1, <1>2, <1>3 DEF Types, IsActive
<1>5. /\ chain' \in Seq(Ops) /\ CreatesOnce(chain')
      /\ \A t : Creating(chain', t) => Creating(chain, t)
      /\ drive' \in Drives /\ drive'.pc \in {"none", "resolving"} /\ DriveInv'
      /\ requested' = requested /\ stopping' = stopping
      /\ running' \in Runnings /\ timer' \in Times \cup {NoTimer}
  BY <1>1, <1>2, <1>3, <1>4, ProceedStep
<1>6. mishaps' = mishaps + 1 /\ mishaps' \in 0 .. MaxMishaps
  BY <1>1, <1>3, ScheduleConstants DEF Mishap, Types
<1>7. Types'  BY <1>1, <1>3, <1>4, <1>5, <1>6 DEF Types
<1>8. CreateInv' /\ ReceiptsInv' /\ FlightInv'
  BY <1>3, <1>5, FewerCreates, SameReceipts, GroundedFlight DEF IInv
<1>9. Counted'
  <2>1. \A o : Tells(inbox', o) <= Tells(inbox, o)  BY <1>1, <1>3, TellsType DEF Types
  <2> QED  BY <1>1, <1>3, <1>6, <1>7, <2>1, PaidCount DEF IInv, Types
<1> QED  BY <1>5, <1>7, <1>8, <1>9 DEF IInv

LEMMA DriveStartsSafe == ASSUME IInv, DriveStarts PROVE IInv'
<1>1. /\ chain # <<>> /\ Head(chain) = Driving /\ drive.pc = "none"
      /\ UNCHANGED <<row, inbox, flushed, now, calls, mishaps>>
      /\ Proceed({t \in Tasks : Due(t)}, {})
  BY DEF DriveStarts
<1> PICK todo \in SUBSET Tasks : todo = {t \in Tasks : Due(t)}  OBVIOUS
<1> PICK failed \in SUBSET Tasks : failed = {}  OBVIOUS
<1>2. \A t \in todo : IsActive(t)  BY DEF Due
<1> QED  BY <1>1, <1>2, ProceedSafe

\* A message is queued for the tasks that are still due.
LEMMA QueuedSafe ==
  ASSUME IInv, drive.pc = "resolving", NEW admitted, admitted = Admitted(drive.group),
         admitted # {},
         inbox' = Append(inbox, {<<t, Occurrence(t, now)>> : t \in admitted}),
         drive' = [drive EXCEPT !.pc = "flushing", !.group = admitted, !.at = now],
         UNCHANGED <<row, chain, requested, running, timer, stopping, flushed, now, calls, mishaps>>
  PROVE  IInv'
<1> PICK m : m = {<<t, Occurrence(t, now)>> : t \in admitted}  OBVIOUS
<1>1. Types /\ inbox \in Seq(Messages) /\ Len(inbox) \in Nat
  BY LenProperties DEF IInv, Types
<1>2. /\ chain # <<>> /\ Head(chain) = Driving
      /\ drive.todo \cap drive.group = {}
      /\ \A t \in drive.todo \cup drive.group : IsActive(t)
  BY DEF IInv, DriveInv
<1>3. /\ drive.todo \subseteq Tasks /\ drive.group \subseteq Tasks /\ drive.failed \subseteq Tasks
      /\ drive' = [pc |-> "flushing", todo |-> drive.todo, group |-> admitted, at |-> now,
                   failed |-> drive.failed]
  BY <1>1, DriveParts
<1>4. admitted \subseteq drive.group /\ \A t \in admitted : row[t].due <= now
  BY DEF Admitted
<1>5. ASSUME NEW t \in admitted
      PROVE  /\ t \in Tasks /\ IsActive(t) /\ row[t].due <= now /\ row[t].due \in Times
             /\ Occurrence(t, now) \in Times
             /\ Occurrence(t, now) >= row[t].due /\ Occurrence(t, now) <= now
  <2>1. t \in Tasks /\ IsActive(t) /\ row[t].due <= now  BY <1>2, <1>3, <1>4
  <2>2. row[t] \in Rows /\ now \in 0 .. MaxTime  BY <1>1, <2>1 DEF Types
  <2>3. row[t].due \in Times  BY <2>1, <2>2, RowTypes DEF IsActive
  <2> QED  BY <2>1, <2>2, <2>3, OccurrenceBounds
<1>6. m \in Messages
  <2>1. \A t \in admitted : <<t, Occurrence(t, now)>> \in Tasks \X Times  BY <1>5
  <2> QED  BY <2>1 DEF Messages
<1>7. /\ inbox' \in Seq(Messages) /\ inbox' # <<>>
      /\ Len(inbox') = Len(inbox) + 1 /\ inbox'[Len(inbox) + 1] = m
      /\ \A i \in 1 .. Len(inbox) : inbox'[i] = inbox[i]
  BY <1>1, <1>6, AppendProperties
<1>8. /\ drive'.pc = "flushing" /\ drive'.todo = drive.todo /\ drive'.group = admitted
      /\ drive'.at = now
  BY <1>3
<1>9. Types'
  <2>1. now \in 0 .. MaxTime /\ admitted \subseteq Tasks  BY <1>1, <1>3, <1>4 DEF Types
  <2>2. drive' \in Drives  BY <1>3, <2>1 DEF Drives
  <2>3. flushed' \in 0 .. Len(inbox')  BY <1>1, <1>7 DEF Types
  <2> QED  BY <1>1, <1>7, <2>2, <2>3 DEF Types
<1>10. CreateInv'  BY DEF IInv, CreateInv
<1>11. DriveInv'  BY <1>2, <1>4, <1>8 DEF DriveInv, IsActive
<1>12. FlightInv'
  <2>1. ASSUME NEW t \in Tasks, InFlight(t)'
        PROVE  row'[t].due <= drive'.at
               /\ <<t, Occurrence(t, drive.at)'>> \in inbox'[Len(inbox')]
    <3>1. t \in admitted  BY <1>8, <2>1 DEF InFlight
    <3>2. Occurrence(t, drive.at)' = Occurrence(t, now)  BY <1>8 DEF Occurrence
    <3>3. <<t, Occurrence(t, now)>> \in m  BY <3>1
    <3> QED  BY <1>5, <1>7, <1>8, <3>1, <3>2, <3>3
  <2> QED  BY <1>7, <1>8, <2>1 DEF FlightInv
<1>13. ReceiptsInv'
  <2>1. \A i \in 1 .. flushed : inbox'[i] = inbox[i]  BY <1>1, <1>7 DEF Types
  <2> QED  BY <2>1 DEF IInv, ReceiptsInv
<1>14. Counted'
  <2> SUFFICES ASSUME NEW t \in Tasks, NEW at \in Times
               PROVE  /\ Tells(inbox', <<t, at>>) <= 1 + mishaps'
                      /\ now' < at => Tells(inbox', <<t, at>>) <= mishaps'
                      /\ IsActive(t)' /\ row'[t].due <= at
                         /\ ~(InFlight(t)' /\ Occurrence(t, drive.at)' = at)
                           => Tells(inbox', <<t, at>>) <= mishaps'
                      /\ row'[t] = Absent => Tells(inbox', <<t, at>>) = 0
    BY DEF Counted
  <2> PICK n \in Nat : n = Tells(inbox, <<t, at>>)  BY <1>1, TellsType
  <2>1. /\ n <= 1 + mishaps
        /\ now < at => n <= mishaps
        /\ IsActive(t) /\ row[t].due <= at => n <= mishaps
        /\ row[t] = Absent => n = 0
    BY DEF IInv, Counted, InFlight
  <2>2. mishaps \in Nat /\ now \in Nat /\ at \in Nat
    BY <1>1, TimesAreNumbers DEF Types
  <2>3. IsActive(t)' <=> IsActive(t)  BY DEF IsActive
  <2>4. CASE t \in admitted /\ Occurrence(t, now) = at
    <3>1. Tells(inbox', <<t, at>>) <= n + 1  BY <1>1, <1>6, TellsAppend
    <3>2. Tells(inbox', <<t, at>>) \in Nat  BY <1>7, TellsType
    <3>3. n <= mishaps /\ ~(now < at)  BY <1>5, <2>1, <2>2, <2>4, TimesAreNumbers
    <3>4. InFlight(t)' /\ Occurrence(t, drive.at)' = at
      BY <1>8, <2>4 DEF InFlight, Occurrence
    <3>5. row[t] # Absent  BY <1>5, <2>4 DEF IsActive, Absent
    <3> QED  BY <2>2, <3>1, <3>2, <3>3, <3>4, <3>5
  <2>5. CASE ~(t \in admitted /\ Occurrence(t, now) = at)
    <3>1. <<t, at>> \notin m  BY <2>5
    <3>2. Tells(inbox', <<t, at>>) = n  BY <1>1, <1>6, <3>1, TellsAppend
    <3> QED  BY <2>1, <2>3, <3>2
  <2> QED  BY <2>4, <2>5
<1> QED  BY <1>9, <1>10, <1>11, <1>12, <1>13, <1>14 DEF IInv

LEMMA ResolvedSafe == ASSUME IInv, Resolved PROVE IInv'
<1>1. Types /\ CreatesOnce(chain) /\ drive.pc = "resolving"  BY DEF IInv, CreateInv, Resolved
<1>2. /\ chain # <<>> /\ Head(chain) = Driving
      /\ \A t \in drive.todo : IsActive(t)
  BY <1>1 DEF IInv, DriveInv
<1> PICK todo \in SUBSET Tasks : todo = drive.todo  BY <1>1, DriveParts
<1> PICK failed \in SUBSET Tasks : failed = drive.failed  BY <1>1, DriveParts
<1> PICK admitted : admitted = Admitted(drive.group)  OBVIOUS
<1>3. CASE stopping
  <2>1. Proceed(todo, failed)  BY <1>3 DEF Resolved, Proceed
  <2>2. UNCHANGED <<row, inbox, flushed, now, calls, mishaps>>  BY <1>3 DEF Resolved
  <2> QED  BY <1>1, <1>2, <2>1, <2>2, ProceedSafe
<1>4. CASE ~stopping /\ admitted = {}
  <2>1. Proceed(todo, failed)  BY <1>4 DEF Resolved
  <2>2. UNCHANGED <<row, inbox, flushed, now, calls, mishaps>>  BY <1>4 DEF Resolved
  <2> QED  BY <1>1, <1>2, <2>1, <2>2, ProceedSafe
<1>5. CASE ~stopping /\ admitted # {}
  <2>1. /\ inbox' = Append(inbox, {<<t, Occurrence(t, now)>> : t \in admitted})
        /\ drive' = [drive EXCEPT !.pc = "flushing", !.group = admitted, !.at = now]
        /\ UNCHANGED <<row, chain, requested, running, timer, stopping,
                       flushed, now, calls, mishaps>>
    BY <1>5 DEF Resolved, runtime
  <2> QED  BY <1>1, <1>5, <2>1, QueuedSafe
<1> QED  BY <1>3, <1>4, <1>5

LEMMA FlushedSafe == ASSUME IInv, Flushed PROVE IInv'
<1>1. Types /\ drive.pc = "flushing" /\ inbox \in Seq(Messages) /\ Len(inbox) \in Nat
  BY LenProperties DEF IInv, Types, Flushed
<1>2. /\ flushed' = Len(inbox) /\ drive' = [drive EXCEPT !.pc = "committing"]
      /\ UNCHANGED <<row, inbox, now, chain, requested, running, timer, stopping, calls, mishaps>>
  BY DEF Flushed, runtime
<1>3. /\ drive'.pc = "committing" /\ drive'.todo = drive.todo /\ drive'.group = drive.group
      /\ drive'.at = drive.at /\ drive' \in Drives
  BY <1>1, <1>2 DEF Types, Drives
<1>4. Types'  BY <1>1, <1>2, <1>3 DEF Types
<1>5. CreateInv'  BY <1>2 DEF IInv, CreateInv
<1>6. DriveInv'  BY <1>1, <1>2, <1>3 DEF IInv, DriveInv, IsActive
<1>7. \A t \in Tasks : (InFlight(t)' <=> InFlight(t))
                       /\ Occurrence(t, drive.at)' = Occurrence(t, drive.at)
  BY <1>1, <1>2, <1>3 DEF InFlight, Occurrence
<1>8. FlightInv'  BY <1>1, <1>2, <1>3, <1>7 DEF IInv, FlightInv
<1>9. ReceiptsInv'
  <2>1. \A i \in 1 .. flushed : i \in 1 .. flushed'  BY <1>1, <1>2 DEF Types
  <2> QED  BY <1>2, <2>1 DEF IInv, ReceiptsInv
<1>10. Counted'
  <2>1. now' \in Nat /\ now' >= now  BY <1>1, <1>2, TimesAreNumbers DEF Types
  <2> QED  BY <1>1, <1>2, <1>3, <1>7, <2>1, SameCount DEF IInv
<1> QED  BY <1>4, <1>5, <1>6, <1>8, <1>9, <1>10 DEF IInv

\* The row of a delivered task moves past the occurrence its message names.
LEMMA CommittedSafe == ASSUME IInv, NEW t \in Tasks, Committed(t) PROVE IInv'
<1>1. Types /\ CreatesOnce(chain) /\ inbox \in Seq(Messages) /\ Len(inbox) \in Nat
  BY LenProperties DEF IInv, Types, CreateInv
<1>2. /\ drive.pc = "committing" /\ t \in drive.group /\ InFlight(t)
      /\ UNCHANGED <<inbox, flushed, now, calls, mishaps>>
  BY DEF Committed, InFlight
<1>3. /\ chain # <<>> /\ Head(chain) = Driving
      /\ drive.todo \cap drive.group = {}
      /\ \A u \in drive.todo \cup drive.group : IsActive(u)
  BY <1>2 DEF IInv, DriveInv
<1>4. /\ inbox # <<>> /\ flushed = Len(inbox) /\ row[t].due <= drive.at
      /\ <<t, Occurrence(t, drive.at)>> \in inbox[Len(inbox)]
  BY <1>2 DEF IInv, FlightInv
<1>5. /\ row[t] \in Rows /\ row[t] \notin {Absent, Deleted} /\ row[t].due \in Times
      /\ row[t].receipts \subseteq Receipts /\ drive.at \in 0 .. MaxTime
  BY <1>1, <1>2, <1>3, RowTypes, DriveParts DEF Types, IsActive
<1> PICK at : at = Occurrence(t, drive.at)  OBVIOUS
<1> PICK next : next = NextDue(t, at)  OBVIOUS
<1>6. /\ at \in Times /\ at >= row[t].due /\ at <= drive.at /\ next \in Times
      /\ t \in Recurring => next > at
  BY <1>4, <1>5, OccurrenceBounds
<1> PICK receipts : receipts = row[t].receipts \cup {[at |-> at, message |-> Len(inbox)]}
  OBVIOUS
<1> PICK written : written = [status |-> IF t \in OneShot THEN "inactive" ELSE "active",
                              due |-> next, receipts |-> receipts]
  OBVIOUS
<1>7. row' = [row EXCEPT ![t] = written]
  BY DEF Committed
<1>8. receipts \subseteq Receipts
  <2>1. [at |-> at, message |-> Len(inbox)] \in Receipts  BY <1>1, <1>6 DEF Receipts
  <2> QED  BY <1>5, <2>1
<1>9. /\ written \in Rows /\ written \notin {Absent, Deleted}
      /\ written.status = (IF t \in OneShot THEN "inactive" ELSE "active")
      /\ written.due = next /\ written.receipts = receipts
  BY <1>6, <1>8, NewRows
<1>10. /\ row' \in [Tasks -> Rows] /\ row'[t] = written
       /\ \A u \in Tasks : u # t => row'[u] = row[u]
  BY <1>1, <1>7, <1>9 DEF Types
<1>11. /\ chain' \in Seq(Ops) /\ CreatesOnce(chain')
       /\ \A u : Creating(chain', u) => Creating(chain, u)
       /\ drive' \in Drives /\ DriveInv'
       /\ requested' \in BOOLEAN /\ stopping' \in BOOLEAN
       /\ running' \in Runnings /\ timer' \in Times \cup {NoTimer}
       /\ \/ drive'.pc \in {"none", "resolving"} /\ drive.group = {t}
          \/ /\ drive'.pc = "committing" /\ drive'.at = drive.at
             /\ drive'.group = drive.group \ {t}
  <2>1. CASE drive.group = {t}
    <3> PICK todo \in SUBSET Tasks : todo = drive.todo  BY <1>1, DriveParts
    <3> PICK failed \in SUBSET Tasks : failed = drive.failed  BY <1>1, DriveParts
    <3>1. Proceed(todo, failed)  BY <2>1 DEF Committed
    <3>2. \A u \in todo : row'[u].status = "active"  BY <1>2, <1>3, <1>10 DEF IsActive
    <3>3. /\ chain' \in Seq(Ops) /\ CreatesOnce(chain')
          /\ \A u : Creating(chain', u) => Creating(chain, u)
          /\ drive' \in Drives /\ drive'.pc \in {"none", "resolving"} /\ DriveInv'
          /\ requested' = requested /\ stopping' = stopping
          /\ running' \in Runnings /\ timer' \in Times \cup {NoTimer}
      BY <1>1, <1>3, <1>10, <3>1, <3>2, ProceedStep
    <3> QED  BY <1>1, <2>1, <3>3 DEF Types
  <2>2. CASE drive.group # {t}
    <3>1. drive' = [drive EXCEPT !.group = drive.group \ {t}]
          /\ UNCHANGED <<chain, requested, running, timer, stopping>>
      BY <2>2 DEF Committed, runtime
    <3>2. /\ drive'.pc = "committing" /\ drive'.at = drive.at /\ drive'.todo = drive.todo
          /\ drive'.group = drive.group \ {t} /\ drive' \in Drives
      BY <1>1, <1>2, <3>1 DEF Types, Drives
    <3>3. drive'.todo \cap drive'.group = {}  BY <1>3, <3>2
    <3>4. \A u \in drive'.todo \cup drive'.group : row'[u].status = "active"
      <4> SUFFICES ASSUME NEW u \in drive'.todo \cup drive'.group
                   PROVE  row'[u].status = "active"
        OBVIOUS
      <4>1. u \in Tasks  BY <1>1, <3>2, DriveParts
      <4>2. u # t /\ u \in drive.todo \cup drive.group  BY <1>2, <1>3, <3>2
      <4> QED  BY <1>3, <1>10, <4>1, <4>2 DEF IsActive
    <3>5. DriveInv'  BY <1>3, <3>1, <3>3, <3>4 DEF DriveInv, IsActive
    <3> QED  BY <1>1, <3>1, <3>2, <3>5 DEF Types
  <2> QED  BY <2>1, <2>2
<1>12. Types'  BY <1>1, <1>2, <1>10, <1>11 DEF Types
<1>13. CreateInv'
  <2>1. row[t] # Absent  BY <1>5
  <2> QED  BY <1>10, <1>11, <2>1 DEF IInv, CreateInv
<1>14. ASSUME NEW u \in Tasks, InFlight(u)'
       PROVE  /\ u # t /\ InFlight(u) /\ drive'.at = drive.at /\ row'[u] = row[u]
              /\ Occurrence(u, drive.at)' = Occurrence(u, drive.at)
  <2>1. u # t /\ InFlight(u) /\ drive'.at = drive.at  BY <1>2, <1>11, <1>14 DEF InFlight
  <2> QED  BY <1>10, <2>1 DEF Occurrence
<1>15. FlightInv'
  <2>1. drive'.pc # "flushing"  BY <1>11
  <2>2. inbox' # <<>> /\ flushed' = Len(inbox')  BY <1>2, <1>4
  <2>3. ASSUME NEW u \in Tasks, InFlight(u)'
        PROVE  row'[u].due <= drive'.at
               /\ <<u, Occurrence(u, drive.at)'>> \in inbox'[Len(inbox')]
    BY <1>2, <1>14, <2>3 DEF IInv, FlightInv
  <2> QED  BY <2>1, <2>2, <2>3 DEF FlightInv
<1>16. ReceiptsInv'
  <2>1. ASSUME NEW u \in Tasks, u # t PROVE row'[u] = row[u]  BY <1>10, <2>1
  <2>2. ASSUME NEW r \in receipts
        PROVE  r.message \in 1 .. flushed /\ <<t, r.at>> \in inbox[r.message]
    <3>1. CASE r \in row[t].receipts  BY <1>5, <3>1 DEF IInv, ReceiptsInv
    <3>2. CASE r = [at |-> at, message |-> Len(inbox)]
      <4>1. Len(inbox) \in 1 .. flushed  BY <1>1, <1>4, EmptySeq
      <4> QED  BY <1>4, <3>2, <4>1
    <3> QED  BY <3>1, <3>2
  <2>3. receipts # {}  OBVIOUS
  <2> QED  BY <1>2, <1>9, <1>10, <2>1, <2>2, <2>3 DEF IInv, ReceiptsInv
<1>17. Counted'
  <2> SUFFICES ASSUME NEW u \in Tasks, NEW o \in Times
               PROVE  /\ Tells(inbox', <<u, o>>) <= 1 + mishaps'
                      /\ now' < o => Tells(inbox', <<u, o>>) <= mishaps'
                      /\ IsActive(u)' /\ row'[u].due <= o
                         /\ ~(InFlight(u)' /\ Occurrence(u, drive.at)' = o)
                           => Tells(inbox', <<u, o>>) <= mishaps'
                      /\ row'[u] = Absent => Tells(inbox', <<u, o>>) = 0
    BY DEF Counted
  <2> PICK n : n = Tells(inbox, <<u, o>>)  OBVIOUS
  <2>1. /\ n <= 1 + mishaps
        /\ now < o => n <= mishaps
        /\ IsActive(u) /\ row[u].due <= o /\ ~(InFlight(u) /\ Occurrence(u, drive.at) = o)
             => n <= mishaps
        /\ row[u] = Absent => n = 0
    BY DEF IInv, Counted
  <2>2. Tells(inbox', <<u, o>>) = n /\ mishaps' = mishaps /\ now' = now  BY <1>2
  <2>3. CASE u = t
    <3>1. ASSUME IsActive(t)', row'[t].due <= o PROVE n <= mishaps
      <4>1. t \notin OneShot /\ t \in Recurring
        BY <1>9, <1>10, <3>1 DEF IsActive, Tasks
      <4>2. o > at /\ row[t].due <= o
        BY <1>5, <1>6, <1>9, <1>10, <3>1, <4>1, TimesAreNumbers
      <4>3. at # o /\ IsActive(t)  BY <1>2, <1>3, <1>6, <4>2, TimesAreNumbers
      <4> QED  BY <2>1, <2>3, <4>2, <4>3
    <3> QED  BY <1>9, <1>10, <2>1, <2>2, <2>3, <3>1
  <2>4. CASE u # t
    <3>1. row'[u] = row[u]  BY <1>10, <2>4
    <3>2. InFlight(u) => InFlight(u)' /\ drive'.at = drive.at
      BY <1>11, <2>4 DEF InFlight
    <3>3. InFlight(u) => InFlight(u)' /\ Occurrence(u, drive.at)' = Occurrence(u, drive.at)
      BY <3>1, <3>2 DEF Occurrence
    <3>4. IsActive(u)' <=> IsActive(u)  BY <3>1 DEF IsActive
    <3> QED  BY <2>1, <2>2, <3>1, <3>3, <3>4
  <2> QED  BY <2>3, <2>4
<1> QED  BY <1>11, <1>12, <1>13, <1>15, <1>16, <1>17 DEF IInv

\* What a management call may do to the row of a task.
Rewrites(t, op) ==
  \/ row'[t] = row[t]
  \/ /\ op.kind = "create" /\ t = op.task
     /\ row'[t].status = "active" /\ row'[t].receipts = {}
     /\ row'[t] \notin {Absent, Deleted}
  \/ /\ IsActive(t)
     /\ row'[t].status = "active" /\ row'[t].due = now + 1
     /\ row'[t].receipts = row[t].receipts
  \/ row'[t] = Deleted /\ row[t] # Absent

LEMMA WrittenRows ==
  ASSUME Types, NEW op \in Ops, NEW w \in Written(op)
  PROVE  \E t \in Tasks, r \in Rows :
           /\ w = <<t, r>>
           /\ \/ /\ op.kind = "create" /\ t = op.task
                 /\ r.status = "active" /\ r.receipts = {} /\ r \notin {Absent, Deleted}
              \/ /\ IsActive(t)
                 /\ r.status = "active" /\ r.due = now + 1 /\ r.receipts = row[t].receipts
              \/ r = Deleted /\ row[t] # Absent
<1>1. now + 1 \in Times  BY TimesAreNumbers DEF Types
<1>2. CASE op.kind = "create"
  <2>1. op.task \in Tasks /\ op.due \in Times  BY <1>2 DEF Ops, Driving
  <2> PICK r : r = [status |-> "active", due |-> op.due, receipts |-> {}]  OBVIOUS
  <2>2. r \in Rows /\ r \notin {Absent, Deleted}  BY <2>1, NewRows
  <2>3. w = <<op.task, r>>  BY <1>2 DEF Written
  <2> QED  BY <1>2, <2>1, <2>2, <2>3
<1>3. CASE op.kind = "update" /\ IsActive(op.task) /\ row[op.task].due = op.seen
  <2>1. op.task \in Tasks  BY <1>3 DEF Ops, Driving
  <2>2. row[op.task] \in Rows  BY <2>1 DEF Types
  <2> PICK rs : rs = row[op.task].receipts  OBVIOUS
  <2>3. /\ rs \in SUBSET Receipts
        /\ row[op.task] = [status |-> "active", due |-> row[op.task].due, receipts |-> rs]
    BY <1>3, <2>2, RowTypes DEF IsActive
  <2> PICK r : r = [status |-> "active", due |-> now + 1, receipts |-> rs]  OBVIOUS
  <2>4. r \in Rows  BY <1>1, <2>3, NewRows
  <2>5. [row[op.task] EXCEPT !.due = now + 1] = r  BY <2>3
  <2>6. w = <<op.task, r>>  BY <1>3, <2>5 DEF Written
  <2> QED  BY <1>3, <2>1, <2>4, <2>6
<1>4. CASE op.kind = "delete" /\ row[op.task] \notin {Absent, Deleted}
  <2>1. op.task \in Tasks  BY <1>4 DEF Ops, Driving
  <2>2. w = <<op.task, Deleted>>  BY <1>4 DEF Written
  <2> QED  BY <1>4, <2>1, <2>2 DEF Rows
<1>5. CASE op.kind = "stop"
  <2> PICK t \in Tasks : IsActive(t) /\ w = <<t, Deleted>>  BY <1>5 DEF Written
  <2>1. row[t] # Absent  BY DEF IsActive, Absent
  <2> QED  BY <2>1 DEF Rows
<1> QED  BY <1>2, <1>3, <1>4, <1>5 DEF Written

LEMMA OperatedRows ==
  ASSUME Types, NEW op \in Ops, NEW done \in SUBSET Written(op),
         row' = [t \in Tasks |-> IF \E w \in done : w[1] = t
                                 THEN (CHOOSE w \in done : w[1] = t)[2] ELSE row[t]]
  PROVE  row' \in [Tasks -> Rows] /\ \A t \in Tasks : Rewrites(t, op)
<1>1. ASSUME NEW t \in Tasks PROVE row'[t] \in Rows /\ Rewrites(t, op)
  <2>1. CASE ~\E w \in done : w[1] = t
    <3>1. row'[t] = row[t]  BY <2>1
    <3> QED  BY <3>1 DEF Types, Rewrites
  <2>2. CASE \E w \in done : w[1] = t
    <3> PICK w : w = CHOOSE v \in done : v[1] = t  OBVIOUS
    <3>1. w \in done /\ w[1] = t /\ row'[t] = w[2]  BY <2>2
    <3>2. w \in Written(op)  BY <3>1
    <3> PICK u \in Tasks, r \in Rows :
           /\ w = <<u, r>>
           /\ \/ /\ op.kind = "create" /\ u = op.task
                 /\ r.status = "active" /\ r.receipts = {} /\ r \notin {Absent, Deleted}
              \/ /\ IsActive(u)
                 /\ r.status = "active" /\ r.due = now + 1 /\ r.receipts = row[u].receipts
              \/ r = Deleted /\ row[u] # Absent
      BY <3>2, WrittenRows
    <3>3. u = t /\ row'[t] = r  BY <3>1
    <3> QED  BY <3>3 DEF Rewrites
  <2> QED  BY <2>1, <2>2
<1> PICK f : f = row'  OBVIOUS
<1>2. f \in [Tasks -> Rows]
  <2>1. f = [t \in Tasks |-> f[t]]  OBVIOUS
  <2>2. \A t \in Tasks : f[t] \in Rows  BY <1>1
  <2> QED  BY <2>1, <2>2
<1> QED  BY <1>1, <1>2

LEMMA OperateSafe == ASSUME IInv, Operate PROVE IInv'
<1>1. Types /\ CreatesOnce(chain) /\ chain \in Seq(Ops) /\ inbox \in Seq(Messages)
  BY DEF IInv, Types, CreateInv
<1>2. chain # <<>> /\ Head(chain) # Driving /\ UNCHANGED <<inbox, flushed, now, drive, calls>>
  BY DEF Operate
<1> PICK op : op = Head(chain)  OBVIOUS
<1> PICK rest : rest = Tail(chain)  OBVIOUS
<1>3. /\ op \in Ops /\ rest \in Seq(Ops) /\ CreatesOnce(rest)
      /\ \A t : Creating(rest, t) => Creating(chain, t)
      /\ op.kind = "create" => Creating(chain, op.task) /\ ~Creating(rest, op.task)
  BY <1>1, <1>2, TailChain
<1> PICK done \in SUBSET Written(op) :
       /\ IF done = Written(op) THEN UNCHANGED mishaps ELSE Mishap
       /\ row' = [t \in Tasks |-> IF \E w \in done : w[1] = t
                                  THEN (CHOOSE w \in done : w[1] = t)[2] ELSE row[t]]
       /\ IF done = {} THEN chain' = rest /\ UNCHANGED runtime
          ELSE RequestDrive(rest)
  BY DEF Operate
<1>4. row' \in [Tasks -> Rows] /\ \A t \in Tasks : Rewrites(t, op)
  BY <1>1, <1>3, OperatedRows
<1>5. mishaps' \in 0 .. MaxMishaps /\ mishaps' >= mishaps
  BY <1>1, ScheduleConstants DEF Mishap, Types
<1>6. /\ chain' = rest \/ chain' = Append(rest, Driving)
      /\ requested' \in BOOLEAN /\ stopping' \in BOOLEAN
      /\ running' \in Runnings /\ timer' \in Times \cup {NoTimer}
  <2>1. CASE done = {}  BY <1>1, <2>1 DEF runtime, Types
  <2>2. CASE done # {}  BY <1>1, <1>3, <2>2, RequestStep DEF Types
  <2> QED  BY <2>1, <2>2
<1>7. /\ chain' \in Seq(Ops) /\ CreatesOnce(chain')
      /\ \A t : Creating(chain', t) => Creating(rest, t)
  <2>1. /\ Append(rest, Driving) \in Seq(Ops) /\ CreatesOnce(Append(rest, Driving))
        /\ \A t : Creating(Append(rest, Driving), t) => Creating(rest, t)
    BY <1>3, DrivingOp, LongerChain
  <2> QED  BY <1>3, <1>6, <2>1
<1>8. Types'  BY <1>1, <1>2, <1>4, <1>5, <1>6, <1>7 DEF Types
<1>9. drive.pc = "none" /\ drive'.pc = "none"  BY <1>2 DEF IInv, DriveInv
<1>10. DriveInv' /\ FlightInv'  BY <1>9, GroundedFlight DEF DriveInv
<1>11. CreateInv'
  <2>1. ASSUME NEW t \in Tasks, Creating(chain', t) PROVE row'[t] = Absent
    <3>1. Creating(chain, t) /\ ~(op.kind = "create" /\ t = op.task)  BY <1>3, <1>7, <2>1
    <3>2. row[t] = Absent  BY <3>1 DEF IInv, CreateInv
    <3>3. ~IsActive(t)  BY <3>2 DEF IsActive, Absent
    <3> QED  BY <1>4, <3>1, <3>2, <3>3 DEF Rewrites
  <2> QED  BY <1>7, <2>1 DEF CreateInv
<1>12. ReceiptsInv'
  <2> SUFFICES ASSUME NEW t \in Tasks, row'[t] \notin {Absent, Deleted}
               PROVE  /\ \A r \in row'[t].receipts :
                           r.message \in 1 .. flushed /\ <<t, r.at>> \in inbox[r.message]
                      /\ row'[t].status = "inactive" => row'[t].receipts # {}
    BY <1>2 DEF ReceiptsInv
  <2>1. CASE row'[t] = row[t]  BY <2>1 DEF IInv, ReceiptsInv
  <2>2. CASE row'[t].status = "active" /\ row'[t].receipts = {}  BY <2>2
  <2>3. CASE IsActive(t) /\ row'[t].status = "active" /\ row'[t].receipts = row[t].receipts
    <3>1. row[t] \notin {Absent, Deleted}  BY <2>3 DEF IsActive, Absent, Deleted
    <3> QED  BY <2>3, <3>1 DEF IInv, ReceiptsInv
  <2> QED  BY <1>4, <2>1, <2>2, <2>3 DEF Rewrites
<1>13. Counted'
  <2> SUFFICES ASSUME NEW t \in Tasks, NEW at \in Times
               PROVE  /\ Tells(inbox', <<t, at>>) <= 1 + mishaps'
                      /\ now' < at => Tells(inbox', <<t, at>>) <= mishaps'
                      /\ IsActive(t)' /\ row'[t].due <= at
                         /\ ~(InFlight(t)' /\ Occurrence(t, drive.at)' = at)
                           => Tells(inbox', <<t, at>>) <= mishaps'
                      /\ row'[t] = Absent => Tells(inbox', <<t, at>>) = 0
    BY DEF Counted
  <2> PICK n \in Nat : n = Tells(inbox, <<t, at>>)  BY <1>1, TellsType
  <2>1. /\ n <= 1 + mishaps
        /\ now < at => n <= mishaps
        /\ IsActive(t) /\ row[t].due <= at => n <= mishaps
        /\ row[t] = Absent => n = 0
    BY <1>9 DEF IInv, Counted, InFlight
  <2>2. Tells(inbox', <<t, at>>) = n /\ now' = now  BY <1>2
  <2>3. mishaps \in Nat /\ mishaps' \in Nat /\ mishaps' >= mishaps
        /\ now \in Nat /\ at \in Nat
    BY <1>1, <1>5, <1>8, TimesAreNumbers DEF Types
  <2>4. n <= 1 + mishaps' /\ (now < at => n <= mishaps')  BY <2>1, <2>3
  <2>5. ASSUME IsActive(t)', row'[t].due <= at PROVE n <= mishaps'
    <3>1. CASE row'[t] = row[t]  BY <2>1, <2>3, <2>5, <3>1 DEF IsActive
    <3>2. CASE op.kind = "create" /\ t = op.task
      <4>1. row[t] = Absent  BY <1>3, <3>2 DEF IInv, CreateInv
      <4> QED  BY <2>1, <2>3, <4>1
    <3>3. CASE row'[t].due = now + 1
      <4>1. now < at  BY <2>3, <2>5, <3>3
      <4> QED  BY <2>4, <4>1
    <3>4. row'[t] # Deleted  BY <2>5 DEF IsActive, Deleted
    <3> QED  BY <1>4, <3>1, <3>2, <3>3, <3>4 DEF Rewrites
  <2>6. ASSUME row'[t] = Absent PROVE n = 0
    <3>1. row'[t].status # "active" /\ row'[t] # Deleted  BY <2>6 DEF Absent, Deleted
    <3>2. row'[t] = row[t]  BY <1>4, <3>1 DEF Rewrites
    <3> QED  BY <2>1, <2>6, <3>2
  <2> QED  BY <2>2, <2>4, <2>5, <2>6
<1> QED  BY <1>8, <1>10, <1>11, <1>12, <1>13 DEF IInv

\* A new process: the chain is new, of the messages a prefix is left.
LEMMA StartsSafe == ASSUME IInv, ClosedInv, Crash \/ Reopen PROVE IInv'
<1>1. Types /\ inbox \in Seq(Messages) /\ Len(inbox) \in Nat  BY LenProperties DEF IInv, Types
<1> PICK n \in flushed .. Len(inbox) : inbox' = SubSeq(inbox, 1, n) /\ flushed' = n
  BY DEF Crash, Reopen, Starts
<1>2. n \in 0 .. Len(inbox) /\ flushed <= n  BY <1>1 DEF Types
<1>3. /\ inbox' \in Seq(Messages) /\ Len(inbox') = n
      /\ \A i \in 1 .. n : inbox'[i] = inbox[i]
      /\ \A o : Tells(inbox', o) <= Tells(inbox, o)
  BY <1>1, <1>2, Prefix
<1>4. /\ chain' = <<Driving>> /\ drive' = Idle
      /\ requested' = FALSE /\ running' = "queued" /\ timer' = NoTimer /\ stopping' = FALSE
      /\ UNCHANGED <<row, now, calls>>
  BY DEF Crash, Reopen, Starts
<1>5. mishaps' \in 0 .. MaxMishaps
  BY <1>1, ScheduleConstants DEF Crash, Reopen, Mishap, Types
<1>6. Types'
  <2>1. chain' \in Seq(Ops)  BY <1>4, DrivingOp
  <2>2. drive' \in Drives  BY <1>4, IdleDrive
  <2>3. flushed' \in 0 .. Len(inbox')  BY <1>2, <1>3
  <2> QED  BY <1>1, <1>3, <1>4, <1>5, <2>1, <2>2, <2>3 DEF Types, Runnings
<1>7. CreateInv'
  <2>1. Len(chain') = 1 /\ chain'[1] = Driving  BY <1>4
  <2>2. \A i \in 1 .. Len(chain') : chain'[i].kind # "create"  BY <2>1, DrivingOp
  <2> QED  BY <2>2 DEF CreateInv, CreatesOnce, Creating
<1>8. drive'.pc = "none"  BY <1>4, IdleDrive
<1>9. DriveInv' /\ FlightInv'  BY <1>8, GroundedFlight DEF DriveInv
<1>10. ReceiptsInv'
  <2>1. \A i \in 1 .. flushed : i \in 1 .. flushed' /\ inbox'[i] = inbox[i]
    BY <1>1, <1>2, <1>3 DEF Types
  <2> QED  BY <1>4, <2>1 DEF IInv, ReceiptsInv
<1>11. Counted'
  <2>1. CASE Crash
    <3>1. mishaps' = mishaps + 1  BY <2>1 DEF Crash, Mishap
    <3> QED  BY <1>1, <1>3, <1>4, <3>1, PaidCount DEF IInv
  <2>2. CASE Reopen
    <3> SUFFICES ASSUME NEW t \in Tasks, NEW at \in Times
                 PROVE  /\ Tells(inbox', <<t, at>>) <= 1 + mishaps'
                        /\ now' < at => Tells(inbox', <<t, at>>) <= mishaps'
                        /\ IsActive(t)' /\ row'[t].due <= at
                           /\ ~(InFlight(t)' /\ Occurrence(t, drive.at)' = at)
                             => Tells(inbox', <<t, at>>) <= mishaps'
                        /\ row'[t] = Absent => Tells(inbox', <<t, at>>) = 0
      BY DEF Counted
    <3>1. UNCHANGED <<mishaps, row, now>>  BY <1>4, <2>2 DEF Reopen
    <3>2. drive.pc = "none"
      <4>1. running = "closed"  BY <2>2 DEF Reopen
      <4> QED  BY <4>1 DEF ClosedInv, IInv, DriveInv
    <3> PICK k \in Nat : k = Tells(inbox, <<t, at>>)  BY <1>1, TellsType
    <3> PICK l \in Nat : l = Tells(inbox', <<t, at>>)  BY <1>3, TellsType
    <3>3. l <= k /\ mishaps \in Nat  BY <1>1, <1>3 DEF Types
    <3>4. /\ k <= 1 + mishaps
          /\ now < at => k <= mishaps
          /\ IsActive(t) /\ row[t].due <= at => k <= mishaps
          /\ row[t] = Absent => k = 0
      BY <3>2 DEF IInv, Counted, InFlight
    <3>5. IsActive(t)' <=> IsActive(t)  BY <3>1 DEF IsActive
    <3> QED  BY <3>1, <3>3, <3>4, <3>5
  <2> QED  BY <2>1, <2>2
<1> QED  BY <1>6, <1>7, <1>9, <1>10, <1>11 DEF IInv

LEMMA StepSafe == ASSUME IInv, ClosedInv, [Next]_vars PROVE IInv'
<1>1. CASE TimerFires \/ LoopContinues \/ Retire \/ Tick \/ ClockSetBack \/ Dispose \/ Closes
  BY <1>1, TimerStep
<1>2. CASE DriveStarts  BY <1>2, DriveStartsSafe
<1>3. CASE ResolveFails \/ FlushFails \/ CommitFails
  <2>1. drive.pc # "none" /\ GivesUp(drive.group)
    BY <1>3 DEF ResolveFails, FlushFails, CommitFails
  <2> QED  BY <2>1, GivesUpSafe
<1>4. CASE Resolved  BY <1>4, ResolvedSafe
<1>5. CASE Flushed  BY <1>5, FlushedSafe
<1>6. CASE \E t \in Tasks : Committed(t)  BY <1>6, CommittedSafe
<1>7. CASE Call  BY <1>7, CallStep
<1>8. CASE Operate  BY <1>8, OperateSafe
<1>9. CASE Crash \/ Reopen  BY <1>9, StartsSafe
<1>10. CASE UNCHANGED vars
  <2>1. UNCHANGED <<row, inbox, flushed, now, chain, drive, requested, running, timer,
                    stopping, calls, mishaps>>
    BY <1>10 DEF vars, runtime
  <2>2. Types'  BY <2>1 DEF IInv, Types
  <2>3. now' >= now  BY <2>1, TimesAreNumbers DEF IInv, Types
  <2> QED  BY <2>1, <2>2, <2>3, KeptStep
<1> QED  BY <1>1, <1>2, <1>3, <1>4, <1>5, <1>6, <1>7, <1>8, <1>9, <1>10 DEF Next

LEMMA ClosedStep == ASSUME IInv, ClosedInv, [Next]_vars PROVE ClosedInv'
<1> SUFFICES ASSUME running' = "closed" PROVE stopping' /\ chain' = <<>>  BY DEF ClosedInv
<1>1. drive.pc # "none" => chain # <<>>  BY DEF IInv, DriveInv
<1>2. CASE running # "closed"
  <2>1. running' # running  BY <1>2
  <2>2. \A todo, failed : ~Proceed(todo, failed)  BY <2>1 DEF Proceed, DriveReturns
  <2>3. \A rest : ~RequestDrive(rest)  BY <2>1 DEF RequestDrive, runtime
  <2>4. ~GivesUp(drive.group)  BY <2>2 DEF GivesUp
  <2>5. ~DriveStarts /\ ~ResolveFails /\ ~FlushFails /\ ~CommitFails
    BY <2>2, <2>4 DEF DriveStarts, ResolveFails, FlushFails, CommitFails
  <2>6. ~Resolved  BY <2>1, <2>2 DEF Resolved, DriveReturns, runtime
  <2>7. \A t \in Tasks : ~Committed(t)  BY <2>1, <2>2 DEF Committed, runtime
  <2>8. ~TimerFires /\ ~Operate  BY <2>1, <2>3 DEF TimerFires, Operate, runtime
  <2>9. ~LoopContinues /\ ~Retire /\ ~Flushed /\ ~Call
    BY <2>1 DEF LoopContinues, Retire, Flushed, Call, runtime
  <2>10. ~Tick /\ ~ClockSetBack /\ ~Dispose /\ ~UNCHANGED vars
    BY <2>1 DEF Tick, ClockSetBack, Dispose, runtime, vars
  <2>11. ~Crash /\ ~Reopen  BY DEF Crash, Reopen, Starts
  <2>12. Closes
    BY <2>5, <2>6, <2>7, <2>8, <2>9, <2>10, <2>11 DEF Next
  <2> QED  BY <2>12 DEF Closes
<1>3. CASE running = "closed"
  <2>1. stopping /\ chain = <<>> /\ drive.pc = "none"  BY <1>1, <1>3 DEF ClosedInv
  <2>2. ~DriveStarts /\ ~ResolveFails /\ ~Resolved /\ ~Flushed /\ ~FlushFails
        /\ ~CommitFails /\ ~Operate /\ ~Call
    BY <2>1 DEF DriveStarts, ResolveFails, Resolved, Flushed, FlushFails, CommitFails,
                Operate, Call
  <2>3. \A t \in Tasks : ~Committed(t)  BY <2>1 DEF Committed
  <2>4. ~LoopContinues /\ ~Retire /\ ~Dispose /\ ~Closes /\ ~Crash /\ ~Reopen
    BY <1>3, <2>1 DEF LoopContinues, Retire, Dispose, Closes, Crash, Reopen, Starts
  <2>5. CASE TimerFires  BY <2>1, <2>5 DEF TimerFires, RequestDrive, runtime
  <2>6. CASE Tick \/ ClockSetBack  BY <2>1, <2>6 DEF Tick, ClockSetBack, runtime
  <2>7. CASE UNCHANGED vars  BY <2>1, <2>7 DEF vars, runtime
  <2> QED  BY <2>2, <2>3, <2>4, <2>5, <2>6, <2>7 DEF Next
<1> QED  BY <1>2, <1>3

LEMMA ScheduleInvariant == Spec => [](IInv /\ ClosedInv)
<1>1. Init => ClosedInv  BY DEF Init, ClosedInv
<1> QED  BY <1>1, InitSafe, StepSafe, ClosedStep, PTL DEF Spec

-----------------------------------------------------------------------------
(***************************************************************************)
(* The theorems.                                                           *)
(***************************************************************************)

\* What a reminder's row says of its deliveries is durable in the Session: each
\* receipt names a flushed message that tells the occurrence, and a one-shot task
\* has ended only with one.
THEOREM ScheduleCorrect == Spec => []ScheduleInv
<1>1. ASSUME IInv PROVE ScheduleInv
  <2>1. Types  BY <1>1 DEF IInv
  <2>2. \A t \in Tasks : row[t] \in Rows  BY <2>1 DEF Types
  <2>3. TypeOK
    <3>1. ASSUME NEW t \in Tasks
          PROVE  row[t] \in {Absent, Deleted}
                 \/ /\ row[t].status \in {"active", "inactive"} /\ row[t].due \in Times
                    /\ \A r \in row[t].receipts : r \in Receipts
      BY <2>2, RowTypes
    <3> QED  BY <2>1, <3>1, DriveParts DEF TypeOK, Types, Runnings, Messages
  <2>4. ASSUME NEW t \in Tasks, row[t] \notin {Absent, Deleted}
        PROVE  /\ \A r \in row[t].receipts : r.message <= flushed /\ <<t, r.at>> \in inbox[r.message]
               /\ row[t].status = "inactive" => row[t].receipts # {}
    <3>1. flushed \in Nat  BY <2>1, LenProperties DEF Types
    <3> QED  BY <1>1, <2>4, <3>1 DEF IInv, ReceiptsInv
  <2> QED  BY <2>3, <2>4 DEF ScheduleInv, DeliveriesDurable
<1> QED  BY <1>1, ScheduleInvariant, PTL

\* An occurrence is told at most once more than there were failures, crashes,
\* rollbacks and closings, in whatever order calls, drives and restarts come.
THEOREM OncePerMishapCorrect == Spec => []OncePerMishap
<1>1. ASSUME IInv PROVE OncePerMishap
  <2>1. DOMAIN inbox = 1 .. Len(inbox)  BY <1>1, LenProperties DEF IInv, Types
  <2>2. \A o : {i \in DOMAIN inbox : o \in inbox[i]} = Tellers(inbox, o)
    BY <2>1 DEF Tellers
  <2> QED  BY <1>1, <2>2 DEF OncePerMishap, IInv, Counted, Tells
<1> QED  BY <1>1, ScheduleInvariant, PTL

\* A step that makes the inbox longer queues reminders of stored, active tasks
\* that are due by the clock of that step, before disposal: what the scan saw
\* some awaits earlier does not matter.
THEOREM RemindersCorrect == Spec => RemindersHonest
<1>1. ASSUME IInv, [Next]_vars, Len(inbox') > Len(inbox)
      PROVE  ~stopping /\ \A o \in inbox'[Len(inbox')] : Due(o[1]) /\ o[2] <= now
  <2>1. Types /\ inbox \in Seq(Messages) /\ Len(inbox) \in Nat
    BY <1>1, LenProperties DEF IInv, Types
  <2>2. inbox' # inbox  BY <1>1, <2>1
  <2>3. ~Crash /\ ~Reopen
    <3>1. ASSUME NEW n \in flushed .. Len(inbox), inbox' = SubSeq(inbox, 1, n) PROVE FALSE
      <4>1. n \in 0 .. Len(inbox)  BY <2>1 DEF Types
      <4>2. Len(inbox') = n  BY <2>1, <3>1, <4>1, Prefix
      <4> QED  BY <1>1, <2>1, <4>1, <4>2
    <3> QED  BY <3>1 DEF Crash, Reopen, Starts
  <2>4. ~TimerFires /\ ~LoopContinues /\ ~Retire /\ ~DriveStarts /\ ~Flushed /\ ~Call
    BY <2>2 DEF TimerFires, LoopContinues, Retire, DriveStarts, Flushed, Call
  <2>5. ~ResolveFails /\ ~FlushFails /\ ~CommitFails
    BY <2>2 DEF ResolveFails, FlushFails, CommitFails, GivesUp
  <2>6. ~Operate /\ ~Tick /\ ~ClockSetBack /\ ~Dispose /\ ~Closes /\ ~UNCHANGED vars
    BY <2>2 DEF Operate, Tick, ClockSetBack, Dispose, Closes, vars
  <2>7. \A t \in Tasks : ~Committed(t)  BY <2>2 DEF Committed
  <2>8. Resolved  BY <1>1, <2>3, <2>4, <2>5, <2>6, <2>7 DEF Next
  <2> PICK admitted : admitted = Admitted(drive.group)  OBVIOUS
  <2> PICK m : m = {<<t, Occurrence(t, now)>> : t \in admitted}  OBVIOUS
  <2>9. drive.pc = "resolving" /\ ~stopping /\ inbox' = Append(inbox, m)
    BY <2>2, <2>8 DEF Resolved
  <2>10. ASSUME NEW t \in admitted
         PROVE  t \in Tasks /\ Due(t) /\ Occurrence(t, now) \in Times /\ Occurrence(t, now) <= now
    <3>1. t \in drive.group /\ row[t].due <= now  BY DEF Admitted
    <3>2. t \in Tasks /\ IsActive(t)  BY <1>1, <2>1, <2>9, <3>1, DriveParts DEF IInv, DriveInv
    <3>3. row[t] \in Rows /\ now \in 0 .. MaxTime  BY <2>1, <3>2 DEF Types
    <3>4. row[t].due \in Times  BY <3>2, <3>3, RowTypes DEF IsActive
    <3> QED  BY <3>1, <3>2, <3>3, <3>4, OccurrenceBounds DEF Due
  <2>11. m \in Messages
    <3>1. \A t \in admitted : <<t, Occurrence(t, now)>> \in Tasks \X Times  BY <2>10
    <3> QED  BY <3>1 DEF Messages
  <2>12. inbox'[Len(inbox')] = m  BY <2>1, <2>9, <2>11, AppendProperties
  <2>13. ASSUME NEW o \in m PROVE Due(o[1]) /\ o[2] <= now
    <3> PICK t \in admitted : o = <<t, Occurrence(t, now)>>  OBVIOUS
    <3> QED  BY <2>10
  <2> QED  BY <2>9, <2>12, <2>13
<1>2. ASSUME IInv, [Next]_vars
      PROVE  [Len(inbox') > Len(inbox) =>
                ~stopping /\ \A o \in inbox'[Len(inbox')] : Due(o[1]) /\ o[2] <= now]_vars
  BY <1>1, <1>2
<1> QED  BY <1>2, ScheduleInvariant, PTL DEF Spec, RemindersHonest
=============================================================================
