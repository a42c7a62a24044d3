--------------------------- MODULE SessionHandle ---------------------------
(***************************************************************************)
(* JsonlSessionHandle (packages/session/session-persistence-jsonl): the    *)
(* write handle of one stored session, from the storing of what its setup  *)
(* appended, through the draining of the events it publishes, to close().  *)
(* Writes may fail and are retried, the process may crash in the middle of *)
(* one, and the next process opens what is left of the artifact.           *)
(*                                                                         *)
(* An action is one synchronous stretch between two awaits.                *)
(***************************************************************************)
EXTENDS Naturals, SequencesExt

CONSTANTS
  Flushers,       \* callers of the session/flush checkpoint
  RecoversTail,   \* zstd: complete records of a torn frame can be recovered
  MaxEvents,      \* bound on the length of the session log
  MaxFaults,      \* bound on failed I/O operations
  MaxCrashes      \* bound on crashes

ASSUME SessionHandleConstants ==
  /\ RecoversTail \in BOOLEAN
  /\ MaxEvents \in Nat /\ MaxFaults \in Nat /\ MaxCrashes \in Nat

VARIABLES
  disk,         \* the artifact: its complete committed events
  tail,         \* complete events readable in its torn last frame
  torn,         \* it ends in torn bytes
  exists,       \* it has been published
  session,      \* the session in this process, from setup to publication
  log,          \* its events
  stored,       \* events stored before publication
  buffered,     \* routed live events waiting to be written
  timer,        \* batchTimer is armed
  paused,       \* drainPaused
  draining,     \* the drain in flight, until its promise is cleared
  chain,        \* operations on the handle's chain, the running one first
  step,         \* where the running operation is
  batch,        \* events the running operation writes
  cursor,       \* events the handle believes stored
  materialized, \* the handle knows of the artifact
  truncate,     \* torn bytes the handle has to cut off
  recovered,    \* events of the torn frame it has to write again
  lease,        \* the cross-process write lock
  closer,       \* close(): where it is, operations it awaits, a failed drain;
                \* history: the length of the log when it found the buffer empty
  flusher,      \* each checkpoint: where it is, and the events it must cover
  acked,        \* history: the longest log acknowledged, to late joiners or not
  faults, crashes

disks == <<disk, tail, torn, exists>>
sessions == <<session, log, stored>>
buffers == <<buffered, timer, paused, draining>>
running == <<chain, step, batch>>
state == <<cursor, materialized, truncate, recovered>>
callers == <<closer, flusher, acked>>
bounds == <<faults, crashes>>
vars == <<disks, sessions, buffers, running, state, lease, callers, bounds>>

Event == [seq : 1 .. MaxEvents, epoch : 0 .. MaxCrashes]
Ops == [kind : {"drain"}] \cup [kind : {"append"}, upto : 1 .. MaxEvents]
       \cup [kind : {"flush"}, by : Flushers]

TypeOK ==
  /\ \A events \in {disk, tail, log, buffered, batch, recovered, acked[TRUE], acked[FALSE]} :
       events \in Seq(Event)
  /\ {torn, exists, timer, paused, materialized, truncate} \subseteq BOOLEAN
  /\ session \in {"setup", "storing", "stored", "live", "failed", "crashed"}
  /\ stored \in 0 .. MaxEvents /\ cursor \in 0 .. MaxEvents
  /\ draining \in {"none", "queued", "written", "ended", "failed"}
  /\ chain \in Seq(Ops)
  /\ step \in {"waiting", "lease", "truncate", "rewrite", "write"}
  /\ lease \in {"none", "held", "released"}
  /\ closer \in [at : {"open", "draining", "drained", "waiting", "leaving", "releasing",
                       "closed"},
                 awaits : Nat, failed : BOOLEAN, covers : 0 .. MaxEvents]
  /\ flusher \in [Flushers -> [at : {"idle", "draining", "drained", "flushing"},
                               goal : 0 .. MaxEvents, late : BOOLEAN]]
  /\ faults \in 0 .. MaxFaults /\ crashes \in 0 .. MaxCrashes

Open == [at |-> "open", awaits |-> 0, failed |-> FALSE, covers |-> 0]
NoFlush == [at |-> "idle", goal |-> 0, late |-> FALSE]

\* A freshly created session: nothing of it exists on disk yet.
Init ==
  /\ disk = <<>> /\ tail = <<>> /\ torn = FALSE /\ exists = FALSE
  /\ session = "setup" /\ log = <<>> /\ stored = 0
  /\ buffered = <<>> /\ timer = FALSE /\ paused = FALSE /\ draining = "none"
  /\ chain = <<>> /\ step = "waiting" /\ batch = <<>>
  /\ closer = Open /\ flusher = [f \in Flushers |-> NoFlush]
  /\ cursor = 0 /\ materialized = FALSE /\ truncate = FALSE /\ recovered = <<>>
  /\ lease = "none"
  /\ acked = [late \in BOOLEAN |-> <<>>] /\ faults = 0 /\ crashes = 0

Alive == session # "crashed"

\* What a reader of the artifact is given.
Readable == disk \o tail

Stored(n) == SubSeq(log, 1, n)

(***************************************************************************)
(* Timers and I/O callbacks are macrotasks: they run when no continuation  *)
(* of a settled await is left to run.                                      *)
(***************************************************************************)
Macrotask ==
  /\ Alive
  /\ draining \in {"none", "queued"}
  /\ step = "waiting" => chain = <<>>
  /\ step = "lease" => lease = "none"
  /\ closer.at # "drained" /\ \A f \in Flushers : flusher[f].at # "drained"
  /\ closer.at \in {"waiting", "leaving"} => closer.awaits > 0
  /\ closer.at = "releasing" => lease = "held"

-----------------------------------------------------------------------------
(***************************************************************************)
(* Before publication the session's events are not routed: setup appends   *)
(* them to the log alone, and appendUnstoredSuffix() stores the suffix     *)
(* through the handle, on a resume once before setup and once behind it.   *)
(* Publication follows without looking again: that nothing is appended     *)
(* while the suffix is stored is assumed.                                  *)
(***************************************************************************)
NextEvent == [seq |-> Len(log) + 1, epoch |-> crashes]

SetupEvent ==
  /\ session \in {"setup", "stored"} /\ session' = "setup"
  /\ Len(log) < MaxEvents
  /\ log' = Append(log, NextEvent)
  /\ UNCHANGED <<disks, stored, buffers, running, state, lease, callers, bounds>>

StoreSuffix ==
  /\ session = "setup"
  /\ \/ /\ stored = Len(log)
        /\ session' = "stored" /\ UNCHANGED chain
     \/ /\ stored < Len(log) /\ closer.at # "open"
        /\ session' = "failed" /\ UNCHANGED chain
     \/ /\ stored < Len(log) /\ closer.at = "open"
        /\ session' = "storing"
        /\ chain' = Append(chain, [kind |-> "append", upto |-> Len(log)])
  /\ UNCHANGED <<disks, log, stored, buffers, step, batch, state, lease, callers, bounds>>

Publish ==
  /\ session = "stored" /\ closer.at = "open"
  /\ session' = "live"
  /\ UNCHANGED <<disks, log, stored, buffers, running, state, lease, callers, bounds>>

-----------------------------------------------------------------------------
(***************************************************************************)
(* enqueueLive(): a published event is buffered as long as the handle is   *)
(* registered; it arms the batching window unless a drain has failed.      *)
(***************************************************************************)
ArmsUnlessDraining == ~paused /\ draining = "none"   \* mutated form
Arms == ~paused

LiveEvent ==
  /\ session = "live" /\ closer.at # "closed"
  /\ Len(log) < MaxEvents
  /\ log' = Append(log, NextEvent)
  /\ buffered' = Append(buffered, NextEvent)
  /\ timer' = (timer \/ Arms)
  /\ UNCHANGED <<disks, session, stored, paused, draining, running, state, lease, callers,
                 bounds>>

(***************************************************************************)
(* drainLive(): concurrent callers join one drain, which writes until it   *)
(* finds the buffer empty.  Its promise is cleared one microtask after it  *)
(* has settled; until then it is still joined.                             *)
(***************************************************************************)
DrainLive(armed) ==
  \/ /\ draining # "none"
     /\ timer' = armed /\ UNCHANGED <<paused, draining, chain>>
  \/ /\ draining = "none"
     /\ timer' = FALSE /\ paused' = FALSE
     /\ \/ buffered = <<>> /\ draining' = "ended" /\ UNCHANGED chain
        \/ /\ buffered # <<>>
           /\ draining' = "queued"
           /\ chain' = Append(chain, [kind |-> "drain"])

TimerFires ==
  /\ Macrotask /\ timer
  /\ DrainLive(FALSE)
  /\ UNCHANGED <<disks, sessions, buffered, step, batch, state, lease, callers, bounds>>

LooksOnce == FALSE   \* mutated form
LooksAgain == buffered # <<>>

DrainContinues ==
  /\ Alive /\ draining = "written"
  /\ \/ /\ LooksAgain
        /\ draining' = "queued"
        /\ chain' = Append(chain, [kind |-> "drain"])
     \/ ~LooksAgain /\ draining' = "ended" /\ UNCHANGED chain
  /\ UNCHANGED <<disks, sessions, buffered, timer, paused, step, batch, state, lease, callers,
                 bounds>>

\* The promise is cleared; those who joined it go on, or are rejected.
DrainSettles ==
  /\ Alive /\ draining \in {"ended", "failed"}
  /\ draining' = "none"
  /\ flusher' = [f \in Flushers |->
       IF flusher[f].at # "draining" THEN flusher[f]
       ELSE IF draining = "ended" THEN [flusher[f] EXCEPT !.at = "drained"] ELSE NoFlush]
  /\ closer' = IF closer.at # "draining" THEN closer
               ELSE [closer EXCEPT !.at = "drained", !.failed = draining = "failed"]
  /\ UNCHANGED <<disks, sessions, buffered, timer, paused, running, state, lease, acked, bounds>>

-----------------------------------------------------------------------------
(***************************************************************************)
(* The operation at the head of the chain.  Its end lets close() await one *)
(* operation less; a failure does not stop the chain, and puts a drain's   *)
(* batch back before the events that came meanwhile.                       *)
(***************************************************************************)
Op == Head(chain)

Longest(s, r) == IF Len(s) > Len(r) THEN s ELSE r

AwaitedAll(n) == n - 1   \* mutated form
Awaited(n) == IF n = 0 THEN 0 ELSE n - 1

RestWhenFailed == <<>>   \* mutated form
Rest == Tail(chain)

Ends ==
  /\ step' = "waiting" /\ batch' = <<>>
  /\ closer' = [closer EXCEPT !.awaits = Awaited(@)]

Succeeds ==
  /\ Ends
  /\ chain' = Tail(chain)
  /\ draining' = IF Op.kind = "drain" THEN "written" ELSE draining
  /\ session' = IF Op.kind = "append" THEN "stored" ELSE session
  /\ stored' = IF Op.kind = "append" THEN Op.upto ELSE stored
  /\ IF Op.kind = "flush"
     THEN LET f == flusher[Op.by] IN
          /\ acked' = [acked EXCEPT ![f.late] = Longest(Stored(f.goal), @)]
          /\ flusher' = [flusher EXCEPT ![Op.by] = NoFlush]
     ELSE UNCHANGED <<acked, flusher>>
  /\ UNCHANGED <<log, buffered, timer, paused>>

RestoredBehind(events) == buffered \o events   \* mutated form
Restored(events) == events \o buffered

Fails ==
  /\ Ends
  /\ chain' = Rest
  /\ IF Op.kind = "drain"
     THEN buffered' = Restored(batch) /\ paused' = TRUE /\ draining' = "failed"
     ELSE UNCHANGED <<buffered, paused, draining>>
  /\ session' = IF Op.kind = "append" THEN "failed" ELSE session
  /\ flusher' = IF Op.kind = "flush" THEN [flusher EXCEPT ![Op.by] = NoFlush] ELSE flusher
  /\ UNCHANGED <<log, stored, timer, acked>>

GoesOn(at) ==
  /\ step' = at
  /\ UNCHANGED <<sessions, buffers, chain, batch, callers>>

Fault == faults < MaxFaults /\ faults' = faults + 1

(***************************************************************************)
(* An operation starts: those of the public methods are refused once the   *)
(* handle closes, a drain takes the whole buffer.                          *)
(***************************************************************************)
Refused == Op.kind # "drain" /\ closer.at # "open"

Taken ==
  CASE Op.kind = "drain"  -> buffered
    [] Op.kind = "append" -> SubSeq(log, stored + 1, Op.upto)
    [] Op.kind = "flush"  -> <<>>

StartOp ==
  /\ Alive /\ chain # <<>> /\ step = "waiting"
  /\ \/ Refused /\ Fails
     \/ ~Refused /\ Op.kind = "flush" /\ materialized /\ Succeeds
     \/ /\ ~Refused /\ ~(Op.kind = "flush" /\ materialized)
        /\ batch' = Taken
        /\ buffered' = IF Op.kind = "drain" THEN <<>> ELSE buffered
        /\ step' = "lease"
        /\ UNCHANGED <<sessions, timer, paused, draining, chain, callers>>
  /\ UNCHANGED <<disks, state, lease, bounds>>

(***************************************************************************)
(* persistContiguous(): the lease (a created session takes it here), the   *)
(* contiguity check, the pending repair of a torn tail in two steps, each  *)
(* forgotten once it landed, and the batch itself.                         *)
(***************************************************************************)
Contiguous == batch # <<>> => batch[1].seq = cursor + 1

AfterTruncationWrites == "write"   \* mutated form
AfterTruncation == IF recovered # <<>> THEN "rewrite" ELSE "write"

LeaseSettles ==
  /\ Alive /\ step = "lease" /\ (lease = "none" => Macrotask)
  /\ \/ lease = "none" /\ Fault /\ Fails /\ UNCHANGED lease
     \/ /\ lease' = IF lease = "none" THEN "held" ELSE lease
        /\ \/ ~Contiguous /\ Fails
           \/ Contiguous /\ GoesOn(IF truncate THEN "truncate" ELSE AfterTruncation)
        /\ UNCHANGED faults
  /\ UNCHANGED <<disks, state, crashes>>

Truncated == torn' = FALSE /\ tail' = <<>> /\ UNCHANGED <<disk, exists>>

TruncateSettles ==
  /\ Macrotask /\ step = "truncate"
  /\ \/ Truncated /\ truncate' = FALSE /\ GoesOn(AfterTruncation) /\ UNCHANGED faults
     \/ (Truncated \/ UNCHANGED disks) /\ Fault /\ Fails /\ UNCHANGED truncate
  /\ UNCHANGED <<cursor, materialized, recovered, lease, crashes>>

\* appendLines(): a write or sync that failed is rolled back.
RolledBackNever(events) == disk \o events   \* mutated form
RolledBack(events) == disk

RewriteSettles ==
  /\ Macrotask /\ step = "rewrite"
  /\ \/ /\ disk' = disk \o recovered /\ recovered' = <<>>
        /\ GoesOn("write") /\ UNCHANGED faults
     \/ disk' = RolledBack(recovered) /\ Fault /\ Fails /\ UNCHANGED recovered
  /\ UNCHANGED <<tail, torn, exists, cursor, materialized, truncate, lease, crashes>>

(***************************************************************************)
(* persistBatch(): the first write publishes a new artifact and refuses an *)
(* existing one; publication may succeed and its directory sync fail.      *)
(***************************************************************************)
Refuses == exists /\ ~materialized

AdvancedByOne == cursor + 1   \* mutated form
Advanced == cursor + Len(batch)

WriteFails ==
  /\ Fails
  /\ \/ Refuses /\ UNCHANGED <<disk, exists, faults>>
     \/ /\ ~Refuses /\ Fault
        /\ \/ materialized /\ disk' = RolledBack(batch) /\ UNCHANGED exists
           \/ ~materialized /\ UNCHANGED <<disk, exists>>
           \/ ~materialized /\ disk' = batch /\ exists' = TRUE
  /\ UNCHANGED <<cursor, materialized>>

WriteSettles ==
  /\ Macrotask /\ step = "write"
  /\ \/ WriteFails
     \/ /\ ~Refuses
        /\ disk' = disk \o batch /\ exists' = TRUE
        /\ cursor' = Advanced /\ materialized' = TRUE
        /\ Succeeds /\ UNCHANGED faults
  /\ UNCHANGED <<tail, torn, truncate, recovered, lease, crashes>>

-----------------------------------------------------------------------------
(***************************************************************************)
(* The session/flush checkpoint: drain, then the handle's own flush().  A  *)
(* caller is late when the drain it joins has already looked for the last  *)
(* time.                                                                   *)
(***************************************************************************)
FlushCall(f) ==
  /\ session = "live" /\ closer.at # "closed" /\ flusher[f].at = "idle"
  /\ DrainLive(timer)
  /\ flusher' = [flusher EXCEPT ![f] =
       [at |-> "draining", goal |-> Len(log), late |-> draining = "ended"]]
  /\ UNCHANGED <<disks, sessions, buffered, step, batch, state, lease, closer, acked, bounds>>

FlushDrained(f) ==
  /\ Alive /\ flusher[f].at = "drained"
  /\ \/ /\ closer.at # "open"
        /\ flusher' = [flusher EXCEPT ![f] = NoFlush] /\ UNCHANGED chain
     \/ /\ closer.at = "open"
        /\ flusher' = [flusher EXCEPT ![f].at = "flushing"]
        /\ chain' = Append(chain, [kind |-> "flush", by |-> f])
  /\ UNCHANGED <<disks, sessions, buffers, step, batch, state, lease, closer, acked, bounds>>

(***************************************************************************)
(* close(): drain and await the chain until the buffer is found empty, or  *)
(* a drain fails; await the chain once more, release the lease, forget the *)
(* handle.                                                                 *)
(***************************************************************************)
Close ==
  /\ Alive /\ closer.at = "open"
  /\ DrainLive(timer)
  /\ closer' = [closer EXCEPT !.at = "draining"]
  /\ UNCHANGED <<disks, sessions, buffered, step, batch, state, lease, flusher, acked, bounds>>

NeverGivesUp(failed) == FALSE   \* mutated form
GivesUp(failed) == failed

CloseDrained ==
  /\ Alive /\ closer.at = "drained"
  /\ closer' = [closer EXCEPT !.at = IF GivesUp(closer.failed) THEN "leaving" ELSE "waiting",
                              !.awaits = Len(chain)]
  /\ UNCHANGED <<disks, sessions, buffers, running, state, lease, flusher, acked, bounds>>

LeavesAtOnce == TRUE   \* mutated form
NothingBuffered == buffered = <<>>

CloseLooks ==
  /\ Alive /\ closer.at = "waiting" /\ closer.awaits = 0
  /\ \/ /\ NothingBuffered
        /\ closer' = [closer EXCEPT !.at = "leaving", !.awaits = Len(chain),
                                    !.covers = Len(log)]
        /\ UNCHANGED <<timer, paused, draining, chain>>
     \/ /\ ~NothingBuffered
        /\ DrainLive(timer)
        /\ closer' = [closer EXCEPT !.at = "draining"]
  /\ UNCHANGED <<disks, sessions, buffered, step, batch, state, lease, flusher, acked, bounds>>

CloseLeaves ==
  /\ Alive
  /\ \/ /\ closer.at = "leaving" /\ closer.awaits = 0
        /\ closer' = [closer EXCEPT !.at = "releasing"] /\ UNCHANGED lease
     \/ /\ closer.at = "releasing" /\ (lease = "held" => Macrotask)
        /\ closer' = [closer EXCEPT !.at = "closed"]
        /\ lease' = IF lease = "held" THEN "released" ELSE lease
  /\ UNCHANGED <<disks, sessions, buffers, running, state, flusher, acked, bounds>>

-----------------------------------------------------------------------------
(***************************************************************************)
(* A crash keeps what the running write has put into the file: some of its *)
(* complete events and torn bytes behind them.  The lines of a raw log are *)
(* each committed; a torn zstd frame only offers them for recovery.        *)
(***************************************************************************)
Written == IF step = "rewrite" THEN recovered ELSE batch

PartlyWritten ==
  \E n \in 0 .. Len(Written) :
    LET complete == SubSeq(Written, 1, n) IN
    \/ /\ ~RecoversTail /\ n < Len(Written)
       /\ disk' = disk \o complete /\ torn' \in BOOLEAN /\ UNCHANGED tail
    \/ RecoversTail /\ tail' = complete /\ torn' = TRUE /\ UNCHANGED disk
    \/ n = Len(Written) /\ disk' = disk \o complete /\ UNCHANGED <<tail, torn>>

Crash ==
  /\ Alive /\ crashes < MaxCrashes
  /\ \/ UNCHANGED disks
     \/ step = "truncate" /\ Truncated
     \/ step \in {"rewrite", "write"} /\ materialized /\ PartlyWritten /\ UNCHANGED exists
     \/ /\ step = "write" /\ ~exists
        /\ disk' = batch /\ exists' = TRUE /\ UNCHANGED <<tail, torn>>
  /\ session' = "crashed" /\ crashes' = crashes + 1
  /\ buffered' = <<>> /\ timer' = FALSE /\ paused' = FALSE /\ draining' = "none"
  /\ chain' = <<>> /\ step' = "waiting" /\ batch' = <<>>
  /\ closer' = Open /\ flusher' = [f \in Flushers |-> NoFlush]
  /\ UNCHANGED <<log, stored, state, lease, acked, faults>>

\* open(): an existing artifact is read and its lock taken; or create() again.
Reopen ==
  /\ session = "crashed"
  /\ session' = "setup"
  /\ log' = Readable /\ stored' = Len(Readable) /\ cursor' = Len(Readable)
  /\ materialized' = exists /\ truncate' = torn /\ recovered' = tail
  /\ lease' = IF exists THEN "held" ELSE "none"
  /\ UNCHANGED <<disks, buffers, running, callers, bounds>>

-----------------------------------------------------------------------------
HandleStep ==
  \/ TimerFires \/ DrainContinues \/ DrainSettles
  \/ StartOp \/ LeaseSettles \/ TruncateSettles \/ RewriteSettles \/ WriteSettles

CloseStep == CloseDrained \/ CloseLooks \/ CloseLeaves

Next ==
  \/ SetupEvent \/ StoreSuffix \/ Publish \/ LiveEvent
  \/ HandleStep \/ CloseStep \/ Close
  \/ \E f \in Flushers : FlushCall(f) \/ FlushDrained(f)
  \/ Crash \/ Reopen

Spec == Init /\ [][Next]_vars

(***************************************************************************)
(* Timers fire, awaits continue and I/O settles, one way or the other.     *)
(* Node turns to a ready timer or I/O callback however often others call   *)
(* the handle in between: strong fairness for those.                       *)
(***************************************************************************)
Fairness ==
  /\ WF_vars(DrainContinues) /\ WF_vars(DrainSettles) /\ WF_vars(StartOp)
  /\ SF_vars(TimerFires) /\ SF_vars(LeaseSettles) /\ SF_vars(TruncateSettles)
  /\ SF_vars(RewriteSettles) /\ SF_vars(WriteSettles) /\ SF_vars(CloseStep)
  /\ \A f \in Flushers : WF_vars(FlushDrained(f))

FairSpec == Spec /\ Fairness

-----------------------------------------------------------------------------
(***************************************************************************)
(* A reader of the artifact sees a prefix of the session's log at every    *)
(* moment, in the middle of writes, after failures and after a crash.      *)
(***************************************************************************)
ReadersSeePrefix == IsPrefix(Readable, log)

(***************************************************************************)
(* The cursor a handle goes on writing at counts exactly what it has       *)
(* committed and what it still owes the artifact from a torn frame.        *)
(***************************************************************************)
StoredAgrees ==
  Alive /\ materialized => disk \o recovered = Stored(cursor)

(***************************************************************************)
(* Every published event is in the artifact, in the write in flight or in  *)
(* the buffer, once and in order, whatever failed before.                  *)
(***************************************************************************)
NothingMissed ==
  session = "live"
  => log = Stored(cursor)
           \o (IF chain # <<>> /\ Op.kind = "drain" THEN batch ELSE <<>>)
           \o buffered

\* Artifact, cursor, write in flight and buffer never disagree about the log.
BooksAgree == TypeOK /\ ReadersSeePrefix /\ StoredAgrees /\ NothingMissed

(***************************************************************************)
(* What a checkpoint acknowledged survives every later failure and crash,  *)
(* unless the checkpoint joined a drain that had already ended.  A running *)
(* handle may still owe the artifact what it recovered from a torn frame.  *)
(***************************************************************************)
Recoverable == disk \o (IF Alive THEN recovered ELSE tail)

AckedSurvive == IsPrefix(acked[FALSE], Recoverable)

(***************************************************************************)
(* As long as no write fails, all that was published before close() last   *)
(* looked at the buffer is stored when it resolves, in the middle of       *)
(* whatever work, of its own or of others, it was called.                  *)
(***************************************************************************)
CloseLosesNothing ==
  session = "live" /\ closer.at = "closed" /\ ~closer.failed
  => IsPrefix(Stored(closer.covers), Readable)

CloseKeepsPublished == faults = 0 => CloseLosesNothing

(***************************************************************************)
(* A published event is written, unless a failed drain waits for somebody  *)
(* to retry it or the process crashes.                                     *)
(***************************************************************************)
EventuallyWritten ==
  \A n \in 1 .. MaxEvents :
    session = "live" /\ Len(log) >= n ~> Len(Readable) >= n \/ paused \/ ~Alive

\* A checkpoint is answered and close() completes.
FlushReturns ==
  \A f \in Flushers : flusher[f].at # "idle" ~> flusher[f].at = "idle"

CloseCompletes == closer.at # "open" ~> closer.at \in {"open", "closed"}

\* No event, checkpoint or close() waits for ever, whatever they wait behind.
HandleProgresses == EventuallyWritten /\ FlushReturns /\ CloseCompletes

-----------------------------------------------------------------------------
(***************************************************************************)
(* What the repository states without the conditions of the properties     *)
(* above, and the code does not keep; the README gives the behaviours.     *)
(*                                                                         *)
(* session/src/index.ts: a flush is for the session "whose buffered events *)
(* must reach durable storage", late joiners of a drain not excepted.      *)
(* storage.ts: close() "loses nothing", and rejects when a drain failed,   *)
(* which is CloseLosesNothing without the condition on faults.             *)
(***************************************************************************)
FlushedSurvive == IsPrefix(acked[TRUE], Recoverable)
=============================================================================
