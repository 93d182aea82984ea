---------------------------- MODULE EngineRunner ----------------------------
(***************************************************************************)
(* The runner of framework/engine: it propagates pushed writes through a   *)
(* graph step by step, starts the effects the steps request, journals what *)
(* happens and decides how a failure ends the run.  One recovery scope     *)
(* goes on after a failure outside it, until it has wound down.            *)
(*                                                                         *)
(* The graph is one operator outside the scope, one member fold and the    *)
(* effects of Order; a write is a number, and which effects it requests    *)
(* and what throws on it is left open.  A turn of the event loop (drain)   *)
(* is several actions that nothing asynchronous comes between; what an     *)
(* effect does before its first await happens inside the drain.  Operators *)
(* on the state s return a state, or the set of states the code can reach. *)
(***************************************************************************)
EXTENDS Integers, Sequences, FiniteSets, SequencesExt

CONSTANTS
  Order,         \* the effects, in the order they were declared
  Members,       \* those of the recovery scope
  Urgent,        \* those whose requests are recovery work
  Finishers,     \* those that finish on stop
  None,
  Concurrency,   \* of the one lane the effects share
  Queue,         \* requests of one kind it holds waiting beyond its free slots
  Capacity,      \* entries the journal holds unwritten
  MaxWrites,     \* bound: writes pushed or produced
  MaxNotes       \* bound: notes effects make

Effects == ToSet(Order)
\* where else a failure happens: the outer operator, the member fold, the journal, the callback, or
\* nowhere that is known (a write refused before any operator runs)
Places == {"operator", "fold", "journal", "callback", "unnamed"}
\* how the journal fails
Failures == {"overflow", "append", "timeout"}
Verdicts == [kind : {"stop", "reject"}, error : Effects \cup Places \cup {None}]
ASSUME RunnerAssumption ==
  /\ Members \subseteq Effects /\ Urgent \subseteq Effects /\ Finishers \subseteq Effects
  /\ Concurrency \in Nat \ {0} /\ Queue \in Nat /\ Capacity \in Nat
  /\ MaxWrites \in Nat /\ MaxNotes \in Nat
  /\ Order \in Seq(Effects) /\ Effects \cap Places = {}
  /\ None \notin Nat \cup Effects \cup Places \cup Failures \cup Verdicts

VARIABLE r    \* the runner
runnerVars == <<r>>

\* the write that winds the scope down
Down == 0
Writes == 0 .. MaxWrites
Errors == Effects \cup Places
Origins == Errors \ {"callback"}
\* a failure that leaves the scope running: one whose place is known and is not in it
InScope(at) == at \in Members \cup {"fold"}
Outside(at) == at # "unnamed" /\ ~InScope(at)
Jobs == [write : Writes, effect : Effects]
Running == [write : Writes, effect : Effects, aborted : BOOLEAN, finishing : BOOLEAN, over : BOOLEAN]

Started ==
  [pending |-> <<>>,          \* writes whose step has not run
   buffer |-> [e \in Effects |-> <<>>],   \* writes delivered to an effect, not taken yet
   waiting |-> <<>>,          \* requests admitted to the lane, recovery work first
   running |-> {},            \* effects at work
   fresh |-> None,            \* the one whose synchronous part is running
   pumpWanted |-> FALSE,
   degraded |-> None,         \* the failure that left only the scope running
   finished |-> FALSE,
   late |-> None,             \* the failure of work that a clean stop let finish
   verdict |-> None,          \* who settles `stopped` first, and with what
   outcome |-> None,          \* what `stopped` settled with
   queue |-> <<>>, writing |-> None, closed |-> FALSE, closing |-> FALSE,  \* the journal
   finalizing |-> FALSE, timedOut |-> FALSE, failure |-> None, completion |-> "no",
   sink |-> <<>>, ended |-> "no",         \* the journal file
   \* history
   accepted |-> <<>>,         \* writes in the order they were queued
   folded |-> <<>>,           \* writes the scope has folded
   entries |-> 0,             \* entries that had to be journaled
   first |-> None,            \* the failure the runner was handed first
   done |-> {},               \* requests whose effect has settled
   asked |-> {},              \* requests made of the scope's effects
   notes |-> 0]

-----------------------------------------------------------------------------
(* The journal.                                                            *)

\* mutant: the end of a journal whose append timed out is never settled
WriteJournalOnly(s) ==
  IF s.writing # None \/ s.finalizing THEN s
  ELSE IF s.queue # <<>> THEN [s EXCEPT !.writing = Head(s.queue), !.queue = Tail(@)]
  ELSE IF ~s.closing THEN s
  ELSE [s EXCEPT !.finalizing = TRUE, !.completion = IF s.timedOut THEN "no" ELSE "pending"]
\* writeJournal: one append at a time, then the end of the file
WriteJournal(s) ==
  IF s.writing # None \/ s.finalizing THEN s
  ELSE IF s.queue # <<>> THEN [s EXCEPT !.writing = Head(s.queue), !.queue = Tail(@)]
  ELSE IF ~s.closing THEN s
  ELSE [s EXCEPT !.finalizing = TRUE, !.completion = IF s.timedOut THEN "failed" ELSE "pending"]

Unwritten(s) == Len(s.queue) + (IF s.writing = None THEN 0 ELSE 1)
\* mutant: an entry past the capacity is dropped
AppendWhatFits(s) ==
  LET n == s.entries + 1 IN
  IF s.closed \/ Unwritten(s) >= Capacity THEN [s EXCEPT !.entries = n]
  ELSE WriteJournal([s EXCEPT !.entries = n, !.queue = Append(@, n)])
\* append, but for the failure of the graph when the entry is one too many
Appended(s) ==
  LET n == s.entries + 1 IN
  IF s.closed THEN [s EXCEPT !.entries = n]
  ELSE IF Unwritten(s) >= Capacity
  THEN [s EXCEPT !.entries = n, !.closed = TRUE, !.failure = "overflow"]
  ELSE WriteJournal([s EXCEPT !.entries = n, !.queue = Append(@, n)])
Overflows(s) == ~s.closed /\ Appended(s).closed

-----------------------------------------------------------------------------
(* The lane.                                                               *)

Kind(job) == job.effect \in Urgent
\* the requests of the effects E, in order
Only(jobs, E) ==
  LET only[i \in 0 .. Len(jobs)] ==
        IF i = 0 THEN <<>>
        ELSE IF jobs[i].effect \in E THEN Append(only[i - 1], jobs[i]) ELSE only[i - 1]
  IN only[Len(jobs)]
Queued(jobs, urgent) == Cardinality({i \in DOMAIN jobs : Kind(jobs[i]) = urgent})
\* requests of one kind wait behind those of that kind, recovery work before the rest
Admitted(jobs, more, urgent) ==
  LET n == IF urgent THEN Queued(jobs, TRUE) ELSE Len(jobs)
  IN SubSeq(jobs, 1, n) \o more \o SubSeq(jobs, n + 1, Len(jobs))

\* the lane's bound: requests of one kind waiting beyond the slots that are free for it
Free(s, urgent) ==
  LET ahead == Cardinality(s.running) + (IF urgent THEN 0 ELSE Queued(s.waiting, TRUE))
  IN IF ahead >= Concurrency THEN 0 ELSE Concurrency - ahead
\* how many of n requests of one kind are admitted before one finds the lane full
Fitting(s, n, urgent) ==
  LET space == Queue + Free(s, urgent) - Queued(s.waiting, urgent)
  IN IF space <= 0 THEN 0 ELSE IF space < n THEN space ELSE n

Starting(s, job) ==
  [write |-> job.write, effect |-> job.effect, aborted |-> s.finished, finishing |-> s.finished,
   over |-> FALSE]
StartJob(s, job) ==
  [s EXCEPT !.running = @ \cup {Starting(s, job)}, !.fresh = Starting(s, job), !.waiting = Tail(@)]
\* finishQueued: after a stop, as many of the kept requests as the lane takes
FinishQueued(s) ==
  LET free == Free(s, TRUE)
      n == IF free < Len(s.waiting) THEN free ELSE Len(s.waiting)
  IN [s EXCEPT !.running = @ \cup {Starting(s, s.waiting[i]) : i \in 1 .. n},
               !.waiting = SubSeq(@, n + 1, Len(@))]

-----------------------------------------------------------------------------
(* How a run ends.                                                         *)

Requests(jobs) == {[write |-> j.write, effect |-> j.effect] : j \in jobs}
Abort(jobs, S) == {[j EXCEPT !.aborted = @ \/ j.effect \in S] : j \in jobs}

\* what no property asks of a finished run
Forgotten(s) ==
  [s EXCEPT !.buffer = [e \in Effects |-> <<>>], !.accepted = <<>>, !.folded = <<>>,
            !.asked = {}, !.done = {}, !.notes = 0]
\* abandon; a clean one keeps the requests that finish on stop
Abandon(s, clean) ==
  FinishQueued([Forgotten(s) EXCEPT
    !.finished = TRUE, !.pending = <<>>, !.pumpWanted = FALSE, !.fresh = None,
    !.running = Abort(@, Effects),
    !.waiting = IF clean THEN Only(@, Finishers) ELSE <<>>])

\* the first to wait for the shutdown is the one that settles `stopped`
Claim(s, v) == [s EXCEPT !.verdict = IF @ = None THEN v ELSE @]
\* mutant: the stop of a degraded graph settles with its value
StopsWithValue(s) == [kind |-> "stop", error |-> None]
Stops(s) == [kind |-> "stop", error |-> s.degraded]
Rejects(at) == [kind |-> "reject", error |-> at]

Noted(s, at) == [s EXCEPT !.first = IF @ = None THEN at ELSE @]
\* halt
Halted(s, at) == Abandon(Claim(Appended(Noted(s, at)), Rejects(at)), FALSE)

\* mutant: requests outside the scope stay in the lane
KeepRequests(s, at) ==
  Appended([Appended(Noted(s, at)) EXCEPT !.degraded = at, !.running = Abort(@, Effects \ Members)])
\* only the scope goes on: what is outside it is aborted and its requests are dropped
KeepOnlyScope(s, at) ==
  Appended([Appended(Noted(s, at)) EXCEPT
    !.degraded = at,
    !.running = Abort(@, Effects \ Members),
    !.waiting = Only(@, Members)])

Active(s, e) == s.degraded = None \/ e \in Members

\* take: an effect's deliveries leave its buffer; one that finds the lane full is refused, or one
\* for its identity or sequence (refuses), and the rest of the deliveries are lost with it
RouteOne(s, e, refuses) ==
  LET jobs == [i \in DOMAIN s.at.buffer[e] |-> [write |-> s.at.buffer[e][i], effect |-> e]]
      n == IF e = refuses THEN 0 ELSE Fitting(s.at, Len(jobs), e \in Urgent)
      taken == [s.at EXCEPT !.buffer[e] = <<>>]
  IN IF s.refused # None THEN s
     ELSE IF ~Active(s.at, e) THEN [s EXCEPT !.at = taken]
     ELSE [at |-> [taken EXCEPT !.waiting = Admitted(@, SubSeq(jobs, 1, n), e \in Urgent)],
           refused |-> IF n < Len(jobs) THEN e ELSE None]
\* route: the effect that refused, if any, and the state it left
Route(s, refuses) ==
  LET after[i \in 0 .. Len(Order)] ==
        IF i = 0 THEN [at |-> s, refused |-> None] ELSE RouteOne(after[i - 1], Order[i], refuses)
  IN after[Len(Order)]
Routes(s) == {Route(s, refuses) : refuses \in Effects \cup {None}}

\* core.run: the operators that still run fold the write, and its requests reach the effects
Folds(s, w) ==
  {[s EXCEPT
      !.folded = Append(@, w),
      !.buffer = [e \in Effects |-> IF e \in D THEN Append(@[e], w) ELSE @[e]],
      !.asked = @ \cup {[write |-> w, effect |-> e] : e \in D \cap Members}] : D \in SUBSET Effects}

Pumping(s) == [s EXCEPT !.pumpWanted = TRUE]

\* mutant: the step that was rolled back is lost
RerunsNothing(s, w) == {s}
\* the step that was rolled back runs again without the rest of the graph
Reruns(s, w) ==
  IF w = None THEN {s}
  ELSE {Halted(s, "fold")} \cup
       {IF t.refused # None THEN Halted(t.at, t.refused) ELSE Pumping(t.at) :
           t \in UNION {Routes(Appended(f)) : f \in Folds(s, w)}}

\* onFailure: writes that wind the scope down, nothing to wind down, or a throw
WindsDown(s) ==
  IF s.finished THEN {s}
  ELSE {[s EXCEPT !.pending = Append(@, Down), !.accepted = Append(@, Down)],
        Abandon(Claim(s, Rejects(s.degraded)), FALSE),
        Halted(s, "callback")}

\* fail, with the step it rolled back: the states it can leave
Fails(s, at, w) ==
  IF s.finished \/ (s.degraded # None /\ Outside(at)) THEN {s}
  ELSE IF Members = {} \/ ~Outside(at) THEN {Halted(s, at)}
  ELSE UNION {WindsDown(t) : t \in Reruns(KeepOnlyScope(s, at), w)}

\* append, failing the graph on an overflow
Journals(s) == IF Overflows(s) THEN Fails(Appended(s), "journal", None) ELSE {Appended(s)}

-----------------------------------------------------------------------------
(* A turn of the event loop.                                               *)

Draining == ~r.finished /\ (r.pending # <<>> \/ r.pumpWanted)

\* propagate: the step throws, is rolled back and fails the graph, or it lands, is journaled, and
\* its requests are routed
Lands(s, w) ==
  UNION {IF t.finished THEN {t}
         ELSE UNION {IF u.refused = None THEN {Pumping(u.at)} ELSE Fails(u.at, u.refused, None) :
                       u \in Routes(t)} :
           t \in UNION {Journals(f) : f \in Folds(s, w)}}
Throwers(s) == {"fold", "unnamed"} \cup (IF s.degraded = None THEN {"operator"} ELSE {})
Propagate ==
  /\ ~r.finished /\ r.pending # <<>>
  /\ LET w == Head(r.pending)
         s == [r EXCEPT !.pending = Tail(@), !.fresh = None]
     IN (\E at \in Throwers(s) : r' \in Fails(s, at, w)) \/ r' \in Lands(s, w)

\* mutant: one more starts than the lane takes
RoomForOneMore == Cardinality(r.running) <= Concurrency /\ r.waiting # <<>>
Room == Cardinality(r.running) < Concurrency /\ r.waiting # <<>>
\* pump, one start at a time
Pump ==
  /\ Draining /\ r.pending = <<>>
  /\ r' = IF Room THEN StartJob(r, Head(r.waiting))
          ELSE [r EXCEPT !.pumpWanted = FALSE, !.fresh = None]

-----------------------------------------------------------------------------
(* What effects, sources and the owner of the runner do.                   *)

Accept(s, w) == [s EXCEPT !.pending = Append(@, w), !.accepted = Append(@, w)]
Produced == Cardinality(ToSet(r.accepted) \ {Down})
Push ==
  /\ ~Draining /\ ~r.finished /\ Produced < MaxWrites
  /\ r' = Accept(r, Produced + 1)

\* an effect acts before its first await, within the drain that started it, or between two drains
Acts(j) == j \in r.running /\ ~j.over /\ (Draining => j = r.fresh)
WriteResult(j) ==
  /\ Acts(j) /\ ~r.finished /\ ~j.aborted /\ Produced < MaxWrites
  /\ r' = Accept(r, Produced + 1)
Note(j) ==
  /\ Acts(j) /\ ~r.finished /\ r.notes < MaxNotes
  /\ r' \in Journals([r EXCEPT !.notes = @ + 1])
StopAll(j) ==
  /\ Acts(j) /\ Active(r, j.effect)
  /\ r' = Abandon(Claim(r, Stops(r)), TRUE)

\* a handler throws or rejects; what a clean stop let finish drops the rest and is reported
Late(s, at) ==
  IF s.late # None THEN s ELSE [Appended(s) EXCEPT !.late = at, !.waiting = <<>>]
Reject(j) ==
  /\ j \in r.running /\ ~j.over /\ ~Draining
  /\ LET s == [r EXCEPT !.running = (@ \ {j}) \cup {[j EXCEPT !.over = TRUE]}]
     IN r' \in IF j.finishing THEN {Late(s, j.effect)} ELSE Fails(s, j.effect, None)
Settle(j) ==
  /\ j \in r.running /\ ~Draining
  /\ LET s == [r EXCEPT !.running = @ \ {j}, !.fresh = None,
                        !.done = @ \cup (r.asked \cap Requests({j}))]
     IN r' = IF s.finished THEN FinishQueued(s) ELSE Pumping(s)

\* whoever owns the runner abandons it; what a clean stop kept waiting is dropped too
AbandonAll ==
  /\ ~Draining /\ (~r.finished \/ r.waiting # <<>>)
  /\ r' = Abandon(r, FALSE)

-----------------------------------------------------------------------------
(* The journal's answers, and the end.                                     *)

\* an append is acknowledged
AppendAcked ==
  /\ ~Draining /\ r.writing # None
  /\ r' = WriteJournal([r EXCEPT !.sink = Append(@, r.writing), !.writing = None])
\* an append fails or outlives its deadline, its entry written or not, or it had grown past the
\* capacity and is not written; nothing queued behind it is
AppendFailed ==
  /\ ~Draining /\ r.writing # None
  /\ \E how \in Failures :
     \E sink \in {r.sink} \cup (IF how = "overflow" THEN {} ELSE {Append(r.sink, r.writing)}) :
       LET s == [r EXCEPT !.sink = sink, !.writing = None, !.queue = <<>>, !.closed = TRUE,
                          !.timedOut = how = "timeout",
                          !.failure = IF @ = None THEN how ELSE @]
       IN r' \in {WriteJournal(t) : t \in IF r.failure = None THEN Fails(s, "journal", None) ELSE {s}}

\* settleAndFinalize, once no effect is left
Finalize ==
  /\ r.finished /\ r.running = {} /\ ~r.closing
  /\ r' = WriteJournal([r EXCEPT !.closed = TRUE, !.closing = TRUE])
Ending == r.finalizing /\ r.completion = "pending"
Finalized ==
  /\ Ending
  /\ r' = [r EXCEPT !.ended = IF r.failure = None THEN "clean" ELSE "unclean",
                    !.completion = IF r.failure = None THEN "ok" ELSE "failed"]
FinalizeFailed ==
  /\ Ending
  /\ \E end \in {"no", IF r.failure = None THEN "clean" ELSE "unclean"} :
       r' = [r EXCEPT !.ended = end, !.completion = "failed"]

\* `stopped` settles
Result(v) ==
  LET error == IF v.kind = "stop" /\ v.error = None THEN r.late ELSE v.error
  IN [error |-> error, journal |-> r.completion = "failed"]
Conclude ==
  /\ r.completion \in {"ok", "failed"} /\ r.verdict # None /\ r.outcome = None
  /\ r' = [r EXCEPT !.outcome = Result(r.verdict)]

RunnerInit == r = Started
Work == Propagate \/ Pump
Journal == AppendAcked \/ AppendFailed \/ Finalize \/ Finalized \/ FinalizeFailed \/ Conclude
RunnerNext ==
  \/ Work \/ Journal \/ Push \/ AbandonAll
  \/ \E j \in r.running : WriteResult(j) \/ Note(j) \/ StopAll(j) \/ Reject(j) \/ Settle(j)
RunnerSpec == RunnerInit /\ [][RunnerNext]_runnerVars

\* The event loop runs what is ready; an append and the finalization end at their deadline; a
\* handler whose signal is aborted settles.
RunnerFairness ==
  /\ WF_runnerVars(Work) /\ WF_runnerVars(Journal)
  /\ WF_runnerVars(\E j \in r.running : Settle(j))
RunnerLiveSpec == RunnerSpec /\ RunnerFairness

-----------------------------------------------------------------------------
(* Properties.                                                             *)

RunnerTypeOK ==
  /\ r.pending \in Seq(Writes) /\ r.folded \in Seq(Writes) /\ r.accepted \in Seq(Writes)
  /\ r.buffer \in [Effects -> Seq(Writes)]
  /\ r.waiting \in Seq(Jobs) /\ r.running \subseteq Running /\ r.done \subseteq Jobs
  /\ Cardinality(r.running) <= Concurrency
  /\ r.degraded \in Origins \cup {None} /\ r.late \in Effects \cup {None}
  /\ r.verdict \in Verdicts \cup {None}
  /\ r.outcome \in [error : Errors \cup {None}, journal : BOOLEAN] \cup {None}
  /\ r.failure \in Failures \cup {None}
  /\ r.completion \in {"no", "pending", "ok", "failed"} /\ r.ended \in {"no", "clean", "unclean"}
  /\ Unwritten(r) <= Capacity

\* While the runner lives, the scope has folded every write that was accepted, in order, but those
\* still pending; and every request a step made of one of its effects is buffered, waiting, at work
\* or settled, in one place: a failure outside it takes neither from it, whatever it rolled back.
Buffered(e) == {[write |-> w, effect |-> e] : w \in ToSet(r.buffer[e])}
ScopeKeepsAll ==
  ~r.finished =>
    /\ r.folded \o r.pending = r.accepted
    /\ \A q \in r.asked :
         Cardinality({place \in 1 .. 4 :
           q \in CASE place = 1 -> Buffered(q.effect)
                   [] place = 2 -> ToSet(r.waiting)
                   [] place = 3 -> Requests(r.running)
                   [] place = 4 -> r.done}) = 1

\* Once the graph has degraded, what is outside the scope neither starts nor goes on unaborted, and
\* nothing starts before the scope has folded what winds it down.
WindsDownFirst ==
  [][r'.degraded # None /\ ~r'.finished =>
       /\ \A q \in Requests(r'.running) \ Requests(r.running) :
            q.effect \in Members /\ Down \in ToSet(r'.folded)
       /\ \A j \in r'.running : j.effect \in Members \/ j.aborted]_runnerVars

\* The journal file is the entries in order without a gap, and it is ended as clean only when every
\* entry that had to be journaled is in it.
JournalIsWhole ==
  /\ \A i \in DOMAIN r.sink : r.sink[i] = i
  /\ r.ended = "clean" => Len(r.sink) = r.entries

\* `stopped` settles after all work and all journal writes are over; with a value only when nothing
\* the runner was handed failed; and with the first failure, unless the scope failed after it.
StopIsHonest ==
  r.outcome # None =>
    /\ r.running = {} /\ r.waiting = <<>> /\ r.writing = None /\ r.queue = <<>>
    /\ (r.outcome.error = None /\ ~r.outcome.journal) =>
         (r.first = None /\ r.late = None /\ r.ended = "clean")
    /\ r.first # None =>
         \/ r.outcome.error = r.first
         \/ r.degraded = r.first /\ r.outcome.error \notin {"operator", "journal"}

\* A run that was stopped or failed says so in the end, whatever the journal does.
StopSettles == r.verdict # None ~> r.outcome # None
=============================================================================
