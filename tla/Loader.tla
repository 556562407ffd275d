------------------------------- MODULE Loader -------------------------------
(***************************************************************************)
(* loader.Run: the reading goroutine sends the rows of the dataset to the  *)
(* workers through the channel jobs; each worker parses rows until jobs is *)
(* closed and empty, then sends its partial result through partials; the   *)
(* reader waits for all of them and reduces.                               *)
(*                                                                         *)
(* A line of the file is abstracted to what becomes of it: the header, a   *)
(* row without fault, a row with the fault ParseRawRecord finds first, or  *)
(* a line longer than the 10 MB the scanner accepts.  A dataset that does   *)
(* not open ends Run before any goroutine, like one whose first line is    *)
(* too long.                                                               *)
(***************************************************************************)
EXTENDS Integers, SequencesExt, Sort

CONSTANTS
  Reasons,         \* the discard reasons of the rows at hand
  Configs          \* the calls: the lines of the dataset, the workers asked for
                   \* and the limit, 0 or less for none

Kinds == {"header", "valid", "oversized"} \cup Reasons

VARIABLES
  cfg,             \* the call
  reader,          \* where the reading goroutine is
  lineNumber, sent,
  jobs,            \* the channel of capacity 4 * Workers: line numbers
  partials,        \* the channel of capacity Workers
  worker,          \* what each worker has done
  result           \* what Run returns

vars == <<cfg, reader, lineNumber, sent, jobs, partials, worker, result>>

file == cfg.lines
limit == cfg.limit

\* A number of workers that is not positive is taken for one.
Threads == IF cfg.workers <= 0 THEN 1 ELSE cfg.workers
Workers == 1..Threads

\* A header that is not the first line is a row whose date does not parse.
Fault(kind) == IF kind = "header" THEN "invalid_datetime" ELSE kind

Nothing == [total |-> 0, discarded |-> [r \in Reasons |-> 0], records |-> <<>>]

\* The sum of two partial results: total, the counts by reason, the records.
\* valid and invalid, the other two counts, are functions of these.
Merged(p, q) ==
  [total |-> p.total + q.total,
   discarded |-> [r \in Reasons |-> p.discarded[r] + q.discarded[r]],
   records |-> p.records \o q.records]

\* sort.Slice by line number.
Sorted(p) == [p EXCEPT !.records = InOrder(@)]

\* What ParseRawRecord adds to the partial of its worker.
Parsed(n) ==
  IF file[n] = "valid"
  THEN [Nothing EXCEPT !.total = 1, !.records = <<n>>]
  ELSE [Nothing EXCEPT !.total = 1, !.discarded[Fault(file[n])] = 1]

Partial == [total : Nat, discarded : [Reasons -> Nat], records : Seq(Nat)]

\* Every variable has its type and no channel holds more than its capacity.
TypeOK ==
  /\ cfg.lines \in Seq(Kinds) /\ cfg.workers \in Int /\ cfg.limit \in Int
  /\ reader \in {"scanning", "waiting", "returned"}
  /\ lineNumber \in 0..Len(file)
  /\ sent \in 0..lineNumber
  /\ jobs \in Seq(1..sent + 1) /\ Len(jobs) <= 4 * Threads
  /\ partials \in Seq(Partial) /\ Len(partials) <= Threads
  /\ worker \in [Workers -> [ended : BOOLEAN, partial : Partial]]
  /\ result \in [status : {"pending", "failed", "empty"}]
                  \cup [status : {"ok"}, summary : Partial]

Init ==
  /\ cfg \in Configs
  /\ reader = "scanning"
  /\ lineNumber = 0
  /\ sent = 0
  /\ jobs = <<>>
  /\ partials = <<>>
  /\ worker = [w \in Workers |-> [ended |-> FALSE, partial |-> Nothing]]
  /\ result = [status |-> "pending"]

-----------------------------------------------------------------------------
(***************************************************************************)
(* The reading goroutine.                                                  *)
(***************************************************************************)

NextLine == lineNumber + 1
Scans == reader = "scanning" /\ NextLine <= Len(file) /\ file[NextLine] # "oversized"

LimitReached == limit > 0 /\ sent >= limit

Unwanted == NextLine = 1 /\ file[1] = "header"

SkipHeader ==
  /\ Scans /\ Unwanted
  /\ lineNumber' = NextLine
  /\ UNCHANGED <<cfg, reader, sent, jobs, partials, worker, result>>

\* jobs <- job blocks while the channel is full.
Send ==
  /\ Scans /\ ~Unwanted /\ ~LimitReached
  /\ Len(jobs) < 4 * Threads
  /\ lineNumber' = NextLine
  /\ sent' = sent + 1
  /\ jobs' = Append(jobs, NextLine)
  /\ UNCHANGED <<cfg, reader, partials, worker, result>>

\* The end of the file or the limit: close(jobs), then wg.Wait.
CloseJobs ==
  /\ \/ reader = "scanning" /\ lineNumber = Len(file)
     \/ Scans /\ ~Unwanted /\ LimitReached
  /\ reader' = "waiting"
  /\ UNCHANGED <<cfg, lineNumber, sent, jobs, partials, worker, result>>

\* The scanner fails: close(jobs) and return the error at once.  Nobody will
\* read partials, the workers go on by themselves.
Fail ==
  /\ reader = "scanning" /\ lineNumber < Len(file) /\ file[NextLine] = "oversized"
  /\ reader' = "returned"
  /\ result' = [status |-> "failed"]
  /\ UNCHANGED <<cfg, lineNumber, sent, jobs, partials, worker>>

\* Mutation: the reader does not wait for the workers.
ReduceWithoutWaiting ==
  LET sum == FoldSeq(Merged, Nothing, partials) IN
    /\ reader = "waiting"
    /\ reader' = "returned"
    /\ result' = IF sum.total = 0 THEN [status |-> "empty"]
                                  ELSE [status |-> "ok", summary |-> Sorted(sum)]
    /\ UNCHANGED <<cfg, lineNumber, sent, jobs, partials, worker>>

\* wg.Wait returns: add up the partials in the order they arrived, and sort.
Reduce ==
  LET sum == FoldSeq(Merged, Nothing, partials) IN
    /\ reader = "waiting"
    /\ \A w \in Workers : worker[w].ended
    /\ reader' = "returned"
    /\ result' = IF sum.total = 0 THEN [status |-> "empty"]
                                  ELSE [status |-> "ok", summary |-> Sorted(sum)]
    /\ UNCHANGED <<cfg, lineNumber, sent, jobs, partials, worker>>

Reader == SkipHeader \/ Send \/ CloseJobs \/ Fail \/ Reduce

-----------------------------------------------------------------------------
(***************************************************************************)
(* A worker.                                                               *)
(***************************************************************************)

Closed == reader \in {"waiting", "returned"}

\* Receive a row, parse it, count it.
Work(w) ==
  /\ ~worker[w].ended
  /\ jobs # <<>>
  /\ worker' = [worker EXCEPT ![w].partial = Merged(@, Parsed(Head(jobs)))]
  /\ jobs' = Tail(jobs)
  /\ UNCHANGED <<cfg, reader, lineNumber, sent, partials, result>>

\* Mutation: partials has a place less than there are workers.
EndOneCellShort(w) ==
  /\ ~worker[w].ended
  /\ jobs = <<>> /\ Closed
  /\ Len(partials) < Threads - 1
  /\ partials' = Append(partials, worker[w].partial)
  /\ worker' = [worker EXCEPT ![w].ended = TRUE]
  /\ UNCHANGED <<cfg, reader, lineNumber, sent, jobs, result>>

\* jobs is closed and empty: partials <- p, and wg.Done.
End(w) ==
  /\ ~worker[w].ended
  /\ jobs = <<>> /\ Closed
  /\ Len(partials) < Threads
  /\ partials' = Append(partials, worker[w].partial)
  /\ worker' = [worker EXCEPT ![w].ended = TRUE]
  /\ UNCHANGED <<cfg, reader, lineNumber, sent, jobs, result>>

Worker(w) == Work(w) \/ End(w)

Next == Reader \/ \E w \in Workers : Worker(w)

-----------------------------------------------------------------------------
(***************************************************************************)
(* Reference: the same file read by one loop.                              *)
(***************************************************************************)

FirstRow == IF file # <<>> /\ file[1] = "header" THEN 2 ELSE 1

\* The rows within the limit.
Wanted ==
  {n \in FirstRow..Len(file) : limit > 0 => n < FirstRow + limit}

\* The scanner reads the line after the last wanted one before it looks at the
\* limit, and an oversized line fails there too.
Readable == \A n \in 1..Len(file) :
  file[n] = "oversized" => limit > 0 /\ n > FirstRow + limit

Reference ==
  [total |-> Cardinality(Wanted),
   discarded |-> [r \in Reasons |->
                    Cardinality({n \in Wanted : Fault(file[n]) = r})],
   records |-> Ascending({n \in Wanted : file[n] = "valid"})]

\* Whatever the number of workers and the order in which they receive rows and
\* end, a load returns the records and the counts of the sequential reading,
\* in file order: none lost, none twice, and an unreadable file is never taken
\* for a shorter one.
SameAsSequential ==
  /\ result.status = "ok" => Readable /\ result.summary = Reference
  /\ result.status = "empty" => Readable /\ Wanted = {}
  /\ result.status = "failed" => ~Readable

=============================================================================
