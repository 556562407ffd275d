------------------------------ MODULE MCPhase1 ------------------------------
(***************************************************************************)
(* Instances of Phase1 for TLC.                                            *)
(***************************************************************************)
EXTENDS Phase1

Kinds == {"header", "valid", "oversized"} \cup Reasons

Command(program, lines, w, limit) ==
  [program |-> program, lines |-> lines, workers |-> w, limit |-> limit]

Valid(n) == [i \in 1..n |-> "valid"]

\* Every file of at most four lines of the kinds that make a difference, read
\* by two workers.
Short == {Command("pc3", lines, 2, limit) :
            lines \in UNION {[1..n -> Kinds] : n \in 0..4}, limit \in 0..2}

\* Files longer than the 8 places that jobs has with two workers: the reader
\* blocks, and an oversized last line is found with rows still in the channel.
Row(n) == IF n % 3 = 0 THEN "missing_value" ELSE "valid"
Long == {Command("pc3", lines, 2, 0) : lines \in
           {[n \in 1..10 |-> Row(n)],
            [n \in 1..10 |-> IF n = 10 THEN "oversized" ELSE Row(n)],
            [n \in 1..10 |-> IF n = 1 THEN "header" ELSE Row(n)]}}

\* Other numbers of workers: none asked for; chunks of 2, 2 and 0 samples, and
\* of 2, 2 and 1; more workers than training samples.
Parallel == {Command("pc3", Valid(n), w, 0) :
               n \in 3..7, w \in {0, 3}} \cup {Command("pc3", Valid(4), 4, -1)}

Analyses == {Command("analysis", Valid(n), 2, 0) : n \in 1..4} \cup
            {Command("analysis", <<"missing_value">>, 1, 0),
             Command("analysis", <<"valid", "oversized">>, 1, 0)}

\* Three workers on the shortest files.
Shorter == {Command("pc3", lines, 3, limit) :
              lines \in UNION {[1..n -> Kinds] : n \in 0..3}, limit \in 0..2}

AllCommands == Short \cup Shorter \cup Long \cup Parallel \cup Analyses

\* A shuffle: the positions backwards.
Backwards(n) == [i \in 1..n |-> n + 1 - i]

=============================================================================
