--------------------------- MODULE MCCommandLine ---------------------------
(***************************************************************************)
(* Segment files of three segments over two of the bins: in order, out of  *)
(* order, with the two sides in different orders, and with a segment       *)
(* twice.  Two systems share a file name and one has none.                 *)
(*                                                                         *)
(* Approximate runs over three segments that miss the neighbour of one,    *)
(* with and without references, and over twenty, of which one or two have  *)
(* another neighbour in the same bin, on the other side of a threshold     *)
(* that shares its name with a larger one, or another target neighbour     *)
(* only.                                                                   *)
(***************************************************************************)
EXTENDS CommandLine, FiniteSets

CONSTANTS none, torn, tm, a, a_too, b, dots, auto

Row(i, bin) == [index |-> i, bin |-> bin]
TmRow(i) == [index |-> i]

InOrder ==
  [exposures |-> <<Row(0, "near"), Row(1, "far"), Row(2, "far")>>,
   tm |-> <<TmRow(0), TmRow(1), TmRow(2)>>]
OutOfOrder ==
  [exposures |-> <<Row(2, "near"), Row(0, "far"), Row(1, "near")>>,
   tm |-> <<TmRow(1), TmRow(2), TmRow(0)>>]
Twice == [InOrder EXCEPT !.exposures = <<Row(0, "near"), Row(2, "far"), Row(2, "far")>>]

SomeArtifacts == {InOrder, OutOfOrder, Twice}

SomeSystems == {a, a_too, b, dots}
SomeOrders == {<<a, b>>, <<a, b, a_too>>, <<b, dots>>, <<a, a>>, <<b, tm>>}

MCStem(name) == IF name = dots THEN none ELSE IF name = a_too THEN a ELSE name

TwoMetrics == <<"bleu", "chrf">>

Measured(i, nn, score, refs) ==
  [index |-> i, nn |-> nn, score |-> score,
   bin |-> IF score >= 700 THEN "near" ELSE IF score >= 300 THEN "medium" ELSE "far",
   target |-> IF refs THEN <<nn, 0>> ELSE none,
   pair |-> IF refs THEN score - 52 ELSE none,
   tm |-> IF score >= 700 THEN i ELSE nn]

(* Segment i has neighbour i with score 900; the run misses some of them.  *)
Corpus(n, missed, score, refs) ==
  [exact |-> [m \in 1..n |-> Measured(m - 1, m - 1, 900, refs)],
   approx |-> [m \in 1..n |-> IF m - 1 \in missed THEN Measured(m - 1, n, score, refs)
                              ELSE Measured(m - 1, m - 1, 900, refs)],
   target |-> refs, refs |-> refs]

(* The run misses the target neighbours of some segments only.             *)
TargetMissed(corpus, missed) ==
  [corpus EXCEPT !.approx =
     [m \in DOMAIN @ |-> IF m - 1 \in missed THEN [@[m] EXCEPT !.target = <<Len(@), 1>>]
                         ELSE @[m]]]

Request(outputs, corpus, approx, sample, allow) ==
  [outputs |-> outputs, corpus |-> corpus, approx |-> approx, sample |-> sample,
   allow |-> allow, clash |-> FALSE]

FullScore == <<"tm", "report", "segments", "text">>
PlainAudit == <<"report", "segments">>
TmBaseline == <<"tm">>

SomeRequests ==
  {Request(FullScore, Corpus(3, missed, 200, TRUE), TRUE, 2, allow) :
     missed \in {{}, {1}}, allow \in BOOLEAN}
    \cup {Request(PlainAudit, Corpus(3, missed, 200, FALSE), TRUE, 2, FALSE) : missed \in {{}, {1}}}
    \cup {Request(PlainAudit, Corpus(20, missed, 897, TRUE), TRUE, 20, FALSE) :
            missed \in {{3}, {3, 4}}}
    \cup {Request(PlainAudit, TargetMissed(Corpus(20, {}, 200, TRUE), missed), TRUE, 20, FALSE) :
            missed \in {{3}, {3, 4}}}
    \cup {Request(PlainAudit, Corpus(3, {}, 200, TRUE), FALSE, sample, FALSE) : sample \in {0, 2}}
    \cup {Request(TmBaseline, Corpus(3, {1}, 200, FALSE), TRUE, 2, TRUE)}
    \cup {[Request(PlainAudit, Corpus(3, {1}, 200, TRUE), TRUE, 0, FALSE) EXCEPT !.clash = TRUE]}

(* 0.846 and 0.85 have one name.                                           *)
SomeThresholds == <<700, 846, 850>>
TwoDecimals(t) == (t + 5) \div 10

(* The share of right translations.                                        *)
MCBleu(hyps, sample) ==
  LET right == {n \in DOMAIN sample : hyps[n] = sample[n]} IN
  (100 * Cardinality(right)) \div Len(sample)

SomeThreads == {auto, 0, 1, 4}
=============================================================================
