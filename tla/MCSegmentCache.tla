--------------------------- MODULE MCSegmentCache ---------------------------
(***************************************************************************)
(* Two training corpora that give the first segment of two test sets the   *)
(* same translation but other exposures, so that a file cut short looks    *)
(* like a whole one; settings that differ in one section at a time.        *)
(***************************************************************************)
EXTENDS SegmentCache

CONSTANTS none, torn, empty, hello, world, cardinal, old, long, short, r1, r2, rs

MCSize(test) == IF test = long THEN 2 ELSE 1
MCRefSize(refs) == IF refs = rs THEN 1 ELSE 2

Input(train, target, test, refs) ==
  [train |-> train, target |-> target, test |-> test, refs |-> refs]

(* Fast retrieval misses the best source of segment 1, the more so the     *)
(* tighter its limits; the best pair is not always among the candidates.   *)
MCMeasured(input, index, query, i) ==
  LET fast == index.resolved = "native_fast" IN
  [score |-> IF i = 0 THEN IF input.train = old THEN 70 ELSE 80
             ELSE IF fast THEN 2 * index.caps ELSE 60 + index.text,
   exact |-> FALSE,
   pair |-> IF i = 0 THEN 65 ELSE IF query = 1 THEN 40 ELSE 50,
   best_pair |-> IF i = 0 THEN 75 ELSE 55,
   tm |-> IF i = 0 THEN hello ELSE world]

Exact == [mode |-> "auto", retrieval |-> "exact", allow_approximate |-> FALSE,
          exact_thresholds |-> FALSE, text |-> 0, caps |-> 10, query |-> 1,
          far |-> 30, near |-> 70, leak |-> {45, 70}]
Approx == [Exact EXCEPT !.retrieval = "approx", !.allow_approximate = TRUE]

(* Settings that differ in one thing a cache or a bundle is compared with, *)
(* or in the leak thresholds, which are not; the last three are refused    *)
(* before anything runs.                                                   *)
RunSettings ==
  {Exact, [Exact EXCEPT !.mode = "native_exact"], [Exact EXCEPT !.query = 2],
   [Exact EXCEPT !.leak = {50, 60}, !.exact_thresholds = TRUE],
   [Approx EXCEPT !.near = 75], [Approx EXCEPT !.caps = 20],
   [Approx EXCEPT !.exact_thresholds = TRUE],
   [Exact EXCEPT !.mode = "native_fast"], [Approx EXCEPT !.allow_approximate = FALSE]}
RunInputs == {Input(cardinal, TRUE, long, r1), Input(old, TRUE, short, rs)}

IndexInputs == {Input(cardinal, TRUE, long, r1)}

BackendSettings == {Exact, Approx}

LeakSettings == {[Exact EXCEPT !.exact_thresholds = TRUE],
                 [Exact EXCEPT !.exact_thresholds = TRUE, !.leak = {60}]}
=============================================================================
