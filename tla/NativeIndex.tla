---------------------------- MODULE NativeIndex ----------------------------
(***************************************************************************)
(* The native n-gram index: built document by document, written out,       *)
(* possibly damaged, and read back through the checks that decide whether  *)
(* queries may run on it.                                                  *)
(*                                                                         *)
(* Abstractions.  A text is the sequence of its characters.  The           *)
(* fingerprint of a text is the text itself (128 bits of BLAKE3).  A Vec   *)
(* indexed by document or n-gram number is a function on 0..n-1; the lists *)
(* it holds keep their order.  The n-grams a document brings get           *)
(* consecutive numbers, in an order nothing depends on.                    *)
(***************************************************************************)
EXTENDS Integers, FiniteSets, Sequences

CONSTANTS
  Corpora,    \* training corpora: documents numbered from 0 to their texts
  Settings,   \* arguments of a build besides the corpus
  Damages,    \* lists a damaged index may hold in place of one of its own
  DocIdMax,   \* DocId::MAX
  GramIdMax,  \* GramId::MAX
  None        \* no index

ASSUME LimitAssumption == DocIdMax \in Nat /\ GramIdMax \in Nat

VARIABLES
  lines,    \* the corpus of this build
  settings, \* ... and its settings
  phase,    \* new, building, built, failed, stored, damaged, loaded, rejected
  index,    \* the index as far as it is built
  stored,   \* the serialised index
  loaded    \* the index queries run on

vars == <<lines, settings, phase, index, stored, loaded>>
----------------------------------------------------------------------------
Values(f) == {f[x] : x \in DOMAIN f}

Count(vec) == Cardinality(DOMAIN vec)

IsVec(vec) == IsFiniteSet(DOMAIN vec) /\ DOMAIN vec = 0..(Count(vec) - 1)

Extend(f, h) ==
  [x \in DOMAIN f \cup DOMAIN h |-> IF x \in DOMAIN f THEN f[x] ELSE h[x]]

Increasing(list) ==
  \A i, j \in DOMAIN list : i < j => list[i] < list[j]

Ascending(S) == CHOOSE list \in [1..Cardinality(S) -> S] : Increasing(list)

Sort(list) ==
  CHOOSE sorted \in [DOMAIN list -> Values(list)] :
    /\ \A i, j \in DOMAIN list : i < j => sorted[i] <= sorted[j]
    /\ \A x \in Values(list) : Cardinality({i \in DOMAIN list : sorted[i] = x})
                                 = Cardinality({i \in DOMAIN list : list[i] = x})

(* The character n-grams of a text; one too short for any is its own.      *)
Grams(text, orders) ==
  IF text = <<>> THEN {}
  ELSE IF \A n \in orders : Len(text) < n THEN {text}
  ELSE UNION {{SubSeq(text, i, i + n - 1) : i \in 1..(Len(text) - n + 1)} : n \in orders}

(* Both a build and a load check these.                                    *)
SettingsOK(s) ==
  /\ s.orders # {} /\ 0 \notin s.orders
  /\ s.mode \in {"exact", "fast"}
  /\ 0 \notin {s.candidate_gram_limit, s.posting_limit, s.max_candidates, s.rerank_limit}
  /\ s.rerank_limit <= s.max_candidates

(* A corpus is a Vec of texts, and n-gram orders are finitely many.        *)
ASSUME CorpusAssumption ==
  /\ \A corpus \in Corpora :
       IsVec(corpus) /\ \A d \in DOMAIN corpus : corpus[d] \in Seq(Values(corpus[d]))
  /\ \A s \in Settings : s.orders \subseteq Nat /\ IsFiniteSet(s.orders)

EmptyIndex ==
  [gram_sets |-> <<>>, postings |-> <<>>, gram_to_id |-> <<>>, exact_map |-> <<>>]
----------------------------------------------------------------------------
Init ==
  /\ lines \in Corpora
  /\ settings \in Settings
  /\ phase = "new"
  /\ index = EmptyIndex
  /\ stored = None
  /\ loaded = None

Start ==
  /\ phase = "new"
  /\ phase' = IF SettingsOK(settings) /\ Count(lines) <= DocIdMax
              THEN "building" ELSE "failed"
  /\ UNCHANGED <<lines, settings, index, stored, loaded>>

Document == Count(index.gram_sets)

New == Grams(lines[Document], settings.orders) \ DOMAIN index.gram_to_id

(* (mutant) a text seen again overwrites its entry of the exact-match map   *)
RememberLast(map, text, d) == Extend([t \in {text} |-> d], map)

(* `exact_map.entry(text).or_insert(d)`                                     *)
Remember(map, text, d) == Extend(map, [t \in {text} |-> d])

(* The next document, given the number of every n-gram it brings.          *)
WithDocument(ids) ==
  LET text == lines[Document]
      numbers == Extend(index.gram_to_id, ids)
      grams == {numbers[g] : g \in Grams(text, settings.orders)}
  IN [gram_sets  |-> Extend(index.gram_sets, [d \in {Document} |-> Ascending(grams)]),
      postings   |-> [g \in Values(numbers) |->
                        (IF g \in DOMAIN index.postings THEN index.postings[g] ELSE <<>>)
                          \o (IF g \in grams THEN <<Document>> ELSE <<>>)],
      gram_to_id |-> numbers,
      exact_map  |-> Remember(index.exact_map, text, Document)]

(* (mutant) only the first number a document would take is looked at        *)
TooManyGramsBefore == New # {} /\ Count(index.postings) > GramIdMax

TooManyGrams == New # {} /\ Count(index.postings) + Cardinality(New) - 1 > GramIdMax

AddDocument ==
  /\ phase = "building" /\ Document < Count(lines)
  /\ ~TooManyGrams
  /\ LET first == Count(index.postings)
         last  == first + Cardinality(New) - 1
     IN \E ids \in [New -> first..last] :
          /\ Values(ids) = first..last
          /\ index' = WithDocument(ids)
  /\ UNCHANGED <<lines, settings, phase, stored, loaded>>

RefuseDocument ==
  /\ phase = "building" /\ Document < Count(lines)
  /\ TooManyGrams
  /\ phase' = "failed"
  /\ UNCHANGED <<lines, settings, index, stored, loaded>>

FinishBuild ==
  /\ phase = "building" /\ Document = Count(lines)
  /\ phase' = "built"
  /\ index' = [index EXCEPT !.postings = [g \in DOMAIN @ |-> Sort(@[g])]]
  /\ UNCHANGED <<lines, settings, stored, loaded>>

Save ==
  /\ phase = "built"
  /\ phase' = "stored"
  /\ stored' = index
  /\ UNCHANGED <<lines, settings, index, loaded>>

(* One entry of the stored index is not what was written.                  *)
Damage ==
  /\ phase = "stored"
  /\ phase' = "damaged"
  /\ \/ \E d \in DOMAIN stored.gram_sets, list \in Damages :
          stored' = [stored EXCEPT !.gram_sets[d] = list]
     \/ \E g \in DOMAIN stored.postings, list \in Damages :
          stored' = [stored EXCEPT !.postings[g] = list]
     \/ \E g \in DOMAIN stored.gram_to_id, id \in 0..Count(stored.postings) :
          stored' = [stored EXCEPT !.gram_to_id[g] = id]
     \/ \E t \in DOMAIN stored.exact_map, d \in 0..Count(stored.gram_sets) :
          stored' = [stored EXCEPT !.exact_map[t] = d]
  /\ UNCHANGED <<lines, settings, index, loaded>>

(* Decoding accepts lists of unsigned numbers only.                        *)
Decodes(idx) ==
  /\ IsVec(idx.gram_sets) /\ IsVec(idx.postings)
  /\ \A d \in DOMAIN idx.gram_sets : idx.gram_sets[d] \in Seq(Nat)
  /\ \A g \in DOMAIN idx.postings : idx.postings[g] \in Seq(Nat)

GramMapOK(idx) ==
  /\ Cardinality(DOMAIN idx.gram_to_id) = Count(idx.postings)
  /\ \A g \in DOMAIN idx.gram_to_id : g # <<>> /\ idx.gram_to_id[g] \in DOMAIN idx.postings
  /\ \A g, h \in DOMAIN idx.gram_to_id : idx.gram_to_id[g] = idx.gram_to_id[h] => g = h
  /\ Values(idx.gram_to_id) = DOMAIN idx.postings

ExactMapOK(idx) ==
  /\ Cardinality(DOMAIN idx.exact_map) <= Count(idx.gram_sets)
  /\ Values(idx.exact_map) \subseteq DOMAIN idx.gram_sets

GramSetsOK(idx) ==
  \A d \in DOMAIN idx.gram_sets :
    /\ Increasing(idx.gram_sets[d])
    /\ Values(idx.gram_sets[d]) \subseteq DOMAIN idx.postings

Holders(idx, g) == {d \in DOMAIN idx.gram_sets : g \in Values(idx.gram_sets[d])}

(* (mutant) posting lists are not compared with the documents' n-grams      *)
PostingsOKUncounted(idx) ==
  \A g \in DOMAIN idx.postings :
    /\ Increasing(idx.postings[g])
    /\ Values(idx.postings[g]) \subseteq DOMAIN idx.gram_sets
    /\ \A d \in Values(idx.postings[g]) : g \in Values(idx.gram_sets[d])

PostingsOK(idx) ==
  \A g \in DOMAIN idx.postings :
    /\ Increasing(idx.postings[g])
    /\ Len(idx.postings[g]) = Cardinality(Holders(idx, g))
    /\ Values(idx.postings[g]) \subseteq DOMAIN idx.gram_sets
    /\ \A d \in Values(idx.postings[g]) : g \in Values(idx.gram_sets[d])

Accepted(idx) ==
  /\ SettingsOK(settings)
  /\ Count(idx.gram_sets) <= DocIdMax
  /\ Count(idx.postings) <= GramIdMax
  /\ GramMapOK(idx)
  /\ ExactMapOK(idx)
  /\ GramSetsOK(idx)
  /\ PostingsOK(idx)

Load ==
  /\ phase \in {"stored", "damaged"}
  /\ IF Decodes(stored) /\ Accepted(stored)
     THEN phase' = "loaded" /\ loaded' = stored
     ELSE phase' = "rejected" /\ UNCHANGED loaded
  /\ UNCHANGED <<lines, settings, index, stored>>

Next ==
  \/ Start \/ AddDocument \/ RefuseDocument \/ FinishBuild
  \/ Save \/ Damage \/ Load

Spec == Init /\ [][Next]_vars
----------------------------------------------------------------------------
(* What exact retrieval takes for granted of an index: sorted lists, and   *)
(* postings that hold exactly the documents of each n-gram, so that no     *)
(* document sharing an n-gram with a query can be overlooked.              *)
QueryContract(idx) ==
  /\ \A d \in DOMAIN idx.gram_sets :
       /\ Increasing(idx.gram_sets[d])
       /\ Values(idx.gram_sets[d]) \subseteq DOMAIN idx.postings
  /\ \A g \in DOMAIN idx.postings :
       /\ Increasing(idx.postings[g])
       /\ Values(idx.postings[g]) = Holders(idx, g)

(* Queries run only on an index whose two tables are inverse to each       *)
(* other, whichever entry of the stored one was damaged                    *)
(* (NativeNgramIndex::from_bytes, validate_invariants).                    *)
LoadedIsConsistent == loaded # None => QueryContract(loaded)

(* An index that was built and stored undamaged loads, with one exception: *)
(* a build may give out every number an n-gram can have, and an index that *)
(* holds that many n-grams, never more, is one a load takes for too large  *)
(* (NativeNgramIndex::new, validate_invariants).                           *)
StoredIndexLoads ==
  phase = "stored" =>
    /\ Count(stored.postings) <= GramIdMax + 1
    /\ Decodes(stored)
    /\ Accepted(stored) <=> Count(stored.postings) <= GramIdMax

(* While a corpus is read, the exact-match map names the first document of *)
(* every text read so far, which has precisely the n-grams of that text:   *)
(* the shortcut of a query that finds its text returns the lowest index    *)
(* and a true score of 1 (NativeNgramIndex::new, query_topk_with_mode).    *)
FirstDocumentWins ==
  LET read == {d \in DOMAIN lines : d < Document} IN
  /\ DOMAIN index.exact_map = {lines[d] : d \in read}
  /\ \A d \in read :
       LET hit == index.exact_map[lines[d]] IN
       /\ hit <= d /\ lines[hit] = lines[d]
       /\ Values(index.gram_sets[hit]) =
            {index.gram_to_id[g] : g \in Grams(lines[d], settings.orders)}
=============================================================================
