--------------------------- MODULE MCBundleStore ---------------------------
(***************************************************************************)
(* Three builds that share what real bundles share: the second adds a      *)
(* target side to the first, and the third indexes the same texts with     *)
(* other settings.                                                         *)
(***************************************************************************)
EXTENDS BundleStore, TLC

CONSTANTS s1, s2, l1, src, tgt, broken, noText, anyConfig,
          nothing, garbage, missing, isDamaged, refused

Settings(mode, caps) ==
  [normalization |-> "nfc", similarity |-> "jaccard", mode |-> mode, caps |-> caps]

ExactSettings == Settings("native_exact", 1)
FastSettings == Settings("native_fast", 1)

SourceOnly == [src |-> src, tgt |-> noText, config |-> ExactSettings]
BothSides == [src |-> src, tgt |-> tgt, config |-> ExactSettings]
Fast == [src |-> src, tgt |-> tgt, config |-> FastSettings]
Broken == [src |-> broken, tgt |-> noText, config |-> ExactSettings]

ThreeBuilds == {SourceOnly, BothSides, Fast}
BrokenBuilds == {SourceOnly, Broken}

SaverSymmetry == Permutations(Savers)

AutoOnly == {Settings("auto", 1)}
TwoRequests == {Settings("auto", 1), Settings("native_fast", 2)}
=============================================================================
