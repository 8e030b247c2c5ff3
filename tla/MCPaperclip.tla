----------------------------- MODULE MCPaperclip -----------------------------
(***************************************************************************)
(* Small instances of PaperclipBridge: revisions r1, r2 of one issue;      *)
(* helpers h1, h2 for r1 and r2, and h3, a duplicate of h1.                *)
(***************************************************************************)
EXTENDS PaperclipBridge, TLC

CONSTANTS r1, r2, h1, h2, h3

OneIssue == [r \in Revision |-> "issue"]

OneEach == [h \in Helper |-> IF h = h2 THEN r2 ELSE r1]

\* The revisions are interchangeable, each with its helper.
PairSymmetry ==
  {p \in Permutations({r1, r2, h1, h2}) : {<<p[h1], p[r1]>>, <<p[h2], p[r2]>>} = {<<h1, r1>>, <<h2, r2>>}}
=============================================================================
