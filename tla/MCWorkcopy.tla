----------------------------- MODULE MCWorkcopy -----------------------------
(* An instance of Workcopy: one file with one line, and room for a second file. *)
EXTENDS Workcopy

MCRoot == [p \in Paths |-> IF p = "f" THEN File(<<1>>, FALSE) ELSE Absent]

\* A scan beside few other things, or many other things without a scan.
MCCost == [edits |-> 2, shifts |-> 8, commits |-> 2, peer |-> 2, merges |-> 2, peerMerges |-> 2, scans |-> 6, ticks |-> 2,
           moves |-> 8]
=============================================================================
