----------------------------- MODULE MCGrooveFile -----------------------------
(***************************************************************************)
(* Instance of GrooveFile: two files of two packets, and a bounded number   *)
(* of calls, enough for a second save, a save_as, a crash and a reopening.  *)
(***************************************************************************)
EXTENDS GrooveFile, TLC

\* The inodes and the made-up names are interchangeable.
Alike == Permutations(Inode) \cup Permutations(Temp)

================================================================================
