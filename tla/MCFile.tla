------------------------------- MODULE MCFile -------------------------------
(***************************************************************************)
(* Small instances of FileRepository.                                      *)
(***************************************************************************)
EXTENDS FileRepository, TLC

Symmetry == Permutations(Clients) \cup Permutations(Keys \ Events)
=============================================================================
