-------------------------- MODULE MCResponseAssembler --------------------------
(***************************************************************************)
(* Small instances of the response assembler; the responses and the links  *)
(* are interchangeable.                                                    *)
(***************************************************************************)
EXTENDS ResponseAssembler, TLC

MCSymmetry == Permutations(Requests) \union Permutations(Links)

=============================================================================
