-------------------------- MODULE MCReconciledLoader --------------------------
(***************************************************************************)
(* Small DAGs for the reconciled loader.  Both have a root and two          *)
(* branches that end in the same block.                                     *)
(***************************************************************************)
EXTENDS ReconciledLoader

CONSTANTS root, a, b, x

\* Every block of the DAG below the root is linked from the top of its parent.
UniformTree == {<<>>, <<1>>, <<1, 1>>, <<2>>, <<2, 1>>}

UniformLinkAt ==
  [p \in UniformTree |-> CASE p = <<>>  -> root
                           [] p = <<1>> -> a
                           [] p = <<2>> -> b
                           [] OTHER     -> x]

\* The link to b is nested in its parent: its path is longer than the one of a.
RaggedTree == {<<>>, <<1>>, <<2, 1>>}

RaggedLinkAt ==
  [p \in RaggedTree |-> CASE p = <<>>  -> root
                          [] p = <<1>> -> a
                          [] OTHER     -> b]

AllScenarios(links, most) ==
  {s \in [local : SUBSET links, remote : SUBSET links, pauses : 0..most] : root \in s.remote}

\* Any blocks on either side, but for the root at the peer, and up to two pauses.
MCScenarios == AllScenarios({root, a, b, x}, 2)

\* There is nothing in the local store and the request is not paused.
RaggedScenarios ==
  {s \in AllScenarios({root, a, b}, 0) : s.local = {}}

=============================================================================
