--------------------------- MODULE MCMessageQueue ---------------------------
(***************************************************************************)
(* A small instance of the message queue: one response sends a block, the  *)
(* other refers to it as a duplicate and may add extension data.           *)
(***************************************************************************)
EXTENDS MessageQueue

CONSTANTS r1, r2, b1

MCRequests == {r1, r2}

MCBlocks == {b1}

MCBlockSize == [b \in MCBlocks |-> 1]

Send(b) == [link |-> b, sendBlock |-> TRUE, extension |-> 0, adds |-> TRUE]

\* A block another response already sends: only the link, and perhaps extension data.
Duplicate(b, extension) ==
  [link |-> b, sendBlock |-> FALSE, extension |-> extension, adds |-> TRUE]

MCOperations ==
  [r \in MCRequests |-> IF r = r1 THEN {Send(b1)} ELSE {Duplicate(b1, 0), Duplicate(b1, 1)}]

MCMaxOps == [r \in MCRequests |-> IF r = r1 THEN 2 ELSE 1]
=============================================================================
