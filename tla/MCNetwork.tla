----------------------------- MODULE MCNetwork -----------------------------
(* Module Network for TLC: one request, two responses, one of them with a     *)
(* block that is too large to be received.                                    *)
EXTENDS Network

CONSTANTS i1, r1, r2, root, selector, name1, name2, v1, v2, prefix, data1, data2

Extension(name, data) == [name |-> name, data |-> data]
Block(data)           == [cid |-> Sum(prefix, data), data |-> data]

MCRequests ==
  {NewRequest(i1, root, selector, 0, <<Extension(name1, v1), Extension(name2, Nil)>>)}

MCUpdates == {<<Extension(name1, v1), Extension(name1, v2)>>}

MCResumed == <<Extension(name2, v2)>>

MCTransactions ==
  {[id |-> r1, block |-> Block(data1), sendBlock |-> TRUE,
    extension |-> Extension(name1, v1), status |-> "RequestCompletedFull"],
   [id |-> r2, block |-> Block(data2), sendBlock |-> TRUE,
    extension |-> Nil, status |-> Nil]}

MCTooLarge == {Sum(prefix, data2)}
=============================================================================
