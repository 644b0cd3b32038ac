---------------------------- MODULE MCJsonViewer ----------------------------
(***************************************************************************)
(* {"parts": [1, 2], "metadata": {}}                                       *)
(***************************************************************************)
EXTENDS JsonViewer

Scalar      == [scalar |-> TRUE,  items |-> <<>>]
Group(items) == [scalar |-> FALSE, items |-> items]

MCValue == Group(<<Group(<<Scalar, Scalar>>), Group(<<>>)>>)
=============================================================================
