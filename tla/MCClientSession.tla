-------------------------- MODULE MCClientSession --------------------------
(***************************************************************************)
(* A small instance of ClientSession for TLC.                              *)
(***************************************************************************)
EXTENDS ClientSession

CONSTANTS t1, t2, viewer, reviewer

As(role, active) == [active |-> active, role |-> role]
MCSeed == [u \in Users |-> IF u = viewer THEN As("viewer", TRUE) ELSE As("reviewer", TRUE)]

\* The viewer's account stays; the other is a reviewer's or is removed.
MCAccounts ==
  [u \in Users |-> IF u = viewer THEN {} ELSE {As("reviewer", FALSE)}]
=============================================================================
