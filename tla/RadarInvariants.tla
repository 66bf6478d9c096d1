--------------------------- MODULE RadarInvariants ---------------------------
(***************************************************************************)
(* What makes the invariants of Radar inductive.  TLC checks these on its  *)
(* instances; RadarProofs proves them for every value of the constants.    *)
(***************************************************************************)
EXTENDS Radar

\* A poll that works has a company; a free slot has none.
SlotsConsistent ==
  \A p \in Slots : IF Working(p) THEN poll[p].co \in Companies
                                 ELSE poll[p] = IdlePoll

\* A promotion in flight has a posting.
RequestsConsistent ==
  \A r \in Requests : req[r].stage = "structuring" =>
                        req[r].co \in Companies /\ req[r].x \in Ids

TypeInv == TypeOK /\ SlotsConsistent /\ RequestsConsistent

\* A running poll's claim is on the row, as old as the poll, and no older than
\* a poll gets.
HeldClaims ==
  \A p \in Slots :
    Working(p) /\ ~poll[p].orphan =>
      claimAge[poll[p].co] = poll[p].age /\ poll[p].age <= PollDeadline

LeaseInv == HeldClaims /\ ExclusiveClaim

\* A session that holds rows which are gone knows it will not find them.
HeldRows ==
  \A p \in Slots : Working(p) /\ ~poll[p].orphan =>
    work[p].rows \ work[p].lost \subseteq Present(poll[p].co)

RequestedRows ==
  \A r \in Requests : req[r].stage = "structuring" /\ ~req[r].lost =>
    posting[req[r].co][req[r].x] # "none"

RowsInv == HeldRows /\ RequestedRows

\* Whatever a running poll or a promotion believes of the database - its claim,
\* its rows - is true of the database now.  poller.py:58-82, :173-218,
\* promote.py:32-90.
BeliefsHold == TypeInv /\ LeaseInv /\ RowsInv
=============================================================================
