------------------------------- MODULE MCRadar -------------------------------
(***************************************************************************)
(* Instances of Radar for TLC.                                             *)
(***************************************************************************)
EXTENDS RadarInvariants, TLC

CONSTANTS c1, c2, x1, x2, p1, p2, p3, r1, r2

OneCompany  == {c1}
TwoCompanies == {c1, c2}
OneId       == {x1}
TwoIds      == {x1, x2}
OneSlot     == {p1}
TwoSlots    == {p1, p2}
ThreeSlots  == {p1, p2, p3}
NoRequest   == {}
OneRequest  == {r1}

\* No property tells slots or requests apart, and none quantifies over them
\* temporally.
SlotSymmetry == Permutations(Slots) \cup Permutations(Requests)

\* Polls of the scheduler that overlap, for as long as they like.  Bound: a
\* history has one restart, or one change of the target while one poll runs, and after it
\* no polls that overlap.  A poll by hand, a pause, what users decide about postings and the
\* removal of the company are left to the other runs.
Undisturbed == crashes = 0 /\ target = 0
Alone == \A p, q \in Slots : Working(p) /\ Working(q) => p = q

Overlapping ==
  \/ Minute
  \/ Undisturbed /\ (Restart \/ (Alone /\ SetRadarTarget))
  \/ \E c \in Companies :
       \/ QueueDuePoll(c) \/ AddCompany(c) \/ SetStatus(c, "active")
       \/ \E o \in Origins :
            \/ RefuseClaim(c, o)
            \/ (Undisturbed \/ Idle = Slots) /\ \E p \in Slots : ClaimCompany(p, c, o)
  \/ \E p \in Slots : PollStep(p)

OverlapSpec == Init /\ [][Overlapping]_vars /\ Fairness
=============================================================================
