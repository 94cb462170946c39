--------------------------- MODULE MCScanStream ---------------------------
(* Small scans for TLC: several segments with an empty one among them, row  *)
(* limits that fall inside and between batches, an empty split, a limit of  *)
(* zero, and enough batches to fill both channels and both hands.           *)
EXTENDS ScanStream

MkPlan(ends, limit, batchSize, needsWarmup, needsDocument) ==
    [ends |-> ends, limit |-> limit, batchSize |-> batchSize,
     needsWarmup |-> needsWarmup, needsDocument |-> needsDocument]

Unlimited == 99

MCPlans ==
    { MkPlan(<<8>>, Unlimited, 1, FALSE, FALSE),
      MkPlan(<<2, 2, 5>>, Unlimited, 2, FALSE, FALSE),
      MkPlan(<<3, 6>>, 4, 2, TRUE, TRUE),
      MkPlan(<<2, 4>>, 2, 2, FALSE, TRUE),
      MkPlan(<<1, 2, 3>>, Unlimited, 1, FALSE, TRUE),
      MkPlan(<<>>, Unlimited, 2, TRUE, FALSE),
      MkPlan(<<3>>, 0, 2, FALSE, FALSE) }
=============================================================================
