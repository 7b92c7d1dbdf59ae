--------------------------- MODULE MCSoloModules ---------------------------
(* A small instance of SoloModules. *)
EXTENDS SoloModules, TLC

\* The two values the code tests for, and one it does not know.
MCOooValues == {0, 1, 2}

\* No order at all, the default, its neighbours, and the first that is too large.
MCOrders == {-1, 2, 3, 4, 11}

\* Negative, nothing, too few bytes, and enough.
MCKvNums == {-1, 0, 8, 16}

\* Shrinking to 0 exactly and past it, standing still, and growing.
MCStepSizes == {-20, -7, 0, 30}
=============================================================================
