----------------------------- MODULE MCLifecycle -----------------------------
(* Lifecycle with one chip of each kind the bring-up tells apart: methods    *)
(* with and without DASH, magic packets, EEE+, buffer patch and D0 speed-up, *)
(* a revision without PHY code, and the wake events a board may support.     *)
EXTENDS Lifecycle

Model(mcfg, known, managed, dash, wol) ==
    [mcfg |-> mcfg, known |-> known, managed |-> managed, DASH |-> dash,
     wol_opts |-> wol]

MCModels ==
    {Model(2, TRUE, FALSE, FALSE, {"phy"}),
     Model(3, TRUE, TRUE, FALSE, {"magic"}),
     Model(8, TRUE, TRUE, TRUE, {"phy", "magic"}),
     Model(11, FALSE, FALSE, FALSE, {"phy", "magic"}),
     Model(10, TRUE, FALSE, FALSE, {"magic"}),
     Model(12, TRUE, FALSE, FALSE, {}),
     Model(32, TRUE, FALSE, FALSE, {"phy", "magic"})}
=============================================================================
