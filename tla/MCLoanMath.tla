----------------------------- MODULE MCLoanMath -----------------------------
(***************************************************************************)
(* An instance of ReplacementCosts for TLC.                                *)
(***************************************************************************)
EXTENDS ReplacementCosts

MCFeeRates == {<<0, 0>>, <<3000, 5000>>, <<3333, 6667>>}
MCUpfronts == {<<0, 0, 0>>, <<2500, 1, 0>>, <<0, 2, 1>>}
=============================================================================
