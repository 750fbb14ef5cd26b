-------------------------- MODULE MCBookingPayment --------------------------
(***************************************************************************)
(* Instances of BookingPayment for TLC.                                    *)
(***************************************************************************)
EXTENDS BookingPayment, TLC

Symmetry == Permutations(Intents) \cup Permutations(Users)
=============================================================================
