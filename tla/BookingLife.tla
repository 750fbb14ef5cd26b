----------------------------- MODULE BookingLife -----------------------------
(***************************************************************************)
(* What a booking is to the room inventory, once it is made: its rooms are *)
(* reserved, and are given back once if it expires before it is paid.      *)
(* Every other status is "settled"; one that is written after the booking  *)
(* expired is "overwritten".  RoomCheckout has bookings of this kind, and  *)
(* BookingPayment implements them.                                         *)
(***************************************************************************)
EXTENDS Integers

CONSTANT Bookings

VARIABLES
  stage,   \* of each booking
  rooms    \* how often booked_rooms counts its rooms

Stages == {"pending_payment", "settled", "expired", "overwritten"}

Init ==
  /\ stage = [b \in Bookings |-> "pending_payment"]
  /\ rooms = [b \in Bookings |-> 1]

Expire(b) ==
  /\ stage[b] = "pending_payment"
  /\ stage' = [stage EXCEPT ![b] = "expired"]
  /\ rooms' = [rooms EXCEPT ![b] = @ - 1]

Settle(b) ==
  /\ stage[b] \in {"pending_payment", "expired"}
  /\ stage' = [stage EXCEPT ![b] = IF @ = "expired" THEN "overwritten" ELSE "settled"]
  /\ UNCHANGED rooms

Next == \E b \in Bookings : Expire(b) \/ Settle(b)

Spec == Init /\ [][Next]_<<stage, rooms>>
=============================================================================
