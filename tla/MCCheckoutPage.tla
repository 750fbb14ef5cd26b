--------------------------- MODULE MCCheckoutPage ---------------------------
(***************************************************************************)
(* CheckoutPage for TLC: the client of one key opens the page; the other   *)
(* keys are further visits of the page or belong to other clients.         *)
(* Requests are compared for equality only, so they are sent in one order; *)
(* no step that is fair sends one.                                         *)
(***************************************************************************)
EXTENDS CheckoutPage

CONSTANTS PageKey, FirstRequest

MCInit == PageInit /\ visit[PageKey] = "none"

MCSpec == MCInit /\ [][PageNext]_pageVars /\ PageFairness

SentInOrder == (\E r \in Requests : pc'[r] # "idle") => pc'[FirstRequest] # "idle"
=============================================================================
