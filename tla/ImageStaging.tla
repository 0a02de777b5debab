---------------------------- MODULE ImageStaging ----------------------------
(***************************************************************************)
(* What the update promises of an image: it is received whole, then read   *)
(* back, then handed to the bootloader, and it stays the same all the way. *)
(* It may be dropped at any time, but nothing that was not received is     *)
(* ever verified, and nothing that was not verified is handed over.  Once  *)
(* an erase has failed unheeded, nothing is promised any more.             *)
(***************************************************************************)
EXTENDS Sequences

CONSTANT Images

VARIABLES
  stage,  \* how far the image has come
  image   \* what it consists of

NoImage == <<>>

Init == stage = "empty" /\ image = NoImage

Receive == stage = "empty" /\ stage' = "received" /\ image' \in Images

Verify == stage = "received" /\ stage' = "verified" /\ UNCHANGED image

HandOver == stage = "verified" /\ stage' = "requested" /\ UNCHANGED image

\* another upload, a preparation, a verification that fails, a boot
Drop ==
  /\ stage \in {"received", "verified", "requested"}
  /\ stage' = "empty" /\ image' = NoImage

LoseTrust == stage' = "unknown" /\ image' = NoImage

Next == Receive \/ Verify \/ HandOver \/ Drop \/ LoseTrust

Spec == Init /\ [][Next]_<<stage, image>>
=============================================================================
