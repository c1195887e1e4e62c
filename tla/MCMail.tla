------------------------------- MODULE MCMail -------------------------------
(* Instances of MailDelivery for TLC.                                       *)
EXTENDS MailDelivery

CONSTANTS w1, w2, k1, t1, t2, t3
=============================================================================
