------------------------------ MODULE MC_Waker ------------------------------
(***************************************************************************)
(* Three wakees, as many as NewTest expects and each wakeFunc awaits, and   *)
(* three calls of wakeFunc: the first after the init rendezvous, the      *)
(* later ones with helpers of the previous round still in flight.         *)
(***************************************************************************)
EXTENDS Waker

MCWakees == {"s1", "s2", "s3"}
====
