--------------------------- MODULE MCCommunication ---------------------------
(* TLC's instance of Communication: delays in the proportions of the code's, *)
(* a pass of five polls, the last of which runs over its deadline.           *)
EXTENDS Communication
=============================================================================
