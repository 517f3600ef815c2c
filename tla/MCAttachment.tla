---------------------------- MODULE MCAttachment ----------------------------
(* Attachment with two nodes, the first of which is the controller's host. *)
EXTENDS Attachment

CONSTANTS v1, v2, n1, n2
=============================================================================
