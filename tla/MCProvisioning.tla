--------------------------- MODULE MCProvisioning ---------------------------
(* Provisioning on a volume group of three extents of two bytes. *)
EXTENDS Provisioning

CONSTANTS n1, n2, i1, i2, i3

Req(n, required, limit) ==
  [name |-> n, ranged |-> TRUE, required |-> required, limit |-> limit,
   params |-> "ok"]

\* One name asked for in two sizes, one that needs rounding, one whose range
\* holds no multiple of the extent size, one with no range, one that does not
\* fit next to the others, and two with parameters that are refused.
VariedReqs ==
  { Req(n1, 2, 0), Req(n1, 3, 4), Req(n2, 3, 3), Req(n2, 1, 2), Req(n2, 6, 0),
    [Req(n2, 0, 0) EXCEPT !.ranged = FALSE],
    [Req(n1, 2, 0) EXCEPT !.params = "unexpected"] }

\* Requests that fit together, one name again in two sizes.
FittingReqs == { Req(n1, 2, 0), Req(n1, 3, 4), Req(n2, 1, 2) }

\* One request.
SingleReq == { Req(n1, 2, 0) }
=============================================================================
