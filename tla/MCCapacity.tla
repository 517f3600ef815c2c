----------------------------- MODULE MCCapacity -----------------------------
(* Capacity on a small volume group, with the parameters of the storage
   classes under examples/ and neighbours of them. *)
EXTENDS Capacity

P(type) ==
  [type |-> type, stripes |-> Absent, mirrors |-> Absent, nosync |-> Absent,
   other |-> Absent]

ValidParams ==
  { P(Absent), P("linear"), [P("linear") EXCEPT !.stripes = 2],
    P("raid1"), [P("raid1") EXCEPT !.mirrors = 1, !.nosync = "yes"],
    P("raid5"), [P("raid5") EXCEPT !.stripes = 2],
    P("raid6"), [P("raid6") EXCEPT !.stripes = 2], P("raid10"),
    [P("raid10") EXCEPT !.stripes = 2, !.nosync = "yes", !.other = "ignored"] }

RefusedParams ==
  { P("raid0"), [P("raid1") EXCEPT !.mirrors = 0], [P("linear") EXCEPT !.nosync = "yes"],
    [P(Absent) EXCEPT !.stripes = 2], [P("raid10") EXCEPT !.mirrors = 2],
    [P("linear") EXCEPT !.other = "unexpected"] }

AllSizes == {0, 4, 5, 16, Absent}
AllParams == ValidParams \cup RefusedParams
MirrorParams == { P("linear"), P("raid1") }
StripedParams == { P("linear"), [P("linear") EXCEPT !.stripes = 2] }
ThreeWayMirror == { [P("raid1") EXCEPT !.mirrors = 2] }
=============================================================================
