----------------------------- MODULE MCLogSplit -----------------------------
(* A query of a few blocks through every deployment of the proxy.          *)
EXTENDS LogSplit

Site(edge, arc, has, list) == [edge |-> edge, arc |-> arc, has |-> has, list |-> list]

MCLogs == {0, 1, 3}
MCSites == {Site(TRUE, FALSE, {"wallet", "paid"}, {}),
            Site(TRUE, FALSE, {"wallet", "paid"}, {"w"}),
            Site(FALSE, FALSE, {"paid"}, {}),
            Site(TRUE, TRUE, {"public", "index"}, {}),
            Site(TRUE, TRUE, {"index"}, {"w"})}
=============================================================================
