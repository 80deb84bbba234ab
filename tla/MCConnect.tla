----------------------------- MODULE MCConnect -----------------------------
(* Three records: x and y connected in any case, y and z only unfiltered,   *)
(* x and z not at all.                                                      *)
EXTENDS Connect

CONSTANTS x, y, z

MCRecords == {x, y, z}
MCConnected == {<<{x, y}, "none">>, <<{x, y}, "rhythm-section">>, <<{y, z}, "none">>}
Link(from, to, m) == [from |-> from, to |-> to, mode |-> m]
MCLinks == {None, Link(x, None, "none"), Link(x, y, "rhythm-section"), Link(x, Gone, "none"),
            Link(x, x, "none")}
MCFilters == {"rhythm-section"}
=============================================================================
