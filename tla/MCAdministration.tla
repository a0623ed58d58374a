--------------------------- MODULE MCAdministration ---------------------------
(***************************************************************************)
(* Instances of Administration for TLC.                                    *)
(***************************************************************************)
EXTENDS Administration

CONSTANTS a, b, c, g, h

Coming(to, n) == [desk \in Desks |-> IF desk = to THEN n ELSE 0]

Need(i, accepts) == [item |-> i, accepts |-> accepts]
Entry(needs, plugin) == [needs |-> needs, plugin |-> plugin, verified |-> TRUE,
                         compatible |-> TRUE, licensed |-> FALSE]
Unverified(entry) == [entry EXCEPT !.verified = FALSE]
Licensed(entry) == [entry EXCEPT !.licensed = TRUE]
Unfit(entry) == [entry EXCEPT !.compatible = FALSE]

\* Dependencies in small shapes: the order of two, an item needed twice, cycles,
\* demands that conflict or that only a later choice meets. No package passes the
\* gate, so that only the resolution is looked at.
Ranges == {{1}, {2}, {1, 2}}
Two == {<<Need(b, m), Need(i, n)>> : i \in {b, c}, m, n \in Ranges} \cup
       {<<Need(c, m), Need(b, n)>> : m, n \in Ranges}
One(i, ranges) == {<<>>} \cup {<<Need(i, m)>> : m \in ranges}
Shape(x, y1, y2, z1, z2) ==
    (a :> <<Unfit(Entry(x, None))>>) @@
    (b :> <<Unfit(Entry(y1, None)), Unfit(Entry(y2, None))>>) @@
    (c :> <<Unfit(Entry(z1, None)), Unfit(Entry(z2, None))>>)
Shapes == {Shape(x, y1, y2, z1, z2) :
             x \in Two \cup One(b, Ranges) \cup One(c, Ranges),
             y1 \in One(c, {{1}}), y2 \in One(c, Ranges) \cup One(a, {{1}}),
             z1 \in One(b, {{1, 2}}), z2 \in One(b, {{1}, {2}})}

\* a and b need different versions of c; a and c register the same plugin; the
\* next version of a registers that of b, and the next version of b none.
Store ==
    (a :> <<Entry(<<Need(c, {1})>>, g), Entry(<<Need(c, {1, 2})>>, h)>>) @@
    (b :> <<Unverified(Entry(<<>>, h)), Licensed(Entry(<<Need(c, {2})>>, None))>>) @@
    (c :> <<Entry(<<>>, g), Entry(<<>>, g)>>)

MCCatalogs ==
    {[catalog |-> shape, spare |-> Coming("packages", 1)] : shape \in Shapes} \cup
    {[catalog |-> Store, spare |-> Coming("packages", 4)]}
\* No package is both unverified and licensed, and c is neither, so that to
\* accept both shows nothing more.
MCFlags == {[license |-> accepts, unverified |-> ~accepts] : accepts \in BOOLEAN}
MCSignInsSpare == {Coming("signins", 4)}
=============================================================================
