------------------------------ MODULE MCStatsDb ------------------------------
EXTENDS StatsDb, TLC

CONSTANTS a, g, x, y, z, none

Key(label, group) == [instance |-> a, group |-> group, label |-> label]

\* Three labels a channel may have had, and a series without a frequency.
MCKeys == {Key(l, g) : l \in {x, y, z}} \cup {Key(none, none)}

\* Enough for one or two quiet series beside a new one.
MCReported == {ks \in SUBSET {Key(l, g) : l \in {x, y, z}} : Cardinality(ks) \in 1..2}
                \cup {{Key(none, none)}}

Labels == Permutations({x, y, z})
=============================================================================
