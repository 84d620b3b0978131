------------------------------- MODULE Effects -------------------------------
(***************************************************************************)
(* The standard effect hierarchy of Kei (crates/kei_check/src/effects.rs). *)
(* An effect path "Database.Write" is the sequence of its segments; a      *)
(* segment never contains a dot, so the byte-prefix test of `covers` is    *)
(* the strict-prefix test on segments.                                     *)
(***************************************************************************)
EXTENDS Sequences, Naturals

CONSTANT Segment            \* the identifiers a source may use as a segment

TopNames   == {"IO", "Network", "File", "Database", "Clock", "Random", "Audit"}
RwNames    == {"Network", "File", "Database"}
LeafNames  == {"Read", "Write", "Log"}

ASSUME SegmentAssumption == TopNames \cup LeafNames \subseteq Segment

StandardEffects ==
    { <<r>> : r \in TopNames }
    \cup (RwNames \X {"Read", "Write"})
    \cup ({"Audit"} \X {"Log"})

EffectPath == Seq(Segment) \ {<<>>}

IsKnown(path) == path \in StandardEffects

IsAncestor(p, q) == /\ Len(p) < Len(q)
                    /\ \A i \in 1..Len(p) : q[i] = p[i]

Covers(declared, used) == \/ declared = used
                          \/ declared = <<"IO">>
                          \/ IsAncestor(declared, used)

\* One of the declared capabilities covers the used effect.
Permits(caps, used) == \E d \in caps : Covers(d, used)
=============================================================================
