------------------------ MODULE MCExtensionManager ------------------------
EXTENDS ExtensionManager, TLC

MCInstances == 1 .. 5
MCRank == CHOOSE r \in [Exts -> 1 .. Cardinality(Exts)] : IsInjective(r)
Symmetry == Permutations(Ones)

\* Bound: where a ReloadOne met a Start, or the Stop a Reload, no file changed.
RacedUnedited == mixed \/ late => edits = 0
=============================================================================
