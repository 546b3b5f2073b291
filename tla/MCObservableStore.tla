------------------------- MODULE MCObservableStore -------------------------
\* A small instance; no symmetry, for the run checks liveness.
EXTENDS ObservableStore
=============================================================================
