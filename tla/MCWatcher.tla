------------------------------ MODULE MCWatcher ------------------------------
\* Watcher on a small instance.  No symmetry: the runs check liveness.
EXTENDS Watcher
=============================================================================
