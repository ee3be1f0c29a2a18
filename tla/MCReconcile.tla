---------------------------- MODULE MCReconcile ----------------------------
\* Two requests for two tracks; the second waits for the host.
EXTENDS Reconcile

MCTrackOf == <<"a", "b">>
=============================================================================
