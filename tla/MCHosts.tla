------------------------------ MODULE MCHosts ------------------------------
(* Two sessions, three tabs of two browsers, two searching guests.          *)
EXTENDS ProviderCalls

CONSTANTS t1, t2, t3, alice, bob

MCBrowserOf == [t \in Tabs |-> IF t = t3 THEN alice ELSE IF t = t1 THEN alice ELSE bob]

Evening(on, j, e, r, c, l, x, f, k) ==
    [connected |-> on,
     left |-> [join |-> j, edit |-> e, restart |-> r, call |-> c, limit |-> l, expire |-> x,
               fault |-> f, connect |-> k]]

\* Guests who join while the host edits the session or the server restarts;
\* searches and polls that are refused; tokens that expire while calls run,
\* fail, or the host connects again; a first connection.
Evenings ==
    { Evening(FALSE, 3, 0, 0, 0, 0, 0, 0, 0), Evening(FALSE, 2, 1, 1, 0, 0, 0, 0, 0),
      Evening(FALSE, 1, 3, 0, 0, 0, 0, 0, 0),
      Evening(TRUE, 0, 0, 0, 3, 2, 0, 0, 0), Evening(TRUE, 0, 0, 0, 3, 0, 0, 1, 0),
      Evening(TRUE, 0, 1, 1, 1, 1, 0, 0, 0),
      Evening(TRUE, 0, 0, 0, 1, 1, 1, 0, 0), Evening(TRUE, 0, 0, 0, 1, 1, 0, 1, 0),
      Evening(TRUE, 0, 0, 0, 1, 0, 1, 1, 0), Evening(TRUE, 0, 0, 0, 1, 0, 1, 0, 1),
      Evening(FALSE, 0, 0, 0, 1, 1, 0, 0, 1) }
=============================================================================
