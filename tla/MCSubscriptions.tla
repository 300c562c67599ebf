--------------------------- MODULE MCSubscriptions ---------------------------
(* Small instances of Subscriptions: which disturbances meet in one session. *)
EXTENDS Subscriptions

Session(ds) == [d \in Disturbances |-> IF d \in DOMAIN ds THEN ds[d] ELSE 0]

MCSessions ==
    {Session([nick |-> 2, window |-> 1]),
     Session([nick |-> 1, say |-> 1]),
     Session([state |-> 2, attach |-> 1]),
     Session([join |-> 1, part |-> 2]),
     Session([join |-> 1, drop |-> 1]),
     Session([join |-> 1, hide |-> 1]),
     Session([join |-> 1, offline |-> 1]),
     Session([offline |-> 1, rotate |-> 1, state |-> 1])}

\* A window is opened, its nick becomes ours and is given up again.
MCRename == {Session([nick |-> 2, window |-> 1])}

=============================================================================
