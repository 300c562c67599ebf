---------------------------- MODULE MCScrollback ----------------------------
(* Small pages over a handful of rows. A session starts with a log, a read  *)
(* cursor and at most one disturbance of each kind named. MCScrollback.cfg  *)
(* has Tail = Page, so that jumpToMessage can measure a hole; the program   *)
(* has 50 and 200, the proportion of the violated run.                 *)
EXTENDS Scrollback

Session(l, c, ks) ==
    [log |-> l, cursor |-> c, budget |-> [k \in Disturbances |-> IF k \in ks THEN 1 ELSE 0]]

MCSessions ==
    {Session(3, 0, {}), Session(3, 1, {"drop"}), Session(4, 1, {"fail"}), Session(5, 1, {"rotate"})}
    \cup {Session(4, 1, {k}) : k \in {"reveal", "echo", "send", "settle"}}
    \cup {Session(5, 1, {"jump"}), Session(4, 2, {"goto"})}

\* One reconnect of a window a few rows behind.
MCReconnect == {Session(3, 1, {"drop"})}

=============================================================================
