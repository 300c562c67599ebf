----------------------------- MODULE MCUploads -----------------------------
(* Two windows and three files; what the files are, the opt-in of the send  *)
(* confirm and the disturbances vary with the session.                      *)
EXTENDS Uploads

Session(ks, c, ds) ==
    [kind |-> ks, confirm |-> c, budget |-> [d \in Disturbances |-> IF d \in ds THEN 1 ELSE 0]]

MCSessions ==
    {Session(<<"plain", "plain", "plain">>, c, {d}) : c \in BOOLEAN, d \in {"retry", "rotate"}}
    \cup {Session(<<"video", "alien", "plain">>, FALSE, {"retry"}),
          Session(<<"clip", "plain", "huge">>, TRUE, {"retry"}),
          Session(<<"plain", "plain", "plain">>, TRUE, {"share"}),
          Session(<<"plain", "clip", "plain">>, FALSE, {"share"})}

=============================================================================
