--------------------------- MODULE MCRegistration ---------------------------
(* One credential of each method whose secrets pass new/1, a nick of the   *)
(* maximal length, and up to four refused nicks: one more than the ladder. *)
EXTENDS Registration

MCLadder == <<1, 3, 3>>
MCCredentials ==
    {o \in Opts : /\ NewError(o) = "none" /\ o.nick_len = MaxNickLen
                  /\ o.password \in {"nil", "token"} /\ o.server_pass \in {"nil", "token"}
                  /\ o.method # "server_pass" => o.server_pass = "nil"}
=============================================================================
