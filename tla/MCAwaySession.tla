--------------------------- MODULE MCAwaySession ---------------------------
(* One user, one session; a profile says which knobs may be turned.        *)
EXTENDS AwaySession

Plain == [windows |-> {"30s"}, siteWindows |-> {"30s"}, autoReasons |-> {"idle"},
          userReasons |-> {}, suffixes |-> {"none"}, userNicks |-> {},
          maxCalls |-> 2, maxWire |-> 0]

\* /away and /back with a deeper mailbox; the windows; the texts; the rename
\* with /nick; the rename retuned.
Commands == [Plain EXCEPT !.userReasons = {"lunch"}, !.maxCalls = 3, !.maxWire = 1]
Debounces == [Plain EXCEPT !.windows = {"30s", "disabled", "site"}, !.siteWindows = {"30s", "10s"}]
Texts == [Plain EXCEPT !.autoReasons = {"idle", "gone"}]
Renames == [Plain EXCEPT !.suffixes = {"-away"}, !.userNicks = {<<"chosen", 0>>}]
Suffixed == [Plain EXCEPT !.suffixes = {"-away", "-fillsnicklen"}]

MCProfiles == {Commands, Debounces, Texts, Renames, Suffixed}
MCReturn == {[Plain EXCEPT !.suffixes = {"-away"}]}
MCTooLong == {"-fillsnicklen"}

=============================================================================
