---------------------------- MODULE PresenceFeed ----------------------------
(***************************************************************************)
(* What WSPresence promises the sessions that subscribe to a user's        *)
(* presence topic: ws_visible may be broadcast at any time, ws_all_hidden  *)
(* only to sessions that were told ws_visible since the last one. A        *)
(* session relies on this: a second ws_all_hidden while it is auto-away    *)
(* would re-arm its debounce and move the start of its away window.        *)
(*                                                                         *)
(* told is the last event broadcast for a user. beat flips with every      *)
(* broadcast, so that one which repeats the last event is still a step.    *)
(***************************************************************************)
CONSTANT Users

VARIABLES told, beat

feedVars == <<told, beat>>

Events == {"ws_visible", "ws_all_hidden"}

Broadcast(S, e) ==
    /\ told' = [u \in Users |-> IF u \in S THEN e ELSE told[u]]
    /\ beat' = [u \in Users |-> IF u \in S THEN ~beat[u] ELSE beat[u]]

Show(u) == Broadcast({u}, "ws_visible")

\* One sweep may hide several users at once.
Hide(S) ==
    /\ S # {}
    /\ \A u \in S : told[u] = "ws_visible"
    /\ Broadcast(S, "ws_all_hidden")

FeedInit ==
    /\ told = [u \in Users |-> "ws_all_hidden"]
    /\ beat = [u \in Users |-> FALSE]

FeedNext == (\E u \in Users : Show(u)) \/ (\E S \in SUBSET Users : Hide(S))

FeedSpec == FeedInit /\ [][FeedNext]_feedVars

=============================================================================
