----------------------------- MODULE UploadFate -----------------------------
(***************************************************************************)
(* What the upload pipeline promises of one picked file, whatever window   *)
(* it was picked in and whatever else is being uploaded: it is asked       *)
(* about, waits, is sent, fails and is tried again; once its link is       *)
(* posted, or the operator has let go of it, nothing happens to it again.  *)
(***************************************************************************)
CONSTANT Files
VARIABLE fate

Fates == {"new", "asked", "waiting", "sending", "failed", "posted", "gone"}

\* What one step may make of a file.
Becomes(x) ==
    CASE x = "new" -> Fates \ {"posted"}
      [] x = "asked" -> {"asked", "waiting", "sending", "failed", "gone"}
      [] x = "waiting" -> {"waiting", "sending", "failed", "gone"}
      [] x = "sending" -> {"sending", "failed", "posted", "gone"}
      [] x = "failed" -> {"failed", "sending", "gone"}
      [] x = "posted" -> {"posted"}
      [] x = "gone" -> {"gone"}

Init == fate = [f \in Files |-> "new"]

\* At most one link is posted by a step.
Next ==
    /\ fate' \in [Files -> Fates]
    /\ \A f \in Files : fate'[f] \in Becomes(fate[f])
    /\ \A f, g \in Files :
         fate'[f] = "posted" /\ fate'[g] = "posted" => f = g \/ "posted" \in {fate[f], fate[g]}

Spec == Init /\ [][Next]_fate
=============================================================================
