------------------------------ MODULE MCFrontend ------------------------------
(* Instances of Frontend for TLC: what the sets of the .cfg cannot say.       *)
EXTENDS Frontend, TLC

\* Each alert has its customer and its label, and matches one question or both.
MCCustomerOf == "a1" :> "c" @@ "a2" :> "d"
MCLabelOf == "a1" :> "l1" @@ "a2" :> "l2"
MCAnswering == "plain" :> {"a1", "a2"} @@ "some" :> {"a1"}
MCPageOf == 0 :> {"a1"} @@ 1 :> {"a2"}

\* The presets of the time range, in hours; the permission of each tab and section.
MCPresetLength == "1h" :> 1 @@ "24h" :> 2
MCNeededBy == "overview" :> {"view"} @@ "users" :> {"manage"}
                @@ "runs" :> {"view"} @@ "accounts" :> {"manage"}
MCHosts == 1..2
=============================================================================
