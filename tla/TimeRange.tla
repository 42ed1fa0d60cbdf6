------------------------------- MODULE TimeRange -------------------------------
(***************************************************************************)
(* TimeRangeContext.tsx and TimeRangeSelector.tsx: the window every page   *)
(* asks about.  Time is counted in hours; the window is computed when the  *)
(* range changes and stays while time passes.                              *)
(***************************************************************************)
EXTENDS Browser

CONSTANTS Hours, PresetLength       \* bound: the hours that pass; preset -> hours
TimeRangeAssumption ==
  /\ Hours \in Nat /\ PresetLength \in [DOMAIN PresetLength -> Nat]
  /\ "24h" \in DOMAIN PresetLength

Name == "timeRange"
Presets == DOMAIN PresetLength \cup {"custom"}
\* A field of the custom range: a time, or text that is no date.
Invalid == Hours + 1
Typed == 0..Invalid

\* The state of the context is the record kept in localStorage.
Range == [preset : Presets, from : Typed, to : Typed]
Back(now, hours) == IF now < hours THEN 0 ELSE now - hours

\* Variant: only the dates are validated, not their order.
UsableDates(s) == s.from # Invalid /\ s.to # Invalid

\* A custom range that is no interval falls back to the last 24 hours.
Usable(s) ==
  s.from # Invalid /\ s.to # Invalid /\ s.from <= s.to

ComputeWindow(s, now) ==
  IF s.preset # "custom" THEN [from |-> Back(now, PresetLength[s.preset]), to |-> now]
  ELSE IF Usable(s) THEN [from |-> s.from, to |-> s.to]
  ELSE [from |-> Back(now, PresetLength["24h"]), to |-> now]

Mounted == {[range |-> s, window |-> ComputeWindow(s, 0)] : s \in Range}
Stored == {[now |-> 0, kept |-> s] : s \in Range}
vars == <<view, ui, net, srv>>
Init == Shows(Name, Mounted, Stored) /\ srv.kept = ui.range

Persist(s) ==
  /\ ui' = [range |-> s, window |-> ComputeWindow(s, srv.now)]
  /\ srv' = [srv EXCEPT !.kept = s]
  /\ UNCHANGED net

SetPreset == \E p \in Presets \ {ui.range.preset} : Persist([ui.range EXCEPT !.preset = p])

SetCustomRange ==
  \E x \in Typed, end \in {"from", "to"} :
    /\ ui.range.preset = "custom"
    /\ Persist([ui.range EXCEPT ![end] = x])

HourPasses ==
  /\ srv.now < Hours
  /\ srv' = [srv EXCEPT !.now = @ + 1]
  /\ UNCHANGED <<ui, net>>

\* The application is loaded again with the range it kept.
Reload ==
  /\ ui' = [range |-> srv.kept, window |-> ComputeWindow(srv.kept, srv.now)]
  /\ UNCHANGED <<net, srv>>

Next ==
  /\ view = Name /\ UNCHANGED view
  /\ \/ SetPreset \/ SetCustomRange \/ HourPasses \/ Reload

-----------------------------------------------------------------------------
TypeOK == ui.range \in Range /\ srv.kept = ui.range

\* Whatever is typed into the custom range, the pages ask about an interval.
WindowIsInterval == ui.window.from <= ui.window.to
=============================================================================
