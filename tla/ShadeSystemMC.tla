---------------------------- MODULE ShadeSystemMC ----------------------------
(* ShadeSystem on small instances: the shades of each run, what is ordered  *)
(* of them and what their remote does.                                      *)
EXTENDS ShadeSystem

AShade(tiltType, ordered, pressed) ==
  [tiltType |-> tiltType, simMy |-> FALSE, favorites |-> {NoPos}, orders |-> ordered, presses |-> pressed]

Preset(k) == [k EXCEPT !.favorites = {1}]

Lift == Preset(AShade("none",
  {"Up", "Down", "My", "target", "set my", "StepUp", "StepDown", "group Up", "group Down"},
  {"Up", "Down", "My", "set my", "StepUp", "StepDown"}))
Simulated == [Preset(AShade("none", {"Up", "My", "target", "group Up"}, {"Up", "My"})) EXCEPT !.simMy = TRUE]
Integrated == AShade("integrated",
  {"Up", "Down", "My", "StepUp", "tilt target", "group Up", "group Down"}, {"Up", "Down", "My", "StepDown"})
TiltOnly == AShade("tiltonly",
  {"Up", "Down", "My", "StepUp", "StepDown", "tilt target", "group Up", "group Down"}, {"Up", "Down", "My"})
TiltMotor == AShade("tiltmotor",
  {"Up", "Down", "My", "target", "tilt target", "tilt Up", "tilt Down", "group Up"}, {"My"})
EuroMode == AShade("euromode", {"Up", "Down", "My", "target", "tilt target"}, {"My"})

EveryKind == {Lift, Simulated, Integrated, TiltOnly, TiltMotor, EuroMode}
RacedAndFair == {
  Preset(AShade("none", {"Up", "My", "set my", "target"}, {"Down", "My"})),
  AShade("tiltmotor", {"My", "target", "tilt target"}, {"Up", "long Down"})}

=============================================================================
