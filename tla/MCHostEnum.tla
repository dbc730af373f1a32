----------------------------- MODULE MCHostEnum -----------------------------
(***************************************************************************)
(* HostEnum for TLC: the devices that can be plugged in and the requests   *)
(* at which they fail.                                                     *)
(***************************************************************************)
EXTENDS HostEnum

Dev(low, hub, configs, midi) == [low |-> low, hub |-> hub, configs |-> configs, midi |-> midi]

\* An instrument; one whose second configuration is MIDI; a hub, slow so that
\* the reset finds one.
Instrument == Dev(FALSE, FALSE, 1, {1})
TwoConfigs == Dev(FALSE, FALSE, 2, {2})
SlowHub    == Dev(TRUE, TRUE, 1, {})

DevPlain == {Instrument}
DevAny   == {TwoConfigs, SlowHub}

\* One request before the device has its address, the one that gives it, and
\* one after.
OneEach == {"GET_DEVICE_DESCRIPTOR_SIZE", "SET_DEVICE_ADDRESS", "SET_CONFIGURATION"}
=============================================================================
