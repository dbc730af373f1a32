---------------------------- MODULE Enumeration ----------------------------
(***************************************************************************)
(* What the host stack promises about an attached device, without saying   *)
(* how: it is enumerated, in at most EnumTries tries; then it runs, with   *)
(* the configuration the host has chosen, or it is held; and only when it  *)
(* has gone does everything begin anew.  The application is told of a      *)
(* device only when it runs, and reset when that one has gone.             *)
(***************************************************************************)
EXTENDS Naturals

CONSTANT EnumTries

VARIABLES
  phase,    \* of the host
  tries,    \* left for the device that is being enumerated
  told,     \* the application knows of the device
  ready     \* the device has the configuration the host has chosen, or has gone

evars == <<phase, tries, told, ready>>

EInit == phase = "absent" /\ tries \in 0 .. EnumTries /\ told = FALSE /\ ready \in BOOLEAN

\* No device is enumerated: the number of tries is set up again.  A processor
\* reset forgets it.
Prepare ==
  /\ phase = "absent" /\ phase' = "absent"
  /\ tries' \in {0, EnumTries} /\ told' = FALSE

Attach ==
  /\ phase = "absent" /\ tries = EnumTries /\ phase' = "enumerating"
  /\ UNCHANGED <<tries, told>>

Retry  == phase = "enumerating" /\ tries > 1 /\ tries' = tries - 1 /\ UNCHANGED <<phase, told>>

Run == phase = "enumerating" /\ ready /\ phase' = "running" /\ told' = TRUE /\ UNCHANGED tries

\* The last try has failed, or the host does not want the device.
GiveUp ==
  /\ phase = "enumerating" /\ phase' = "held" /\ UNCHANGED told
  /\ tries' = tries \/ (tries = 1 /\ tries' = 0)

Lose == phase' = "absent" /\ UNCHANGED <<tries, told>>

\* The device does what it likes.
Partner == ready' \in BOOLEAN /\ UNCHANGED <<phase, tries, told>>

ENext ==
  \/ (Prepare \/ Attach \/ Retry \/ Run \/ GiveUp \/ Lose) /\ ready' \in BOOLEAN
  \/ Partner

ESpec == EInit /\ [][ENext]_evars
=============================================================================
