------------------------------ MODULE MCMixer ------------------------------
(* Three machines: one with sound and a capture, one without sound and with *)
(* two cards, one without sound, with a card and a synthesizer.             *)
EXTENDS Mixer

Machines ==
  {[has |-> {"speaker", "sdl", "capture"}, blocksize |-> 2],
   [has |-> {"speaker", "reelmagic"}, blocksize |-> 1],
   [has |-> {"speaker", "synth"}, blocksize |-> 1]}

\* The bounds are such that the synthesizer cannot fall behind for good.
ASSUME MachinesKeepPace == KeepsPace

\* A PS/1, and no sound output
Ps1Machine == {[has |-> {"ps1"}, blocksize |-> 1]}
=============================================================================
