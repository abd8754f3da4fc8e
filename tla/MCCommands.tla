------------------------------ MODULE MCCommands ------------------------------
(***************************************************************************)
(* Instances of Commands for TLC.                                          *)
(***************************************************************************)
EXTENDS Commands

CONSTANTS i1, i2, t1, t2

\* Each command, on one partition or file; flash with either image.
EachCommand ==
    {[do |-> d, image |-> i1, target |-> t1] : d \in {"push", "flash", "install"}}
    \cup {[do |-> "flash", image |-> i2, target |-> t1],
          [do |-> "delta", image |-> i1, base |-> i2, target |-> t1],
          [do |-> "pull", target |-> t1], [do |-> "run"]}

\* One image for the two slots of an A/B device.
BothSlots == {[do |-> "flash", image |-> i1, target |-> t] : t \in {t1, t2}}
=============================================================================
