------------------------------- MODULE Mirror -------------------------------
(***************************************************************************)
(* What publishing promises about the files of a site: the published copy  *)
(* of a file follows its source. A deployment replaces the published copy  *)
(* by a version that is not older than the one it replaces and that the    *)
(* source has really had. Only a failure can do harm, to one file: that    *)
(* file may be without a whole copy until it is deployed again. No other   *)
(* file ever is, not even for a moment.                                    *)
(***************************************************************************)
EXTENDS Naturals

CONSTANTS
  Files,         \* the files a site publishes
  MaxVersion     \* bound: how often a source file is saved

VARIABLES
  source,        \* version of a file in the site's project directory
  live,          \* version of a file in the published site, 0 if it has no whole copy
  failures,      \* how many operations failed or were interrupted
  damaged        \* files that one of the failures has hit

mirrorVars == <<source, live, failures, damaged>>

MirrorInit ==
  /\ source = [f \in Files |-> 1]
  /\ live = [f \in Files |-> 0]
  /\ failures = 0
  /\ damaged = {}

Save(f) ==
  /\ source[f] < MaxVersion
  /\ source' = [source EXCEPT ![f] = @ + 1]
  /\ UNCHANGED <<live, failures, damaged>>

Deploy(f) ==
  /\ \E v \in live[f]..source[f] : live' = [live EXCEPT ![f] = v]
  /\ UNCHANGED <<source, failures, damaged>>

Fail ==
  /\ failures' = failures + 1
  /\ UNCHANGED source
  /\ \/ UNCHANGED <<live, damaged>>
     \/ \E f \in Files :
          /\ damaged' = damaged \union {f}
          /\ live' = live \/ live' = [live EXCEPT ![f] = 0]

\* What is left of a file that a failure has hit may reach the site later.
Spoil(f) ==
  /\ f \in damaged
  /\ live' = [live EXCEPT ![f] = 0]
  /\ UNCHANGED <<source, failures, damaged>>

MirrorNext == (\E f \in Files : Save(f) \/ Deploy(f) \/ Spoil(f)) \/ Fail

MirrorSpec == MirrorInit /\ [][MirrorNext]_mirrorVars
=============================================================================
