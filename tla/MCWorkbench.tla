------------------------------ MODULE MCWorkbench ------------------------------
(* Two flat modes, two contents and two cameras.                           *)
EXTENDS Workbench

CONSTANTS Sinusoidal, Physical, Political, c1, c2

=============================================================================
