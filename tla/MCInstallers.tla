---------------------------- MODULE MCInstallers ----------------------------
(* Three processes, which are enough for one that unpacks, one that        *)
(* truncates what it unpacked, and one that runs the result.               *)
EXTENDS Installers

CONSTANTS p1, p2, p3
=============================================================================
