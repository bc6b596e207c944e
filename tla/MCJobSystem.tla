---------------------------- MODULE MCJobSystem -----------------------------
(* Instances of JobSystem for TLC.                                           *)
EXTENDS JobSystem

NoPhotosRequired == [s \in Steps |-> 0]
OnePhotoEach == [s \in Steps |-> 1]
=============================================================================
