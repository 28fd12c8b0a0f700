-------------------------- MODULE MCCameraManager --------------------------
(* Constants for model-checking CameraManager. *)
EXTENDS CameraManager, TLC

CONSTANTS d1, d2

\* Cameras of the TUTK family only.
AllTutk == [d \in Devices |-> "tutk"]
\* A TUTK camera and an OG camera fed by gwell-proxy.
TutkAndGwell == [d \in Devices |-> IF d = d1 THEN "tutk" ELSE "gwell"]
\* Doorbells of the Gwell family that stream over WebRTC.
AllDoorbell == [d \in Devices |-> "doorbell"]

\* The account lists every device, always under the same name.
AlwaysListed == {[d \in Devices |-> CHOOSE n \in Names : TRUE]}
\* Devices are renamed, renamed alike, removed and added again.
AnyListing == [Devices -> Names \cup {Nil}]

ObjectSymmetry == Permutations(Objects)
=============================================================================
