------------------------ MODULE MCPassthroughSystem -------------------------
(***************************************************************************)
(* Small instances of PassthroughSystem.                                   *)
(***************************************************************************)
EXTENDS PassthroughSystem

\* A user with a webcam, who tries every option, and one who switches between
\* one camera and two and closes them when idle.
SingleCamera ==
  [settings |-> {<<"OpenCV", "StereoReconstruction">>},
   options |-> BOOLEAN \X BOOLEAN]
OneOrTwo ==
  [settings |-> {<<"Augmented", "StereoReconstruction">>, <<"OpenVR", "RoomView2D">>},
   options |-> {<<TRUE, TRUE>>}]

SingleAndDouble == {SingleCamera, OneOrTwo}
=============================================================================
