----------------------- MODULE MCSocialNavController -----------------------
(***************************************************************************)
(* Instances of SocialNavController for TLC.  Speeds and turn rates are    *)
(* the ones of nav2_params.yaml, rounded; clearances and times to          *)
(* collision are one value in each band of the thresholds that tells       *)
(* nextMode's decisions apart.                                             *)
(***************************************************************************)
EXTENDS SocialNavController

\* The robot turns on the path; a limit is set on the way.
TurnOne  == {-150}
LimitOne == {<<50, TRUE>>}
=============================================================================
