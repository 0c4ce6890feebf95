------------------------------ MODULE MCInput -------------------------------
EXTENDS InputStates

(* The space key and the gamepad's A both jump, only the D-pad interacts, *)
(* and only the trigger shields.                                          *)
MCKeyButton == [space |-> "jump"]
MCPadButton == [a |-> "jump", up |-> "interact"]
(* The order in which InputSystem::on_subscribe registers its handlers. *)
MCOrder == <<"down", "up", "connected", "disconnected", "padDown", "padUp", "tilt">>
=============================================================================
