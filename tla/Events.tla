-------------------------------- MODULE Events --------------------------------
(* The events of events.hpp that the engine pushes to QueueOut.  A field   *)
(* that only echoes the request is left out.                               *)

None == [type |-> "None"]
Trade(price, qty, maker, taker) ==
  [type |-> "Trade", price |-> price, qty |-> qty, maker |-> maker, taker |-> taker]
CreateAccepted(id, slot, qty) ==
  [type |-> "CreateAccepted", id |-> id, slot |-> slot, qty |-> qty]
CreateRejected(id, qty, reason) ==
  [type |-> "CreateRejected", id |-> id, qty |-> qty, reason |-> reason]
UpdateAccepted(id) == [type |-> "UpdateAccepted", id |-> id]
UpdateRejected(id, reason) == [type |-> "UpdateRejected", id |-> id, reason |-> reason]
CancelAccepted(id) == [type |-> "CancelAccepted", id |-> id]
CancelRejected(id, reason) == [type |-> "CancelRejected", id |-> id, reason |-> reason]
LevelExpired(price, id) == [type |-> "LevelExpired", price |-> price, id |-> id]
LevelsCreated(from, to) == [type |-> "LevelsCreated", from |-> from, to |-> to]
=============================================================================
