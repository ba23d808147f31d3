------------------------ MODULE MCTankCommandHandler ------------------------
(* TankCommandHandler with a queue of two and every kind of message. *)
EXTENDS TankCommandHandler

Command(payload, complete, value) ==
  [msg_type |-> "COMMAND", payload |-> payload, complete |-> complete,
   value |-> value]

MCArrivals ==
  {Command(payload, TRUE, 0) : payload \in {"START_OTA", "REBOOT", "UNKNOWN_GENERIC",
                                            "UNKNOWN_FARM"}}
    \cup {Command(payload, TRUE, value) : payload \in {"SLEEP_OVERRIDE", "SYNC_TIME"},
                                          value \in {0, 1}}
    \cup {Command(payload, FALSE, 3) : payload \in {"SLEEP_OVERRIDE", "SYNC_TIME"}}
    \cup {[Command("REBOOT", TRUE, 0) EXCEPT !.msg_type = "DATA"]}
=============================================================================
