----------------------- MODULE MCInventoryController -----------------------
(* Small instances of the inventory-controller for TLC.                    *)
EXTENDS InventoryController

CONSTANTS MaxEdits, MaxDeletes, MaxFaults, MaxForeign, MaxRestarts

Bounds ==
    [e \in Events |->
        CASE e = "edit"    -> MaxEdits
          [] e = "delete"  -> MaxDeletes
          [] e = "fault"   -> MaxFaults
          [] e = "restart" -> MaxRestarts
          [] e = "foreign" -> MaxForeign]

CONSTANTS Applications   \* the keys that are Applications, not ApplicationSets

KindOfKey == [k \in Keys |-> IF k \in Applications THEN "Application" ELSE "ApplicationSet"]
=============================================================================
