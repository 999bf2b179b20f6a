------------------------------- MODULE MCSwap -------------------------------
\* One swap file of one or two units, or one device.
EXTENDS Swap

Config(size, pri, enabled, persist, force) ==
    [size |-> size, pri |-> pri, enabled |-> enabled, persist |-> persist, force |-> force]
UserArea(swap, other, size, exposed) ==
    [swap |-> swap, other |-> other, size |-> size, exposed |-> exposed, by |-> "user"]

FileConfigs == { Config(1, Null, TRUE, TRUE, FALSE), Config(2, 1, TRUE, TRUE, FALSE),
                 Config(1, 2, TRUE, FALSE, TRUE), Config(2, 1, FALSE, TRUE, FALSE) }
UserFiles == { UserArea(FALSE, TRUE, 1, FALSE), UserArea(TRUE, FALSE, 1, FALSE) }

DeviceConfigs == { Config(1, Null, TRUE, TRUE, FALSE), Config(1, 1, TRUE, FALSE, FALSE),
                   Config(1, 2, TRUE, TRUE, TRUE), Config(1, 1, FALSE, TRUE, FALSE) }
UserDevices == { UserArea(swap, other, 1, FALSE) : swap \in BOOLEAN, other \in BOOLEAN }

MCConfigs == [d \in BOOLEAN |-> IF d THEN DeviceConfigs ELSE FileConfigs]
MCUserAreas == [d \in BOOLEAN |-> IF d THEN UserDevices ELSE UserFiles]
=============================================================================
