--------------------------- MODULE MCWifiManager ---------------------------
(* Two networks with different passwords.                                  *)
EXTENDS WifiManager

CONSTANTS home, office, homeKey, officeKey

MCSsid == {home, office}
MCPassword == {homeKey, officeKey}
MCSecret == [s \in MCSsid |-> IF s = home THEN homeKey ELSE officeKey]
=============================================================================
