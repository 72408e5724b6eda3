--------------------------- MODULE MCMenuOptions ---------------------------
(***************************************************************************)
(* Sessions of the menu.  The options that share state are visited         *)
(* together; a session without the region's options starts with one of     *)
(* the settings only, and only one of them finds any network.cfg.          *)
(***************************************************************************)
EXTENDS MenuOptions

MCFaults ==
    {"font", "openFsa", "openDir", "makeDir", "readDir", "openLog", "openCopy", "alloc", "readLog", "writeLog",
     "shortWrite", "readOtp", "bspRead", "createDump", "writeDump", "openMcp", "getSettings", "setSettings",
     "openMenu", "openIfmgr", "openSocket", "openZero", "getAddress", "setRunning", "openCfg", "stat", "readCfg",
     "dns", "certificate", "bspVersion", "mlcCid", "rand", "rsa", "createObject", "importKey", "encrypt",
     "socket", "connect", "send", "recv", "setTitle", "readParental", "writeParental", "openVersion",
     "macAddress", "wpsStart", "wpsStatus", "wpsStop", "openCdc"}

MCSessions ==
    {{"logs", "otp", "shutdown"}, {"region", "info"}, {"netconf", "wup", "submit"}, {"netconf"},
     {"coldboot", "parental", "boot1"}, {"pair", "install", "shutdown"}}

\* All short files of one key, the files of the README, with either line end, and
\* what else a line may be: a key without a value, one that is repeated or
\* unknown, an empty line, a last line without an end, and a value with a "=" in it.
Ethernet == <<"type", "=", "eth">>
MCCfgFiles ==
    UNION {[1 .. n -> {"ssid", "=", "\r", "\n"}] : n \in 0 .. 3} \cup
    {Ethernet,
     <<"type", "=", "wifi", "\r", "\n", "ssid", "=", "home", "\r", "\n", "key", "=", "secret", "\r", "\n",
       "key_type", "=", "WPA2_PSK_AES", "\r", "\n">>,
     <<"\n", "key_type", "=", "WEP", "\n", "\n", "key_type", "=", "best", "\n", "ssid", "=", "\n", "ssid">>,
     <<"ssid", "=", "home", "\n", "key", "\n", "color", "=", "red", "\n", "ssid", "=", "office", "town">>,
     <<"key", "=", "secret", "=", "\n", "type", "=", "eth", "\n", "type", "=", "wifi">>}

MCInit ==
    /\ Init
    /\ visits # {"netconf"} => cfgFile = Ethernet
    /\ product_area \in {{}, {0}, {1}, {3}, {0, 3}} /\ game_region \in {{}, {0}, {1}, {1, 3}}
    /\ "region" \notin visits => product_area = {1} /\ game_region = {1} /\ installed = {1}
    /\ "coldboot" \notin visits => option_count = 4

MCSpec == MCInit /\ [][Next]_vars /\ WF_vars(MenuStep)
=============================================================================
