---------------------------- MODULE SystemRegion ----------------------------
(***************************************************************************)
(* The region of the system: getRegionInfo of ios_mcp/source/menu.c, the   *)
(* settings of mcp_misc.c and option_DebugSystemRegion.                    *)
(*                                                                         *)
(* product_area and game_region are bit fields, modelled as sets of bit    *)
(* numbers; bits beyond region_tbl occur.                                  *)
(***************************************************************************)
EXTENDS Fsa

CONSTANTS
    Regions,   \* the indices of region_tbl
    AreaBits   \* the bits that product_area and game_region may have

ASSUME RegionConstants == 0 \in Regions /\ Regions \subseteq AreaBits /\ AreaBits \subseteq Nat

VARIABLES
    product_area, game_region,   \* MCP's settings
    installed,                   \* the regions whose Wii U Menu is installed
    productArea_id, gameRegion,  \* what getRegionInfo returned
    menu                         \* the region of the only menu that was found

regionVars == <<product_area, game_region, installed, productArea_id, gameRegion, menu>>

Settings == <<product_area, game_region>>

RegionInit ==
    /\ product_area \in SUBSET AreaBits /\ game_region \in SUBSET AreaBits
    /\ installed \in SUBSET Regions
    /\ productArea_id = 0 /\ gameRegion = {} /\ menu = 0

\* __builtin_ctz
LowestBit(bits) == CHOOSE b \in bits : \A c \in bits : b <= c

MCP_GetSysProdSettings == Outcomes("getSettings")
MCP_SetSysProdSettings == Outcomes("setSettings")

\* No product area at all is an error, although MCP answered.
getRegionInfo ==
    ({"failed"} \cap (Outcomes("openMcp") \cup MCP_GetSysProdSettings))
        \cup (IF product_area = {} THEN {"noArea"} ELSE {"ok"})

-----------------------------------------------------------------------------

ReadRegion ==
    /\ \E res \in getRegionInfo :
          \/ /\ res = "ok" /\ Step("region", "regionSearch") /\ UNCHANGED told
             /\ productArea_id' = LowestBit(product_area) /\ gameRegion' = game_region
          \/ /\ res # "ok" /\ UNCHANGED <<productArea_id, gameRegion>>
             /\ print_error("region", "main", IF res = "noArea" THEN "noArea" ELSE "error")
    /\ UNCHANGED <<held, Settings, installed, menu>>

\* The menu of the system's region or, if it cannot be opened, those of all
\* other regions.
Found(opened) ==
    IF productArea_id \in opened THEN {productArea_id} ELSE opened \cap Regions

\* The opening of a file that exists may fail.
MenusOpened == IF "openMenu" \in Faults THEN SUBSET installed ELSE {installed}

\* The settings are right when the system's own menu is installed and its
\* region is one of the game regions.  They can be repaired when there is just
\* one menu.
SearchMenu ==
    /\ pc = "regionSearch"
    /\ \E opened \in MenusOpened :
          LET found == Found(opened)
              right == productArea_id \in found /\ productArea_id \in gameRegion IN
          \/ right /\ Wait(pc, "main") /\ told' = "correct" /\ UNCHANGED menu
          \/ /\ ~right /\ Cardinality(found) # 1
             /\ print_error(pc, "main", "error") /\ UNCHANGED menu
          \/ /\ ~right /\ Cardinality(found) = 1
             /\ menu' \in found /\ drawMenu(pc, "regionMenu", 0, 2) /\ UNCHANGED told
    /\ UNCHANGED <<held, Settings, installed, productArea_id, gameRegion>>

\* "Cancel" or "Fix Region"
ChooseFix ==
    /\ Chooses("regionMenu")
    /\ pc' = IF selected = 0 THEN "main" ELSE "regionFix"
    /\ UNCHANGED <<selected, proceed, held, told, regionVars>>

\* Faulty: a bit number is stored where a bit field is expected.
FixRegion_Index ==
    /\ Wait("regionFix", "main") /\ told' = "repaired"
    /\ product_area' = {b \in AreaBits : (menu \div (2 ^ b)) % 2 = 1} /\ game_region' = {menu}
    /\ UNCHANGED <<held, installed, productArea_id, gameRegion, menu>>

\* The settings are read again, changed and written; the handle of MCP is
\* closed on every way.
FixRegion ==
    /\ \/ /\ "failed" \in Outcomes("openMcp") \cup MCP_GetSysProdSettings \cup MCP_SetSysProdSettings
          /\ print_error("regionFix", "main", "error")
          /\ UNCHANGED Settings
       \/ /\ Wait("regionFix", "main") /\ told' = "repaired"
          /\ product_area' = {menu} /\ game_region' = {menu}
    /\ UNCHANGED <<held, installed, productArea_id, gameRegion, menu>>

option_DebugSystemRegion == ReadRegion \/ SearchMenu \/ FixRegion

RegionUserStep == (Navigate("regionMenu", 2) /\ UNCHANGED regionVars) \/ ChooseFix

RegionOption == option_DebugSystemRegion /\ UNCHANGED fsaHandle

-----------------------------------------------------------------------------

RegionTypeOK ==
    /\ product_area \subseteq AreaBits /\ game_region \subseteq AreaBits
    /\ installed \subseteq Regions
    /\ productArea_id \in AreaBits /\ gameRegion \subseteq AreaBits
    /\ menu \in Regions

\* "System region set to ... successfully" leaves a system whose product area and
\* game region are those of one installed menu, and "appears to be set correctly"
\* is said only of a system whose menu is installed and in its game region.
RegionTruthful ==
    /\ told = "repaired" => menu \in installed /\ Settings = <<{menu}, {menu}>>
    /\ told = "correct" => LowestBit(product_area) \in installed \cap game_region

\* While MCP answers, the settings are wrong in whatever way they can be, and just
\* one menu is installed, the option does not give up: it "fixes bricks caused by
\* setting productArea and/or gameRegion to an invalid value".
InvalidAreaIsRepaired == Cardinality(installed) = 1 => told # "noArea"
=============================================================================
