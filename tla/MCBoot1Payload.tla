--------------------------- MODULE MCBoot1Payload ---------------------------
(***************************************************************************)
(* Boot1Payload with small images: bodies of up to two blocks in files     *)
(* that are shorter, as long, or longer.                                   *)
(***************************************************************************)
EXTENDS Boot1Payload

File(header, body, blocks) == [kind |-> "file", header |-> header, body |-> body, blocks |-> blocks]

NoFile(kind) == [kind |-> kind, header |-> "short", body |-> 0, blocks |-> 0]

AllImages ==
    {NoFile("missing"), NoFile("directory")}
    \cup {File(header, 1, 1) : header \in {"magic", "encrypted", "good"}}
    \cup {File("good", 2, blocks) : blocks \in {1, 3}}

FewImages == {NoFile("missing"), File("good", 1, 1), File("good", 2, 1)}

Read(v) == [valid |-> TRUE, version |-> v]

\* The supported version is the only one or the older one, or there is none.
AllEeproms ==
    {[slot \in Slots |-> IF slot = 0 THEN params[1] ELSE params[2]] :
        params \in {<<Garbage, Read(2)>>, <<Read(3), Read(2)>>, <<Garbage, Garbage>>}}
=============================================================================
