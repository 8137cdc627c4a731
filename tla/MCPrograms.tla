----------------------------- MODULE MCPrograms -----------------------------
(***************************************************************************)
(* Instances of the programs for TLC.                                      *)
(***************************************************************************)
EXTENDS Programs

Counts == <<2, 1, 1>>

(* Both directions of a link, with addresses of two networks, and lines    *)
(* that do not convert.                                                    *)
Lines ==
  { << <<1, 2, 8>>, <<258, 257, 16>>, <<1, 3, 4>> >>,
    << <<2, 1, 8>>, NoLine, <<1, 2, 4>> >> }

Around(front, back, right) ==
  [s \in Ring |-> CASE s \in {0, 1, 10, 11} -> front
                    [] s \in {5, 6} -> back
                    [] s = 9 -> right
                    [] OTHER -> 0]

(* A hand at the back, hands at the front, or both. *)
Hands == {Around(0, 700, 300), Around(700, 0, 0), Around(700, 700, 0)}

Pressed == {{}, {"UP", "RIGHT", "PLUS"}, {"B", "MINUS"}, {"HOME"}}

Tilted == {<<-20, 3>>, <<10, 10>>}

-----------------------------------------------------------------------------
Server(release, drivers, robot, follows) ==
  [program |-> "player", release |-> release, drivers |-> drivers, robot |-> robot,
   follows |-> follows, nodes |-> {}]

Single(program, names) ==
  [program |-> program, release |-> "3.0", drivers |-> {}, robot |-> {},
   follows |-> FALSE, nodes |-> names]

(* The infrared driver on a robot with all its devices, of which any set   *)
(* opens in 3.0, and all or none in 2.1; the base beside a driver          *)
(* that loses descriptors, the network, and follow; programs on robots of  *)
(* which any set of nodes opens.                                           *)
All ==
  {Server(r, {"ir"}, {1, 2, 3}, FALSE) : r \in {"2.1", "3.0"}}
    \union {Server("2.1", {"base", "camera"}, {}, FALSE)}
    \union {Server("3.0", {d}, {}, FALSE) : d \in {"base", "camera"}}
    \union {Server(r, {"olsrd"}, {}, FALSE) : r \in {"2.1", "3.0"}}
    \union {Server("3.0", {"base", "ir"}, {1}, TRUE)}
    \union {Single("avoid", {"base", "ir", "ir0", "ir1"}),
            Single("wiibot", {"base", "ir"}),
            Single("switch", {})}

Camera == {Server(r, {"camera"}, {}, FALSE) : r \in {"2.1", "3.0"}}
=============================================================================
