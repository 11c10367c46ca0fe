------------------------------ MODULE MCExecute ------------------------------
(* Instance of Execute for TLC: words of 8 bits. *)
EXTENDS ThumbIdentities

CodeOf(n) ==
  CASE n[1] = "agree"    -> AgreeCode[n[2]]
    [] n[1] = "field"    -> FieldCode(n[2], n[3], n[4])
    [] n[1] = "shift"    -> ShiftCode(n[2], n[3], n[4])
    [] n[1] = "out"      -> OutCode(n[2], n[3], n[4])
    [] n[1] = "loop"     -> LoopCode(n[2], n[3])
    [] n[1] = "saturate" -> SaturateCode(n[2], n[3], n[4])
    [] n[1] = "lane"     -> LaneCode(n[2], n[3])
    [] n[1] = "dsp"      -> DspCode[n[2]]
    [] n[1] = "exclusive" -> ExclusiveCode(n[2], n[3])
    [] OTHER -> ProgramCode(n)

MCPrograms ==
  {Laid(n, "M3", CodeOf(n)) : n \in ProgramNames \cup AgreeNames \cup ExclusiveNames}
    \cup {Laid(n, "M4", CodeOf(n)) : n \in DspNames}

(* Both ends of the signed and the unsigned range, and values between. *)
Corners == {0, 1, 2, 85, 127, 128, 129, 170, 254, 255}

MCStarts(p) ==
  CASE p[1] = "call" -> {0, 1, 5} \X {0, 1, 3} \X {FALSE}
    [] p[1] = "it"   -> {0, 1, 127, 128} \X {0, 127, 255} \X {FALSE}
    [] p[1] = "wide" /\ p[2] = "SDIV" -> {s \in Corners \X Corners \X {FALSE} : s[1] # 128 \/ s[2] # 255}
    [] p[1] \in {"decide", "wide", "lane"} \/ p[2] \in DOMAIN LogicCode \cup DOMAIN SumCode
         -> Corners \X Corners \X {FALSE}
    [] p[1] = "loop" -> {85, 129, 254} \X {0, 1, 7, 8, 9, 20, 255} \X {FALSE}
    [] OTHER -> Corners \X {0, 1} \X {FALSE}

MCRam == 96 .. 175
=============================================================================
