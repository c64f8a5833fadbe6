------------------------------ MODULE MCReplay ------------------------------
(* Instances of Replay for TLC: loops of three instructions that end in a  *)
(* division.                                                               *)
EXTENDS Replay

Line == 0..2
Instr == {i \in Instruction(Line) : i.op # "divu" /\ (i.op = "jal" => i.rd = "t0")}
Division == [op : {"divu"}, rd : {"a0"}, rs : Reg]

Endless == {c \in [Line -> Instr \cup Division] : c[2] \in Division /\ c[0] \in Instr /\ c[1] \in Instr}
=============================================================================
