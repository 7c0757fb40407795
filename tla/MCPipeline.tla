----------------------------- MODULE MCPipeline -----------------------------
(***************************************************************************)
(* Pipeline.tla for TLC.                                                   *)
(***************************************************************************)
EXTENDS Pipeline

Ins(op, rd, rs, rt, imm) == [op |-> op, rd |-> rd, rs |-> rs, rt |-> rt, imm |-> imm]

\* Producers and consumers of registers 2 and 3 of every kind, with immediate,
\* register and memory operands, and branches back and forth.
Sample ==
    { Ins("add", 2, 2, 1, 1), Ins("add", 3, 3, 1, 2), Ins("add", 3, 2, 0, 0),
      Ins("lw", 2, 3, 0, 0), Ins("lw", 3, 0, 1, 1), Ins("sw", 2, 0, 1, 1), Ins("sw", 3, 2, 0, 0),
      Ins("bne", 1, 2, 3, 3), Ins("beq", 3, 2, 0, 0), Ins("jal", 1, 0, 0, 0), Ins("add", 0, 0, 0, 0) }

AllPrograms == [0..(SIZE_OF_PROGRAM - 1) -> Sample]

\* They are programs that PipelineProofs.tla speaks of.
ASSUME PlainAssumption == PlainPrograms

=============================================================================
