---------------------------- MODULE MCMatchmaker ----------------------------
(* Small instances of Matchmaker. *)
EXTENDS Matchmaker

MCResource == {"cpu", "vram"}
Amounts(cpu, vram) == [r \in MCResource |-> IF r = "cpu" THEN cpu ELSE vram]
Cap(cpu, vram, caps) == [amount |-> Amounts(cpu, vram), capabilities |-> caps]

\* A CPU box and a GPU box
MCOffer == {Cap(2, 0, {"Cpu"}), Cap(2, 1, {"Cpu", "Gpu"})}
\* The GPU box only
MCGpuOffer == {Cap(2, 1, {"Cpu", "Gpu"})}
\* Two clients that fit side by side, and one that needs the GPU box
MCRequest == [c \in Client |-> CASE c = "a" -> Cap(1, 0, {"Cpu"})
                                 [] c = "b" -> Cap(2, 0, {"Cpu"})
                                 [] c = "g" -> Cap(1, 1, {"Gpu"})]
=============================================================================
