--------------------------- MODULE MCWithImports ---------------------------
(***************************************************************************)
(* A function with two import specs, a whole module that can be imported   *)
(* from the start and two names of one that may raise or come later, and   *)
(* with four decorators: one from each module, one of them a stub, and one *)
(* that may raise before and one that may not accept what a stub returns.  *)
(***************************************************************************)
EXTENDS WithImports

CONSTANTS npu, runner, npuName, fp16, op

MCImports == << [module |-> npu, names |-> <<>>],
                [module |-> runner, names |-> <<fp16, op>>] >>
MCModuleName == [m \in Modules |-> npuName]
MCExports == [m \in Modules |-> IF m = runner THEN {fp16, op} ELSE {}]
MCDecorators == << {fp16}, {}, {npuName}, {} >>
=============================================================================
