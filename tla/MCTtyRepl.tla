----------------------------- MODULE MCTtyRepl -----------------------------
(* Sizes for model checking TtyRepl: answers half as long as MAX_BUFFER and *)
(* chunks shorter and longer than what a write may take.                    *)
EXTENDS TtyRepl

Short == {1, 3}
=============================================================================
