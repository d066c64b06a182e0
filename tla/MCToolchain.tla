---------------------------- MODULE MCToolchain ----------------------------
(***************************************************************************)
(* Instances of the toolchain: calls of every mode whose files are right or*)
(* rejected by one of the tools.                                           *)
(***************************************************************************)
EXTENDS Toolchain

Req(mode, breaks) == [mode |-> mode, breaks |-> breaks]

Kinds == {Req("run", "none"), Req("format", "none"), Req("check", "compile"), Req("test", "nomain")}
=============================================================================
